------------------------------ MODULE Network -------------------------------
(***************************************************************************)
(* Route discovery and route maintenance among several DSR agents          *)
(* (dsragent.cc): requests, replies, data and route errors on the air,     *)
(* links that come and go, broken transmissions, overheard packets, and    *)
(* what OCEAN's roles and faulty lists make of each of them.               *)
(*                                                                         *)
(* The route cache is the set of its paths (RouteStore) and evicts none,   *)
(* the send buffer is the set of the waiting packets (SendBuffer), the     *)
(* request table a number for every node (RequestTable); bank and monitor  *)
(* show in packets that are refused and nodes that are listed (Ocean).     *)
(* Each has its own module for what is left out here.                      *)
(***************************************************************************)
EXTENDS Paths, Integers, FiniteSets, SequencesExt

CONSTANTS
  Node,
  Links,       \* the links that are ever up, sets of two nodes: 802.11 links
               \*   that carry no acknowledgement back carry nothing
  Start,       \* the links that are up at first
  Flow,        \* who has packets for whom
  Setups,      \* pairs of what nodes.info may make of the nodes, functions to
               \*   "normal", "malicious" or "selfish", and of what is switched on,
               \*   sets of "cache" (replies to requests from the cache) and
               \*   "gratuitous" (replies that shorten routes)
  CanFail,     \* the nodes with faulty periods
  CanList,     \* who may list whom
  MaxLen,      \* MAX_SR_LEN (16)
  MaxErrors,   \* MAX_ROUTE_ERRORS (3)
  MaxSeq,      \* bound: requests that a node originates
  MaxAir,      \* bound: packets on the air when a node originates another
  MaxMoves,    \* bound: changes of links, for each set of what is switched on
  Gratuitous,  \* GRAT_ROUTE_ERROR (0), a tell_addr that tells no one in particular;
               \*   it is also the address of ns-2's first node
  NoError      \* route_error_held is false

ASSUME NetworkAssumption ==
  /\ IsFiniteSet(Node)
  /\ \A l \in Links : \E a, b \in Node : a # b /\ l = {a, b}
  /\ Start \subseteq Links
  /\ Flow \subseteq Node \X Node /\ \A f \in Flow : f[1] # f[2]
  /\ Setups \subseteq [Node -> {"normal", "malicious", "selfish"}]
                       \X SUBSET {"cache", "gratuitous"}
  /\ CanFail \subseteq Node
  /\ CanList \subseteq Node \X Node
  /\ MaxLen \in Nat \ {0, 1}
  /\ MaxErrors \in Nat \ {0}
  /\ MaxSeq \in Nat
  /\ MaxAir \in Nat
  /\ MaxMoves \in [SUBSET {"cache", "gratuitous"} -> Nat]

VARIABLES
  role,       \* what nodes.info has made of each node
  switches,   \* what is switched on at all nodes (this build: nothing)
  links,      \* the links that are up
  air,        \* packets between two nodes, each for one receiver
  routes,     \* per node: the paths in its route cache
  table,      \* per node: the request numbers in its request table
  reqNum,     \* per node: route_request_num
  waiting,    \* per node: the packets in its send buffer
  held,       \* per node: the link err_from to err_to, or NoError
  listed,     \* per node: the Monitor's faulty list
  faulty,     \* the nodes that are in a faulty period
  todo,       \* packets that the running handler has yet to route
  left,       \* p.pkt at the end of the last recv: "null", or "freed" or "held"
  seen,       \* history: links that have been up
  moves       \* changes of links so far

setup == <<role, switches>>

vars == <<setup, links, air, routes, table, reqNum, waiting, held, listed, faulty, todo,
          left, seen, moves>>

-----------------------------------------------------------------------------
(* Packets *)

\* A route error: tell_addr is told that from_addr cannot reach to_addr.
LinkDown == [tell : Node \cup {Gratuitous}, from : Node, to : Node]

IsPath(r) == r \in Seq(Node) /\ Len(r) <= MaxLen

\* A packet without its source route: the IP addresses and what the header
\* has of a request, a reply or errors.
IsMessage(m) ==
  /\ DOMAIN m = {"type", "src", "dest", "seq", "reply", "errors"}
  /\ m.type \in {"request", "reply", "error", "data"}
  /\ m.src \in Node /\ m.dest \in Node
  /\ m.seq \in 0 .. MaxSeq
  /\ IsPath(m.reply)
  /\ m.errors \in Seq(LinkDown) /\ Len(m.errors) <= MaxErrors

Message(t, s, d) ==
  [type |-> t, src |-> s, dest |-> d, seq |-> 0, reply |-> <<>>, errors |-> <<>>]

\* Packet m on its way to node n, at position cur of its source route.
Packet(m, r, c, n) == [msg |-> m, route |-> r, cur |-> c, to |-> n]

IsPacket(p) ==
  /\ IsMessage(p.msg)
  /\ IsPath(p.route)
  /\ p.cur \in 1 .. MaxLen
  /\ p.to \in Node

TypeOK ==
  /\ setup \in Setups
  /\ links \subseteq Links
  /\ \A p \in air : IsPacket(p)
  /\ \A n \in Node : \A r \in routes[n] : IsPath(r) /\ Len(r) > 1
  /\ table \in [Node -> [Node -> 0 .. MaxSeq]]
  /\ reqNum \in [Node -> 1 .. MaxSeq + 1]
  /\ \A n \in Node : \A m \in waiting[n] : IsMessage(m)
  /\ held \in [Node -> (Node \X Node) \cup {NoError}]
  /\ listed \in [Node -> SUBSET Node]
  /\ faulty \subseteq Node
  /\ \A i \in DOMAIN todo : todo[i].at \in Node /\ IsMessage(todo[i].msg)
  /\ left \in {"null", "freed", "held"}
  /\ seen \subseteq Links
  /\ moves \in 0 .. MaxMoves[switches]

Init ==
  /\ \E s \in Setups : role = s[1] /\ switches = s[2]
  /\ links = Start
  /\ air = {}
  /\ routes = [n \in Node |-> {}]
  /\ table = [n \in Node |-> [m \in Node |-> 0]]
  /\ reqNum = [n \in Node |-> 1]
  /\ waiting = [n \in Node |-> {}]
  /\ held = [n \in Node |-> NoError]
  /\ listed = [n \in Node |-> {}]
  /\ faulty = {}
  /\ todo = <<>>
  /\ left = "null"
  /\ seen = Start
  /\ moves = 0

-----------------------------------------------------------------------------
(* Helpers *)

Neighbour(n) == {m \in Node : {n, m} \in links}

On(n, p) == \E i \in DOMAIN p : p[i] = n

\* A broadcast is a packet for each neighbour (one that is lost is on the air
\* for ever, as any packet may be).
Broadcast(m, r, n) == {Packet(m, r, Len(r), k) : k \in Neighbour(n)}

\* sendOutPacketWithRoute: packet m goes to the node after position c of r.
Unicast(m, r, c) == Packet(m, r, c + 1, r[c + 1])

Dead(e) == {<<e[i].from, e[i].to>> : i \in DOMAIN e}

\* Mutant of Upto: the node behind the dead link stays.
UptoAcross(p, D) ==
  LET I == {i \in 1 .. Len(p) - 1 : <<p[i], p[i + 1]>> \in D}
  IN IF I = {} THEN p ELSE SubSeq(p, 1, 1 + CHOOSE i \in I : \A j \in I : i <= j)

\* Path p up to the first dead link.
Upto(p, D) ==
  LET I == {i \in 1 .. Len(p) - 1 : <<p[i], p[i + 1]>> \in D}
  IN IF I = {} THEN p ELSE SubSeq(p, 1, CHOOSE i \in I : \A j \in I : i <= j)

\* Mutant of Without: a path that is cut to its first node stays.
WithoutTails(P, D) == {Upto(p, D) : p \in P}

Without(P, D) == {q \in {Upto(p, D) : p \in P} : Len(q) > 1}

Purge(n, e) == [routes EXCEPT ![n] = Without(@, Dead(e))]

\* A handler runs to its end: whatever it still has to send goes first.
Idle == todo = <<>>

-----------------------------------------------------------------------------
(* Packets that need a route: handlePktWithoutSR *)

\* An application's packet, or a packet in the send buffer that its check has
\* come to.
Originate(s, d) ==
  /\ Idle
  /\ <<s, d>> \in Flow
  /\ Cardinality(air) < MaxAir
  /\ todo' = <<[at |-> s, msg |-> Message("data", s, d)]>>
  /\ left' = "null"
  /\ UNCHANGED <<setup, links, air, routes, table, reqNum, waiting, held, listed, faulty,
                 seen, moves>>

Retry(n, m) ==
  /\ Idle
  /\ m \in waiting[n]
  /\ Cardinality(air) < MaxAir
  /\ todo' = <<[at |-> n, msg |-> m]>>
  /\ waiting' = [waiting EXCEPT ![n] = @ \ {m}]
  /\ left' = "null"
  /\ UNCHANGED <<setup, links, air, routes, table, reqNum, held, listed, faulty,
                 seen, moves>>

SendTimeout(n, m) ==
  /\ Idle
  /\ m \in waiting[n]
  /\ waiting' = [waiting EXCEPT ![n] = @ \ {m}]
  /\ left' = "null"
  /\ UNCHANGED <<setup, links, air, routes, table, reqNum, held, listed, faulty, todo,
                 seen, moves>>

n0 == todo[1].at
m0 == todo[1].msg

\* The packet has a route, and sendOutPacketWithRoute starts it at the front.
SendOut ==
  /\ ~Idle
  /\ \E r \in Shortest(routes[n0], m0.dest) :
       air' = air \cup {Unicast(m0, r, 1)}
  /\ todo' = Tail(todo)
  /\ left' = "null"
  /\ UNCHANGED <<setup, links, routes, table, reqNum, waiting, held, listed, faulty,
                 seen, moves>>

\* It has none, and it is not time for a request (module SendBuffer).
Wait ==
  /\ ~Idle
  /\ Shortest(routes[n0], m0.dest) = {}
  /\ waiting' = [waiting EXCEPT ![n0] = @ \cup {m0}]
  /\ todo' = Tail(todo)
  /\ left' = "null"
  /\ UNCHANGED <<setup, links, air, routes, table, reqNum, held, listed, faulty,
                 seen, moves>>

\* sendOutRtReq: the request carries the route error that is held.
HeldErrors(n) ==
  IF held[n] = NoError THEN <<>>
  ELSE <<[tell |-> Gratuitous, from |-> held[n][1], to |-> held[n][2]]>>

Request ==
  /\ ~Idle
  /\ Shortest(routes[n0], m0.dest) = {}
  /\ reqNum[n0] <= MaxSeq
  /\ waiting' = [waiting EXCEPT ![n0] = @ \cup {m0}]
  /\ LET m == [Message("request", n0, m0.dest) EXCEPT
                 !.seq = reqNum[n0], !.errors = HeldErrors(n0)]
     IN air' = air \cup Broadcast(m, <<n0>>, n0)
  /\ reqNum' = [reqNum EXCEPT ![n0] = @ + 1]
  /\ held' = [held EXCEPT ![n0] = NoError]
  /\ todo' = Tail(todo)
  /\ left' = "null"
  /\ UNCHANGED <<setup, links, routes, table, listed, faulty, seen, moves>>

\* max_err_hold has passed since the error was told.
HoldExpires(n) ==
  /\ Idle
  /\ held[n] # NoError
  /\ held' = [held EXCEPT ![n] = NoError]
  /\ left' = "null"
  /\ UNCHANGED <<setup, links, air, routes, table, reqNum, waiting, listed, faulty, todo,
                 seen, moves>>

-----------------------------------------------------------------------------
(* Route errors: processBrokenRouteError *)

\* Mutant of NextError: the error is addressed before it is unwrapped.
NextErrorEarly(n, m) ==
  [m EXCEPT !.src = n, !.errors = Front(@), !.dest = Last(m.errors).tell]

\* The error that is left when the outermost is taken off.
NextError(n, m) ==
  [m EXCEPT !.src = n, !.errors = Front(@),
            !.dest = m.errors[Len(m.errors) - 1].tell]

\* The one whom the outermost error of m tells, if m has any, holds it and sends
\* on those that were nested in it.
TakeError(n, m) ==
  IF m.errors # <<>> /\ Last(m.errors).tell = n
  THEN /\ held' = [held EXCEPT ![n] = <<Last(m.errors).from, Last(m.errors).to>>]
       /\ todo' = IF Len(m.errors) = 1 THEN <<>>
                  ELSE <<[at |-> n, msg |-> NextError(n, m)]>>
  ELSE UNCHANGED <<held, todo>>

\* Every link is purged, whomever the errors tell.
processBrokenRouteError(n, m) == routes' = Purge(n, m.errors) /\ TakeError(n, m)

-----------------------------------------------------------------------------
(* Requests: handleRouteRequest, and handlePacketReceipt at the target *)

\* ignoreRouteRequestp
Ignored(n, p) ==
  \/ table[n][p.msg.src] >= p.msg.seq
  \/ On(n, p.route)
  \/ Len(p.route) = MaxLen

\* Mutant of Shunned: a selfish node handles requests as others do.
ShunnedIfFaulty(n, p) ==
  \/ n \in faulty
  \/ \E m \in listed[n] : On(m, p.route)

Shunned(n, p) ==
  \/ role[n] = "selfish"
  \/ n \in faulty
  \/ \E m \in listed[n] : On(m, p.route)

\* A copy of the request that arrives at another node than the target.  recv
\* has it look at the error first, which tells ns-2's first node, if it is that.
RequestArrives(n, p) ==
  Idle /\ p \in air /\ p.to = n /\ p.msg.type = "request" /\ p.msg.dest # n
       /\ processBrokenRouteError(n, p.msg)

IgnoreRequest(n, p) ==
  /\ RequestArrives(n, p)
  /\ Ignored(n, p)
  /\ air' = air \ {p}
  /\ left' = "null"
  /\ UNCHANGED <<setup, links, table, reqNum, waiting, listed, faulty, seen, moves>>

\* The drop leaves p.pkt as it is, and recv finds it at its end.
DropRequest(n, p) ==
  /\ RequestArrives(n, p)
  /\ ~Ignored(n, p) /\ Shunned(n, p)
  /\ air' = air \ {p}
  /\ left' = "freed"
  /\ UNCHANGED <<setup, links, table, reqNum, waiting, listed, faulty, seen, moves>>

\* Routes to the request's target that the node may answer with, and what comes
\* out when one is put after the route so far.  A loop may cut out the node.
CacheRoutes(n, p) ==
  IF "cache" \in switches
  THEN Shortest(Without(routes[n], Dead(p.msg.errors)), p.msg.dest) ELSE {}

Completed(p, r) == compressPath(p.route \o r)

Suits(n, p, r) == Len(p.route) + Len(r) <= MaxLen /\ On(n, Completed(p, r))

\* replyFromRouteCache.  (The error that a request carries ends here.)
AnswerFromCache(n, p) ==
  /\ Idle /\ p \in air /\ p.to = n /\ p.msg.type = "request" /\ p.msg.dest # n
  /\ ~Ignored(n, p) /\ ~Shunned(n, p)
  /\ TakeError(n, p.msg)
  /\ table' = [table EXCEPT ![n][p.msg.src] = p.msg.seq]
  /\ LET back == Reverse(Append(p.route, n))
     IN /\ \E r \in CacheRoutes(n, p) :
             /\ Suits(n, p, r)
             /\ air' = (air \ {p}) \cup
                  {Unicast([Message("reply", n, p.msg.src) EXCEPT !.reply = Completed(p, r)],
                           back, 1)}
        /\ routes' = [routes EXCEPT ![n] = Without(@, Dead(p.msg.errors)) \cup {back}]
  /\ left' = "null"
  /\ UNCHANGED <<setup, links, reqNum, waiting, listed, faulty, seen, moves>>

\* Mutant of ForwardRequest: a request is taken without a look at its route.
ForwardAnyRequest(n, p) ==
  /\ RequestArrives(n, p)
  /\ table[n][p.msg.src] < p.msg.seq /\ Len(p.route) < MaxLen /\ ~Shunned(n, p)
  /\ CacheRoutes(n, p) = {} \/ \E r \in CacheRoutes(n, p) : ~Suits(n, p, r)
  /\ table' = [table EXCEPT ![n][p.msg.src] = p.msg.seq]
  /\ air' = (air \ {p}) \cup Broadcast(p.msg, Append(p.route, n), n)
  /\ left' = "null"
  /\ UNCHANGED <<setup, links, reqNum, waiting, listed, faulty, seen, moves>>

ForwardRequest(n, p) ==
  /\ RequestArrives(n, p)
  /\ ~Ignored(n, p) /\ ~Shunned(n, p)
  /\ CacheRoutes(n, p) = {} \/ \E r \in CacheRoutes(n, p) : ~Suits(n, p, r)
  /\ table' = [table EXCEPT ![n][p.msg.src] = p.msg.seq]
  /\ air' = (air \ {p}) \cup Broadcast(p.msg, Append(p.route, n), n)
  /\ left' = "null"
  /\ UNCHANGED <<setup, links, reqNum, waiting, listed, faulty, seen, moves>>

\* Mutant of Answer: the reply carries the route without the target.
AnswerShort(n, p) ==
  LET r == Append(p.route, n)
  IN Packet([Message("reply", n, p.msg.src) EXCEPT !.reply = p.route], Reverse(r), 1, n)

\* returnSrcRouteToRequestor schedules the reply for this agent's own recv.
Answer(n, p) ==
  LET r == Append(p.route, n)
  IN Packet([Message("reply", n, p.msg.src) EXCEPT !.reply = r], Reverse(r), 1, n)

AnswerRequest(n, p) ==
  /\ Idle /\ p \in air /\ p.to = n /\ p.msg.type = "request" /\ p.msg.dest = n
  /\ TakeError(n, p.msg)
  /\ table' = [table EXCEPT ![n][p.msg.src] = p.msg.seq]
  /\ IF Len(p.route) < MaxLen
     THEN /\ air' = (air \ {p}) \cup {Answer(n, p)}
          /\ routes' = [routes EXCEPT ![n] =
                          Without(@ \cup {Answer(n, p).route}, Dead(p.msg.errors))]
     ELSE /\ air' = air \ {p}
          /\ routes' = Purge(n, p.msg.errors)
  /\ left' = "null"
  /\ UNCHANGED <<setup, links, reqNum, waiting, listed, faulty, seen, moves>>

-----------------------------------------------------------------------------
(* Forwarding along a source route: handleForwarding *)

\* recv has the forwarder look at a route error first.  A node's own reply
\* comes by with cur_addr 0, and get_prev_addr reads what is before the route.
ForwardArrives(n, p, prev) ==
  /\ Idle /\ p \in air /\ p.to = n /\ p.msg.type # "request" /\ p.msg.dest # n
  /\ p.cur > 1 => prev = p.route[p.cur - 1]
  /\ processBrokenRouteError(n, p.msg)

Forward(n, p, prev) ==
  /\ ForwardArrives(n, p, prev)
  /\ \/ role[n] = "malicious" /\ p.msg.type = "reply"
     \/ role[n] = "normal" /\ n \notin faulty /\ prev \notin listed[n]
  /\ air' = (air \ {p}) \cup {Unicast(p.msg, p.route, p.cur)}
  /\ left' = "null"
  /\ UNCHANGED <<setup, links, table, reqNum, waiting, listed, faulty, seen, moves>>

\* Dropped for the node's role, for its faulty period, for the faulty list, or
\* for want of chips, which only the packet's source pays.  A selfish node does
\* nothing at all with what is no reply.
Refuses(n, p, prev) ==
  \/ role[n] = "malicious" /\ p.msg.type # "reply"
  \/ role[n] = "selfish"
  \/ role[n] = "normal" /\ (\/ n \in faulty
                            \/ prev \in listed[n]
                            \/ p.msg.type # "reply" /\ prev = p.msg.src)

Drop(n, p, prev) ==
  /\ ForwardArrives(n, p, prev)
  /\ Refuses(n, p, prev)
  /\ air' = air \ {p}
  /\ left' = IF role[n] = "selfish" /\ p.msg.type # "reply" THEN "held" ELSE "freed"
  /\ UNCHANGED <<setup, links, table, reqNum, waiting, listed, faulty, seen, moves>>

-----------------------------------------------------------------------------
(* Packets at their destination: handlePacketReceipt *)

Arrives(n, p, t) == Idle /\ p \in air /\ p.to = n /\ p.msg.dest = n /\ p.msg.type = t

ReceiveData(n, p) ==
  /\ Arrives(n, p, "data")
  /\ air' = air \ {p}
  /\ left' = "null"
  /\ UNCHANGED <<setup, links, routes, table, reqNum, waiting, held, listed, faulty, todo,
                 seen, moves>>

\* acceptRouteReply refuses a route over a listed node ...
RefuseReply(n, p) ==
  /\ Arrives(n, p, "reply")
  /\ \E m \in listed[n] : On(m, p.msg.reply)
  /\ air' = air \ {p}
  /\ left' = "null"
  /\ UNCHANGED <<setup, links, routes, table, reqNum, waiting, held, listed, faulty, todo,
                 seen, moves>>

\* ... and otherwise caches the route and takes what now has a route out of
\* the send buffer.
Routed(n, P) == {m \in waiting[n] : Shortest(P, m.dest) # {}}

AcceptReply(n, p) ==
  /\ Arrives(n, p, "reply")
  /\ ~ \E m \in listed[n] : On(m, p.msg.reply)
  /\ routes' = [routes EXCEPT ![n] = @ \cup {p.msg.reply}]
  /\ air' = air \ {p}
  /\ waiting' = [waiting EXCEPT ![n] = @ \ Routed(n, routes'[n])]
  /\ \E s \in SetToSeqs(Routed(n, routes'[n])) :
       todo' = [i \in DOMAIN s |-> [at |-> n, msg |-> s[i]]]
  /\ left' = "null"
  /\ UNCHANGED <<setup, links, table, reqNum, held, listed, faulty, seen, moves>>

ReceiveError(n, p) ==
  /\ Arrives(n, p, "error")
  /\ processBrokenRouteError(n, p.msg)
  /\ air' = air \ {p}
  /\ left' = "null"
  /\ UNCHANGED <<setup, links, table, reqNum, waiting, listed, faulty, seen, moves>>

-----------------------------------------------------------------------------
(* A transmission that fails: xmitFailed and undeliverablePkt *)

Sender(p) == p.route[p.cur - 1]

OnTheWay(p) == p \in air /\ p.msg.type # "request" /\ p.cur > 1

\* What the sender has queued for the same next hop besides packet p.
Queued(p) == {q \in air : OnTheWay(q) /\ q # p /\ Sender(q) = Sender(p) /\ q.to = p.to}

\* Mutant of ErrorFor: the error's route goes on to the node that was not
\* reached.
ErrorForLong(p) ==
  LET x == Sender(p)
      e == Append(p.msg.errors, [tell |-> p.route[1], from |-> x, to |-> p.to])
      m == [Message("error", x, p.route[1]) EXCEPT !.errors = e]
  IN IF p.route[1] = x \/ Len(p.msg.errors) >= MaxErrors THEN {}
     ELSE {Unicast(m, Reverse(SubSeq(p.route, 1, p.cur)), 1)}

\* The route error that packet p is turned into, if it is.
ErrorFor(p) ==
  LET x == Sender(p)
      r == Reverse(SubSeq(p.route, 1, p.cur - 1))
      e == Append(p.msg.errors, [tell |-> p.route[1], from |-> x, to |-> p.to])
      m == [Message("error", x, p.route[1]) EXCEPT !.errors = e]
  IN IF p.route[1] = x \/ Len(p.msg.errors) >= MaxErrors THEN {}
     ELSE {Unicast(m, r, 1)}

\* What the sender cannot send any more: its own packets look for another
\* route, the others are dropped and only packet p tells of it
\* (dsragent_salvage_with_cache is false).
xmitFailed(p) ==
  /\ Idle
  /\ OnTheWay(p) /\ {Sender(p), p.to} \notin links
  /\ LET x == Sender(p)
     IN /\ routes' = [routes EXCEPT ![x] = Without(@, {<<x, p.to>>})]
        /\ \E Q \in SUBSET Queued(p) :
             /\ air' = (air \ ({p} \cup Q)) \cup ErrorFor(p)
             /\ \E s \in SetToSeqs({q.msg : q \in {k \in {p} \cup Q : k.msg.src = x}}) :
                  todo' = [i \in DOMAIN s |-> [at |-> x, msg |-> s[i]]]
  /\ left' = "null"
  /\ UNCHANGED <<setup, links, table, reqNum, waiting, held, listed, faulty, seen, moves>>

-----------------------------------------------------------------------------
(* The promiscuous tap *)

Overhears(n, p) ==
  Idle /\ OnTheWay(p) /\ n # p.to /\ n # Sender(p) /\ n \in Neighbour(Sender(p))

\* A node may overhear the error that it is about to be sent.
TapError(n, p) ==
  /\ Overhears(n, p)
  /\ p.msg.type = "error"
  /\ processBrokenRouteError(n, p.msg)
  /\ left' = "null"
  /\ UNCHANGED <<setup, links, air, table, reqNum, waiting, listed, faulty, seen, moves>>

\* Mutant of TapReply: the whole route is taken.
TapReplyAll(n, p) ==
  /\ Overhears(n, p)
  /\ p.msg.type = "reply"
  /\ On(n, Front(p.msg.reply))
  /\ routes' = [routes EXCEPT ![n] = @ \cup {p.msg.reply}]
  /\ left' = "null"
  /\ UNCHANGED <<setup, links, air, table, reqNum, waiting, held, listed, faulty, todo,
                 seen, moves>>

\* noticeRouteUsed takes the rest of the route from this node on.
TapReply(n, p) ==
  /\ Overhears(n, p)
  /\ p.msg.type = "reply"
  /\ \E i \in 1 .. Len(p.msg.reply) - 1 :
       /\ p.msg.reply[i] = n
       /\ routes' = [routes EXCEPT ![n] = @ \cup {SubSeq(p.msg.reply, i, Len(p.msg.reply))}]
  /\ left' = "null"
  /\ UNCHANGED <<setup, links, air, table, reqNum, waiting, held, listed, faulty, todo,
                 seen, moves>>

\* sendRouteShortening: a node on the rest of a data packet's route tells the
\* packet's source that it can leave out what comes between.  The hold-down
\* keeps its times with other routes than its own (line 2519), so that a reply
\* may or may not be held back.
TapData(n, p) ==
  /\ Overhears(n, p)
  /\ p.msg.type = "data" /\ "gratuitous" \in switches
  /\ \E i \in p.cur + 1 .. Len(p.route) :
       /\ p.route[i] = n
       /\ LET heard == SubSeq(p.route, 1, p.cur - 1)
              back == Reverse(Append(heard, n))
              m == [Message("reply", n, p.route[1]) EXCEPT
                      !.reply = heard \o SubSeq(p.route, i, Len(p.route))]
          IN /\ air' = air \cup {Unicast(m, back, 1)}
             /\ routes' = [routes EXCEPT ![n] = @ \cup {back}]
  /\ left' = "null"
  /\ UNCHANGED <<setup, links, table, reqNum, waiting, held, listed, faulty, todo,
                 seen, moves>>

-----------------------------------------------------------------------------
(* Monitors, faulty timers, caches and links *)

addNodeToFaultyList(n, m) ==
  /\ Idle
  /\ <<n, m>> \in CanList
  /\ m \notin listed[n]
  /\ listed' = [listed EXCEPT ![n] = @ \cup {m}]
  /\ routes' = [routes EXCEPT ![n] = WithoutNode(@, m)]
  /\ left' = "null"
  /\ UNCHANGED <<setup, links, air, table, reqNum, waiting, held, faulty, todo, seen, moves>>

removeNodeFromFaultyList(n, m) ==
  /\ Idle
  /\ m \in listed[n]
  /\ listed' = [listed EXCEPT ![n] = @ \ {m}]
  /\ left' = "null"
  /\ UNCHANGED <<setup, links, air, routes, table, reqNum, waiting, held, faulty, todo,
                 seen, moves>>

setFaultyStatus(n) ==
  /\ Idle
  /\ n \in CanFail
  /\ faulty' = IF n \in faulty THEN faulty \ {n} ELSE faulty \cup {n}
  /\ left' = "null"
  /\ UNCHANGED <<setup, links, air, routes, table, reqNum, waiting, held, listed, todo,
                 seen, moves>>

Move(l) ==
  /\ Idle
  /\ moves < MaxMoves[switches]
  /\ links' = IF l \in links THEN links \ {l} ELSE links \cup {l}
  /\ seen' = seen \cup links'
  /\ moves' = moves + 1
  /\ left' = "null"
  /\ UNCHANGED <<setup, air, routes, table, reqNum, waiting, held, listed, faulty, todo>>

-----------------------------------------------------------------------------

Receiving ==
  \E p \in air :
    \/ IgnoreRequest(p.to, p) \/ DropRequest(p.to, p)
    \/ ForwardRequest(p.to, p) \/ AnswerFromCache(p.to, p) \/ AnswerRequest(p.to, p)
    \/ \E prev \in Node : Forward(p.to, p, prev) \/ Drop(p.to, p, prev)
    \/ ReceiveData(p.to, p) \/ RefuseReply(p.to, p) \/ AcceptReply(p.to, p)
    \/ ReceiveError(p.to, p)

OnTheLink ==
  \E p \in air : \/ xmitFailed(p)
                 \/ \E n \in Node : TapError(n, p) \/ TapReply(n, p) \/ TapData(n, p)

Next ==
  \/ Receiving \/ OnTheLink
  \/ SendOut \/ Wait \/ Request
  \/ \E s, d \in Node : Originate(s, d)
  \/ \E n \in Node : \E m \in waiting[n] : Retry(n, m) \/ SendTimeout(n, m)
  \/ \E n \in Node : HoldExpires(n) \/ setFaultyStatus(n)
  \/ \E n, m \in Node : addNodeToFaultyList(n, m) \/ removeNodeFromFaultyList(n, m)
  \/ \E l \in Links : Move(l)

Spec == Init /\ [][Next]_vars

-----------------------------------------------------------------------------
(* Properties *)

Simple(p) == \A i, j \in DOMAIN p : i # j => p[i] # p[j]

\* No source route and no cached path visits a node twice, whatever copies of
\* a request meet and however routes are cut, reversed and extended.
RoutesSimple ==
  /\ \A p \in air : Simple(p.route) /\ Simple(p.msg.reply)
  /\ \A n \in Node : \A r \in routes[n] : Simple(r)

\* What tap's comment calls an invariant: the IP source of a packet is the
\* first node of its source route, and its destination is the last.
SourceHeadsRoute ==
  \A p \in air : /\ p.route[1] = p.msg.src
                 /\ p.msg.type # "request" => Last(p.route) = p.msg.dest

WereLinks(r) == \A i \in 1 .. Len(r) - 1 : {r[i], r[i + 1]} \in seen

\* A cached path starts at its owner; each of its links has been up, and so has
\* each link of a source route and of a route that a reply offers, whether it was
\* collected, joined from two parts or shortened.
RoutesWereLinks ==
  /\ \A n \in Node : \A r \in routes[n] : r[1] = n /\ WereLinks(r)
  /\ \A p \in air : WereLinks(p.route) /\ WereLinks(p.msg.reply)

\* A selfish node gets on no route: no one is sent over it, and it is never
\* asked to forward (and never neglects) another node's packet.
SelfishOffRoutes ==
  /\ \A p \in air : \A i \in 2 .. Len(p.route) - 1 : role[p.route[i]] # "selfish"
  /\ left # "held"

\* A route error is addressed to the one it tells, and no agent ever has an
\* error for itself to send, however the errors are nested and unwrapped.
ErrorsAddressed ==
  /\ \A p \in air : p.msg.type = "error" => Last(p.msg.errors).tell = p.msg.dest
  /\ \A i \in DOMAIN todo : todo[i].msg.dest # todo[i].at

\* A route error that its addressee takes, over whatever other errors it was
\* nested in, leaves that node no path with any of the errors' links.
ErrorPurges ==
  [][\A p \in air :
       (/\ p.msg.type = "error" /\ p.to = p.msg.dest /\ p \notin air'
        /\ {Sender(p), p.to} \in links)
       => \A r \in routes'[p.to] : \A i \in DOMAIN p.msg.errors :
              ~HasLink(r, p.msg.errors[i].from, p.msg.errors[i].to)]_vars

\* recv asserts at its end that p.pkt is NULL.
RecvDisposed == left = "null"

\* The route of a listed node is removed, and no route over it is taken while
\* it is on the faulty list (addNodeToFaultyList's comment).
NoListedRelay ==
  \A n \in Node : \A r \in routes[n] : \A m \in listed[n] : m \notin Forwarders(r)

=============================================================================
