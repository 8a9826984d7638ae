------------------------------- MODULE Ocean --------------------------------
(***************************************************************************)
(* The OCEAN layer of one DSR agent: the Bank, the Monitor with its cache  *)
(* of sent packets, its faulty list and its SecondChanceTimers, the        *)
(* BankTimer, and the places where dsragent.cc calls them (sending,        *)
(* forwarding, the promiscuous tap, learning routes).                      *)
(*                                                                         *)
(* The other nodes are the environment: which packets are sent through     *)
(* whom, what is overheard and which routes are learned are inputs.  The   *)
(* route cache is abstracted to the set of paths it holds: an insertion    *)
(* may evict others (module MobiCache has the two caches and the rules).   *)
(*                                                                         *)
(* Time advances in ticks.  The scheduler of ns-2 fires an event at its    *)
(* exact time, so Tick waits for every timer that is due.                  *)
(***************************************************************************)
EXTENDS Bank, Paths, FiniteSets

CONSTANTS
  Me,                    \* this agent's address (net_id)
  Node,                  \* the addresses of the other nodes
  PrevHop,               \* the nodes that hand this one packets to forward
  NextHop,               \* the nodes it forwards packets to
  SeqNo,                 \* packet sequence numbers (Trace::get_seqno)
  Route,                 \* the paths from Me that can be learned
  Role,                  \* "normal", "malicious" or "selfish" (nodes.info)
  PACKET_TIMEOUT,        \* ticks after which a packet was not forwarded
  SEC_CHANCE_PERIOD,     \* ticks until a second chance
  BANK_TIMER_FREQUENCY,  \* ticks between two grants
  MaxDelay,              \* bound: largest delay of a send, in ticks
  MaxCached,             \* bound: cached packets per next hop
  MaxCount,              \* bound: forwarding counters
  NoEntry, NoPacket

ASSUME OceanAssumption ==
  /\ Me \notin Node
  /\ PrevHop \subseteq Node
  /\ NextHop \subseteq Node
  /\ Route \subseteq Seq(Node \cup {Me})
  /\ \A r \in Route : Len(r) >= 2 /\ r[1] = Me
                      /\ \A i \in 2 .. Len(r) : r[i] \in Node
  /\ \A r \in Route : \A i \in 2 .. Len(r) : SubSeq(r, 1, i) \in Route
  /\ Role \in {"normal", "malicious", "selfish"}
  /\ PACKET_TIMEOUT \in Nat
  /\ SEC_CHANCE_PERIOD \in Nat \ {0}
  /\ BANK_TIMER_FREQUENCY \in Nat \ {0}
  /\ MaxDelay \in Nat
  /\ MaxCached \in Nat \ {0}
  /\ MaxCount \in Nat

ASSUME OceanNulls ==
  /\ NoEntry \notin BankEntry
  /\ NoPacket \notin [seqno : SeqNo, age : Int]

VARIABLES
  bankTable,        \* account of each node, or NoEntry
  sentPacketTable,  \* per next hop: the SentPackets, by their pointer
  faultyList,       \* nodes considered faulty
  secondChance,     \* per node: ticks left of its SecondChanceTimers
  bankTimer,        \* ticks left of the BankTimer
  routes,           \* paths in the route cache
  isFaulty,         \* this node is in a faulty period
  relearned         \* history: the listed nodes over which a path was learned
                    \* since they were listed, without a look at the list

vars == <<bankTable, sentPacketTable, faultyList, secondChance, bankTimer,
          routes, isFaulty, relearned>>

-----------------------------------------------------------------------------

Pointer == 1 .. MaxCached

\* The age of a packet counts up from minus the delay of its sending; past
\* the timeout the exact age no longer matters.
Age == (-MaxDelay) .. (PACKET_TIMEOUT + 1)

SentPacket == [seqno : SeqNo, age : Age]

TypeOK ==
  /\ bankTable \in [Node -> BankEntry \cup {NoEntry}]
  /\ sentPacketTable \in [Node -> [Pointer -> SentPacket \cup {NoPacket}]]
  /\ faultyList \in SUBSET Node
  /\ secondChance \in [Node -> Seq(0 .. SEC_CHANCE_PERIOD)]
  /\ bankTimer \in 0 .. BANK_TIMER_FREQUENCY
  /\ routes \in SUBSET Route
  /\ isFaulty \in BOOLEAN
  /\ relearned \in SUBSET Node

Init ==
  /\ bankTable = [n \in Node |-> NoEntry]
  /\ sentPacketTable = [n \in Node |-> [sp \in Pointer |-> NoPacket]]
  /\ faultyList = {}
  /\ secondChance = [n \in Node |-> <<>>]
  /\ bankTimer = BANK_TIMER_FREQUENCY
  /\ routes = {}
  /\ isFaulty = FALSE
  /\ relearned = {}

-----------------------------------------------------------------------------
(* The Monitor *)

\* A node's account, opened when it has none.
Account(b, n) == IF b[n] = NoEntry THEN NewEntry ELSE b[n]

Expired(n) ==
  {sp \in Pointer : /\ sentPacketTable[n][sp] # NoPacket
                    /\ sentPacketTable[n][sp].age > PACKET_TIMEOUT}

Matching(n, s) ==
  {sp \in Pointer : /\ sentPacketTable[n][sp] # NoPacket
                    /\ sentPacketTable[n][sp].seqno = s}

\* The pointers that are free once the expired packets are deleted.
Free(n) == {sp \in Pointer : sentPacketTable[n][sp] = NoPacket} \cup Expired(n)

NewPointer(n) == CHOOSE sp \in Free(n) : TRUE

\* The bank after checkPacketCache(n) has blamed n for its expired packets.
Judged(b, n) ==
  IF Expired(n) = {} THEN b
  ELSE [b EXCEPT ![n] = NegativeEvents(Account(b, n), Cardinality(Expired(n)))]

\* checkPacketCache(n) brings n to the faulty rating, or finds it there.
Condemned(b, n) ==
  /\ Expired(n) # {}
  /\ Blamable(Account(b, n))
  /\ Judged(b, n)[n].rating = FAULTY_RATING_THRESHOLD

\* Mutant of addNodeToFaultyList: a listed node is listed again.
addNodeAgain(P, n) ==
  /\ faultyList' = faultyList \cup {n}
  /\ secondChance' = [secondChance EXCEPT ![n] = Append(@, SEC_CHANCE_PERIOD)]
  /\ routes' = WithoutNode(P, n)

\* The callers of the monitor leave the paths P in the route cache.
addNodeToFaultyList(P, n) ==
  IF n \in faultyList
  THEN routes' = P /\ UNCHANGED <<faultyList, secondChance>>
  ELSE /\ faultyList' = faultyList \cup {n}
       /\ secondChance' =
            [secondChance EXCEPT ![n] = Append(@, SEC_CHANCE_PERIOD)]
       /\ routes' = WithoutNode(P, n)

\* addPacketToCache: the expired packets of next hop n are judged first, then
\* the new one is cached.  The caller leaves bank b and paths P.
addPacketToCache(b, P, n, s, delay) ==
  /\ Free(n) # {}
  /\ bankTable' = Judged(b, n)
  /\ sentPacketTable' =
       [sentPacketTable EXCEPT
          ![n] = [sp \in Pointer |->
                    IF sp = NewPointer(n) THEN [seqno |-> s, age |-> -delay]
                    ELSE IF sp \in Expired(n) THEN NoPacket
                    ELSE sentPacketTable[n][sp]]]
  /\ IF Condemned(b, n)
     THEN addNodeToFaultyList(P, n)
     ELSE routes' = P /\ UNCHANGED <<faultyList, secondChance>>

-----------------------------------------------------------------------------
(* Sending and forwarding *)

\* The agent's own packet leaves along r with the paths P in the route cache.
\* Its next hop is monitored unless that is the destination.
sendOutPacketWithRoute(P, r, s, delay) ==
  IF Len(r) > 2
  THEN addPacketToCache(bankTable, P, r[2], s, delay)
  ELSE /\ routes' = P
       /\ UNCHANGED <<bankTable, sentPacketTable, faultyList, secondChance>>

\* The agent finds path p in its route cache, which may promote it, and sends
\* a packet of its own along the part r of it that ends at the destination.
Originate(p, r, s, delay) ==
  /\ p \in routes
  /\ Extends(p, r)
  /\ \E P \in Lookups(routes, p) : sendOutPacketWithRoute(P, r, s, delay)
  /\ UNCHANGED <<bankTimer, isFaulty, relearned>>

\* handleForwarding gets this far only in a node that forwards data at all.
Willing(prev) ==
  /\ Role = "normal"
  /\ ~isFaulty
  /\ prev \notin faultyList

\* The previous hop relays for another source: forwarded at no charge.
ForwardFree(prev, next, s) ==
  /\ Willing(prev)
  /\ prev # next
  /\ addPacketToCache(bankTable, routes, next, s, 0)
  /\ UNCHANGED <<bankTimer, isFaulty, relearned>>

\* The previous hop is the source and can pay: charged and forwarded.
ForwardCharged(prev, next, s) ==
  /\ Willing(prev)
  /\ prev # next
  /\ CanPay(Account(bankTable, prev))
  /\ Account(bankTable, prev).myForwardingCount < MaxCount
  /\ addPacketToCache([bankTable EXCEPT ![prev] = Charge(Account(bankTable, prev))],
                      routes, next, s, 0)
  /\ UNCHANGED <<bankTimer, isFaulty, relearned>>

\* As ForwardCharged, for the hop before the destination: nothing is cached.
ForwardLastHop(prev) ==
  /\ Willing(prev)
  /\ CanPay(Account(bankTable, prev))
  /\ Account(bankTable, prev).myForwardingCount < MaxCount
  /\ bankTable' = [bankTable EXCEPT ![prev] = Charge(Account(bankTable, prev))]
  /\ UNCHANGED <<sentPacketTable, faultyList, secondChance, bankTimer, routes,
                 isFaulty, relearned>>

\* The previous hop has no credit left.  The packet is dropped; all that
\* remains of it is the account, which had been opened to look at it.
ForwardUnpaid(prev) ==
  /\ Willing(prev)
  /\ ~CanPay(Account(bankTable, prev))
  /\ bankTable' = [bankTable EXCEPT ![prev] = Account(bankTable, prev)]
  /\ UNCHANGED <<sentPacketTable, faultyList, secondChance, bankTimer, routes,
                 isFaulty, relearned>>

\* Every cached packet with the overheard sequence number counts as forwarded.
handleTap(n, s) ==
  /\ Matching(n, s) # {}
  /\ LET k == Cardinality(Matching(n, s))
         e == Account(bankTable, n)
     IN /\ e.theirForwardingCount + k <= MaxCount
        /\ bankTable' = [bankTable EXCEPT ![n] = PositiveEvents(e, k)]
  /\ sentPacketTable' =
       [sentPacketTable EXCEPT
          ![n] = [sp \in Pointer |-> IF sp \in Matching(n, s) THEN NoPacket
                                     ELSE sentPacketTable[n][sp]]]
  /\ UNCHANGED <<faultyList, secondChance, bankTimer, routes, isFaulty,
                 relearned>>

-----------------------------------------------------------------------------
(* Learning and losing routes *)

\* Mutant of Acceptable: only the end of the offered route is looked up.
AcceptableEnd(r) == r[Len(r)] \notin faultyList

\* A route reply is refused when it names a node of the faulty list.
Acceptable(r) == \A i \in 1 .. Len(r) : r[i] \notin faultyList

\* A route reply that no packet of the send buffer was waiting for.
acceptRouteReply(r) ==
  /\ Acceptable(r)
  /\ routes' \in Insertions(routes, r)
  /\ UNCHANGED <<bankTable, sentPacketTable, faultyList, secondChance,
                 bankTimer, isFaulty, relearned>>

\* A route reply after which a buffered packet has a route, along q, and is
\* sent.  The handler goes on with the next buffered packet, which leaves with
\* a delay: that is Originate in the same tick.
acceptAndSend(r, p, q, s) ==
  /\ Acceptable(r)
  /\ Extends(p, q)
  /\ \E P \in Insertions(routes, r) :
       /\ p \in P
       /\ \E Q \in Lookups(P, p) : sendOutPacketWithRoute(Q, q, s, 0)
  /\ UNCHANGED <<bankTimer, isFaulty, relearned>>

\* A route reply overheard for others, and the reversed route of a request
\* answered as its target, are cached without looking at the faulty list.
learnUnchecked(r) ==
  /\ routes' \in Insertions(routes, r)
  /\ relearned' = relearned \cup (faultyList \cap Forwarders(r))
  /\ UNCHANGED <<bankTable, sentPacketTable, faultyList, secondChance,
                 bankTimer, isFaulty>>

noticeDeadLink(a, b) ==
  /\ routes' = WithoutLink(routes, a, b)
  /\ UNCHANGED <<bankTable, sentPacketTable, faultyList, secondChance,
                 bankTimer, isFaulty, relearned>>

-----------------------------------------------------------------------------
(* Timers and time *)

\* Mutant of SecondChanceExpire: the node is unlisted at its old rating.
SecondChanceSameRating(n) ==
  /\ secondChance[n] # <<>>
  /\ Head(secondChance[n]) = 0
  /\ secondChance' = [secondChance EXCEPT ![n] = Tail(@)]
  /\ faultyList' = faultyList \ {n}
  /\ relearned' = relearned \ {n}
  /\ UNCHANGED <<bankTable, sentPacketTable, bankTimer, routes, isFaulty>>

\* Mutant of SecondChanceExpire: the node stays on the list.
SecondChanceStillListed(n) ==
  /\ secondChance[n] # <<>>
  /\ Head(secondChance[n]) = 0
  /\ secondChance' = [secondChance EXCEPT ![n] = Tail(@)]
  /\ bankTable' =
       [bankTable EXCEPT ![n] = IF @ = NoEntry THEN @
                                ELSE setRating(@, SEC_CHANCE_NEW_RATING)]
  /\ UNCHANGED <<sentPacketTable, faultyList, bankTimer, routes, isFaulty,
                 relearned>>

SecondChanceExpire(n) ==
  /\ secondChance[n] # <<>>
  /\ Head(secondChance[n]) = 0
  /\ secondChance' = [secondChance EXCEPT ![n] = Tail(@)]
  /\ faultyList' = faultyList \ {n}
  /\ bankTable' =
       [bankTable EXCEPT ![n] = IF @ = NoEntry THEN @
                                ELSE setRating(@, SEC_CHANCE_NEW_RATING)]
  /\ relearned' = relearned \ {n}
  /\ UNCHANGED <<sentPacketTable, bankTimer, routes, isFaulty>>

\* A faulty node pays no grants, yet its timer keeps running.
BankTimerExpire ==
  /\ bankTimer = 0
  /\ bankTimer' = BANK_TIMER_FREQUENCY
  /\ bankTable' = IF isFaulty THEN bankTable
                  ELSE [n \in Node |-> IF bankTable[n] = NoEntry THEN NoEntry
                                       ELSE Grant(bankTable[n])]
  /\ UNCHANGED <<sentPacketTable, faultyList, secondChance, routes, isFaulty,
                 relearned>>

\* A faulty period begins or ends (module FaultyTimer has the schedule).
SetFaultyStatus ==
  /\ isFaulty' = ~isFaulty
  /\ UNCHANGED <<bankTable, sentPacketTable, faultyList, secondChance,
                 bankTimer, routes, relearned>>

Older(p) == IF p = NoPacket THEN p
            ELSE [p EXCEPT !.age = AtMost(@ + 1, PACKET_TIMEOUT + 1)]

Tick ==
  /\ bankTimer > 0
  /\ \A n \in Node : \A i \in 1 .. Len(secondChance[n]) : secondChance[n][i] > 0
  /\ bankTimer' = bankTimer - 1
  /\ secondChance' =
       [n \in Node |-> [i \in 1 .. Len(secondChance[n]) |->
                          secondChance[n][i] - 1]]
  /\ sentPacketTable' =
       [n \in Node |-> [sp \in Pointer |-> Older(sentPacketTable[n][sp])]]
  /\ UNCHANGED <<bankTable, faultyList, routes, isFaulty, relearned>>

-----------------------------------------------------------------------------

Next ==
  \/ \E p, r \in Route, s \in SeqNo, d \in 0 .. MaxDelay :
       Originate(p, r, s, d)
  \/ \E prev \in PrevHop, next \in NextHop, s \in SeqNo :
       \/ ForwardFree(prev, next, s)
       \/ ForwardCharged(prev, next, s)
  \/ \E prev \in PrevHop : ForwardLastHop(prev) \/ ForwardUnpaid(prev)
  \/ \E n \in Node, s \in SeqNo : handleTap(n, s)
  \/ \E r \in Route : acceptRouteReply(r) \/ learnUnchecked(r)
  \/ \E r, p, q \in Route, s \in SeqNo : acceptAndSend(r, p, q, s)
  \/ \E a, b \in Node \cup {Me} : noticeDeadLink(a, b)
  \/ \E n \in Node : SecondChanceExpire(n)
  \/ BankTimerExpire
  \/ SetFaultyStatus
  \/ Tick

Spec == Init /\ [][Next]_vars

\* The simulator's clock advances and its timers fire; nothing obliges a node
\* to send, to forward or to learn a route.
FairSpec ==
  /\ Spec
  /\ WF_vars(Tick)
  /\ WF_vars(BankTimerExpire)
  /\ \A n \in Node : WF_vars(SecondChanceExpire(n))

-----------------------------------------------------------------------------
(* Properties *)

\* A node is on the faulty list exactly while one SecondChanceTimer for it is
\* pending: no listing is forgotten by its timer and no timer is left over to
\* cut a later listing short (addNodeToFaultyList, SecondChanceTimer::expire).
SecondChancePending ==
  \A n \in Node : Len(secondChance[n]) = IF n \in faultyList THEN 1 ELSE 0

\* Whoever is at the faulty rating is on the faulty list: no order of blame,
\* praise and second chances leaves a condemned node unlisted.
ThresholdMeansListed ==
  \A n \in Node :
    bankTable[n] # NoEntry /\ bankTable[n].rating = FAULTY_RATING_THRESHOLD
      => n \in faultyList

\* Chips move with service: beyond the timer's grant an account gains at most
\* what the node was overheard to forward for us, and it loses exactly what
\* we forwarded for it, whatever else the same handler does to the bank.
CreditStep ==
  \A n \in Node :
    LET old == Account(bankTable, n)
        new == Account(bankTable', n)
        earned == new.theirForwardingCount - old.theirForwardingCount
        spent == new.myForwardingCount - old.myForwardingCount
        grant == IF bankTimer = 0 THEN BANK_TIMER_AMOUNT ELSE 0
    IN /\ new.amount <= old.amount + earned - spent + grant
       /\ new.amount >= old.amount - spent

CreditFollowsService == [][CreditStep]_vars

\* A path that a listed node would have to relay is one that was learned again,
\* since the listing, without a look at the list: the purge of the listing, the
\* check of route replies and what the route cache does to its paths by itself
\* let no other one through, over listings, second chances and new listings
\* (addNodeToFaultyList, acceptRouteReply; network_listed shows the exception).
ListedRelayUnchecked ==
  \A n \in faultyList :
    (\E r \in routes : n \in Forwarders(r)) => n \in relearned

\* Every node that is listed is given a second chance (ocean.h,
\* SEC_CHANCE_TIMEOUT_PERIOD).
SecondChanceGiven ==
  \A n \in Node : n \in faultyList ~> n \notin faultyList

-----------------------------------------------------------------------------
(* A statement of the repository that the code does not keep *)

\* bank.cc:139, "do not increment any entries on our faulty list".  The test
\* below the comment looks at the rating, and a packet overheard late raises
\* the rating of a listed node off the threshold: the next grant pays it.
GrantsSkipFaultyList ==
  [][BankTimerExpire =>
       \A n \in faultyList :
         Account(bankTable', n).amount = Account(bankTable, n).amount]_vars

=============================================================================
