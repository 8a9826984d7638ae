---------------------------- MODULE OceanProofs -----------------------------
(***************************************************************************)
(* Theorems about Ocean, for every set of nodes, every threshold and every *)
(* period: its type invariant, the two invariants of the faulty list, the  *)
(* conservation of chips and the routes that are kept off listed nodes.    *)
(***************************************************************************)
EXTENDS Ocean, BankProofs, FiniteSetTheorems, TLAPS

-----------------------------------------------------------------------------
(* The set of cached paths stays within Route. *)

\* A path set that stays within R when a path of R is inserted.
LEMMA InsertionsSub ==
  ASSUME NEW R, NEW P \in SUBSET R, NEW p \in R, NEW Q \in Insertions(P, p)
  PROVE  Q \in SUBSET R
BY DEF Insertions

\* The same for a lookup of a path of R.
LEMMA LookupsSub ==
  ASSUME NEW R, NEW P \in SUBSET R, NEW p \in R, NEW Q \in Lookups(P, p)
  PROVE  Q \in SUBSET R
BY InsertionsSub DEF Lookups, Promotions

\* Deleting a node's paths adds none.
LEMMA WithoutNodeSub ==
  ASSUME NEW P, NEW n
  PROVE  WithoutNode(P, n) \in SUBSET P
BY DEF WithoutNode

\* What is left of known paths when a link dies are known paths.
LEMMA WithoutLinkSub ==
  ASSUME NEW P \in SUBSET Route, NEW a, NEW b
  PROVE  WithoutLink(P, a, b) \in SUBSET Route
<1> SUFFICES ASSUME NEW p \in P, Len(Cut(p, a, b)) > 1
             PROVE  Cut(p, a, b) \in Route
  BY DEF WithoutLink
<1>1. p \in Route /\ p \in Seq(Node \cup {Me}) /\ Len(p) \in Nat
  BY OceanAssumption
<1>2. CASE ~HasLink(p, a, b)
  BY <1>1, <1>2 DEF Cut
<1>3. CASE HasLink(p, a, b)
  <2> DEFINE i0 == CHOOSE i \in 1 .. Len(p) - 1 : p[i] = a /\ p[i + 1] = b
  <2>1. Cut(p, a, b) = SubSeq(p, 1, i0)
    BY <1>3 DEF Cut
  <2>2. i0 \in 1 .. Len(p) - 1
    BY <1>3 DEF HasLink
  <2>3. Len(SubSeq(p, 1, i0)) = i0
    BY <1>1, <2>2
  <2>4. i0 \in 2 .. Len(p)
    BY <1>1, <2>1, <2>2, <2>3
  <2>5. QED
    BY <1>1, <2>1, <2>4, OceanAssumption
<1>4. QED
  BY <1>2, <1>3

-----------------------------------------------------------------------------
(* The monitor's helpers. *)

BankType == [Node -> BankEntry \cup {NoEntry}]

\* The account that a bank has, or opens, for a node.
LEMMA AccountType ==
  ASSUME NEW b \in BankType, NEW n \in Node
  PROVE  /\ Account(b, n) \in BankEntry
         /\ b[n] # NoEntry => Account(b, n) = b[n]
         /\ b[n] = NoEntry => Account(b, n) = NewEntry
BY NewEntryType DEF BankType, Account

\* There are finitely many packet pointers.
LEMMA PointerFinite == IsFiniteSet(Pointer)
BY FS_Interval, OceanAssumption DEF Pointer

\* The expired packets of a next hop can be counted.
LEMMA ExpiredFinite ==
  ASSUME NEW n
  PROVE  Cardinality(Expired(n)) \in Nat
<1>1. Expired(n) \subseteq Pointer
  BY DEF Expired
<1>2. QED
  BY <1>1, PointerFinite, FS_Subset, FS_CardinalityType

\* So can the packets that an overheard one matches; there is one at least.
LEMMA MatchingFinite ==
  ASSUME NEW n, NEW s, Matching(n, s) # {}
  PROVE  Cardinality(Matching(n, s)) \in Nat \ {0}
<1>1. Matching(n, s) \subseteq Pointer
  BY DEF Matching
<1>2. IsFiniteSet(Matching(n, s))
  BY <1>1, PointerFinite, FS_Subset
<1>3. QED
  BY <1>2, FS_CardinalityType, FS_EmptySet

\* Judging changes nothing but ratings, and only n's; if n ends up at the
\* faulty rating it was there before or it is condemned.
LEMMA JudgedType ==
  ASSUME TypeOK, NEW b \in BankType, NEW n \in Node
  PROVE  /\ Judged(b, n) \in BankType
         /\ \A m \in Node : m # n => Judged(b, n)[m] = b[m]
         /\ \A m \in Node :
              /\ Account(Judged(b, n), m).amount = Account(b, m).amount
              /\ Account(Judged(b, n), m).myForwardingCount
                   = Account(b, m).myForwardingCount
              /\ Account(Judged(b, n), m).theirForwardingCount
                   = Account(b, m).theirForwardingCount
         /\ \/ Judged(b, n)[n] = b[n]
            \/ Judged(b, n)[n] = NewEntry
            \/ /\ Judged(b, n)[n] \in BankEntry
               /\ Judged(b, n)[n].rating = FAULTY_RATING_THRESHOLD
                    => Condemned(b, n)
<1>1. CASE Expired(n) = {}
  BY <1>1, AccountType DEF Judged
<1>2. CASE Expired(n) # {}
  <2> DEFINE e == Account(b, n)
             f == NegativeEvents(e, Cardinality(Expired(n)))
  <2>1. e \in BankEntry
    BY AccountType
  <2>2. /\ f \in BankEntry
        /\ ~Blamable(e) => f = e
        /\ f.amount = e.amount
        /\ f.myForwardingCount = e.myForwardingCount
        /\ f.theirForwardingCount = e.theirForwardingCount
    BY <2>1, ExpiredFinite, NegativeType
  <2>3. Judged(b, n) = [b EXCEPT ![n] = f]
    BY <1>2 DEF Judged
  <2>4. /\ Judged(b, n) \in BankType
        /\ Judged(b, n)[n] = f
        /\ \A m \in Node : m # n => Judged(b, n)[m] = b[m]
    BY <2>2, <2>3 DEF BankType
  <2>5. Account(Judged(b, n), n) = f
    BY <2>2, <2>4, OceanNulls DEF Account
  <2>6. \A m \in Node : m # n => Account(Judged(b, n), m) = Account(b, m)
    BY <2>4 DEF Account
  <2>7. \/ f = b[n]
        \/ f = NewEntry
        \/ f.rating = FAULTY_RATING_THRESHOLD => Condemned(b, n)
    <3>1. CASE Blamable(e)
      BY <1>2, <2>4, <3>1 DEF Condemned
    <3>2. CASE ~Blamable(e)
      BY <2>2, <3>2, AccountType
    <3>3. QED
      BY <3>1, <3>2
  <2> HIDE DEF f
  <2>8. QED
    BY <2>2, <2>4, <2>5, <2>6, <2>7
<1>3. QED
  BY <1>1, <1>2

-----------------------------------------------------------------------------
(* The faulty list *)

Constants ==
  /\ SEC_CHANCE_PERIOD \in Nat \ {0}
  /\ BANK_TIMER_FREQUENCY \in Nat \ {0}
  /\ PACKET_TIMEOUT \in Nat
  /\ MaxDelay \in Nat

\* The assumption about the constants, in the form the provers need it.
LEMMA OceanConstants == Constants
BY OceanAssumption DEF Constants

\* ThresholdMeansListed for a bank b that need not be the current one.
Listed(b, F) ==
  \A n \in Node :
    b[n] # NoEntry /\ b[n].rating = FAULTY_RATING_THRESHOLD => n \in F

FaultyListInv == TypeOK /\ SecondChancePending /\ ThresholdMeansListed

\* The tail of a sequence of timers is one.
LEMMA TailType ==
  ASSUME NEW S, NEW t \in Seq(S), t # <<>>
  PROVE  Tail(t) \in Seq(S) /\ Len(Tail(t)) = Len(t) - 1
OBVIOUS

\* What addNodeToFaultyList leaves, when the caller leaves the paths P.
LEMMA ListingType ==
  ASSUME FaultyListInv, NEW P \in SUBSET Route, NEW n \in Node,
         addNodeToFaultyList(P, n)
  PROVE  /\ faultyList' = faultyList \cup {n}
         /\ faultyList' \in SUBSET Node
         /\ secondChance' \in [Node -> Seq(0 .. SEC_CHANCE_PERIOD)]
         /\ routes' \in SUBSET Route
         /\ SecondChancePending'
<1>1. CASE n \in faultyList
  BY <1>1 DEF addNodeToFaultyList, FaultyListInv, TypeOK, SecondChancePending
<1>2. CASE n \notin faultyList
  <2>1. /\ faultyList' = faultyList \cup {n}
        /\ secondChance' =
             [secondChance EXCEPT ![n] = Append(@, SEC_CHANCE_PERIOD)]
        /\ routes' = WithoutNode(P, n)
    BY <1>2 DEF addNodeToFaultyList
  <2>2. /\ secondChance[n] \in Seq(0 .. SEC_CHANCE_PERIOD)
        /\ Len(secondChance[n]) = 0
    BY <1>2 DEF FaultyListInv, TypeOK, SecondChancePending
  <2>3. /\ Append(secondChance[n], SEC_CHANCE_PERIOD)
             \in Seq(0 .. SEC_CHANCE_PERIOD)
        /\ Len(Append(secondChance[n], SEC_CHANCE_PERIOD)) = 1
    <3>1. SEC_CHANCE_PERIOD \in 0 .. SEC_CHANCE_PERIOD
      BY OceanConstants DEF Constants
    <3>2. QED
      BY <2>2, <3>1
  <2>4. secondChance' \in [Node -> Seq(0 .. SEC_CHANCE_PERIOD)]
    BY <2>1, <2>3 DEF FaultyListInv, TypeOK
  <2>5. \A m \in Node :
          Len(secondChance'[m]) = IF m \in faultyList' THEN 1 ELSE 0
    BY <2>1, <2>3 DEF FaultyListInv, TypeOK, SecondChancePending
  <2>6. routes' \in SUBSET Route
    BY <2>1, WithoutNodeSub
  <2>7. QED
    BY <2>1, <2>4, <2>5, <2>6 DEF FaultyListInv, TypeOK, SecondChancePending
<1>3. QED
  BY <1>1, <1>2

\* Everything that sending a packet does to the node, from whatever bank the
\* caller leaves.
LEMMA SendingType ==
  ASSUME FaultyListInv, NEW b \in BankType, Listed(b, faultyList),
         NEW P \in SUBSET Route, NEW n \in Node, NEW s \in SeqNo,
         NEW delay \in 0 .. MaxDelay, addPacketToCache(b, P, n, s, delay)
  PROVE  /\ bankTable' \in BankType
         /\ sentPacketTable'
              \in [Node -> [Pointer -> SentPacket \cup {NoPacket}]]
         /\ faultyList' \in SUBSET Node
         /\ secondChance' \in [Node -> Seq(0 .. SEC_CHANCE_PERIOD)]
         /\ routes' \in SUBSET Route
         /\ SecondChancePending'
         /\ ThresholdMeansListed'
<1>1. bankTable' = Judged(b, n) /\ bankTable' \in BankType
  BY JudgedType DEF addPacketToCache, FaultyListInv
<1>2. sentPacketTable' \in [Node -> [Pointer -> SentPacket \cup {NoPacket}]]
  <2>1. -delay \in Age
    BY OceanConstants DEF Constants, Age
  <2>2. [seqno |-> s, age |-> -delay] \in SentPacket
    BY <2>1 DEF SentPacket
  <2>3. QED
    BY <2>2 DEF addPacketToCache, FaultyListInv, TypeOK
<1>3. /\ faultyList' = IF Condemned(b, n) THEN faultyList \cup {n} ELSE faultyList
      /\ faultyList' \in SUBSET Node
      /\ secondChance' \in [Node -> Seq(0 .. SEC_CHANCE_PERIOD)]
      /\ routes' \in SUBSET Route
      /\ SecondChancePending'
  <2>1. CASE Condemned(b, n)
    BY <2>1, ListingType DEF addPacketToCache
  <2>2. CASE ~Condemned(b, n)
    BY <2>2 DEF addPacketToCache, FaultyListInv, TypeOK, SecondChancePending
  <2>3. QED
    BY <2>1, <2>2
<1>4. ASSUME NEW m \in Node, bankTable'[m] # NoEntry,
             bankTable'[m].rating = FAULTY_RATING_THRESHOLD
      PROVE  m \in faultyList'
  <2>1. CASE m # n
    <3>1. bankTable'[m] = b[m]
      BY <1>1, <2>1, JudgedType DEF FaultyListInv
    <3>2. QED
      BY <1>3, <1>4, <3>1 DEF Listed
  <2>2. CASE m = n
    <3>1. CASE Judged(b, n)[n] = b[n]
      BY <1>1, <1>3, <1>4, <2>2, <3>1 DEF Listed
    <3>2. CASE Judged(b, n)[n] = NewEntry
      BY <1>1, <1>4, <2>2, <3>2, BankConstants DEF NewEntry, INITIAL_RATING
    <3>3. CASE Judged(b, n)[n].rating = FAULTY_RATING_THRESHOLD
                 => Condemned(b, n)
      BY <1>1, <1>3, <1>4, <2>2, <3>3
    <3>4. QED
      BY <3>1, <3>2, <3>3, JudgedType DEF FaultyListInv
  <2>3. QED
    BY <2>1, <2>2
<1>5. QED
  BY <1>1, <1>2, <1>3, <1>4 DEF ThresholdMeansListed

\* The same for a packet of the agent's own, from the paths P that its lookup
\* leaves.
LEMMA SendingOutType ==
  ASSUME FaultyListInv, bankTable \in BankType, Listed(bankTable, faultyList),
         NEW P \in SUBSET Route, NEW r \in Route, NEW s \in SeqNo,
         NEW delay \in 0 .. MaxDelay, sendOutPacketWithRoute(P, r, s, delay),
         UNCHANGED <<bankTimer, isFaulty, relearned>>
  PROVE  FaultyListInv'
<1>1. CASE Len(r) > 2
  <2>1. r[2] \in Node
    BY OceanAssumption
  <2>2. addPacketToCache(bankTable, P, r[2], s, delay)
    BY <1>1 DEF sendOutPacketWithRoute
  <2>3. QED
    BY <2>1, <2>2, SendingType DEF FaultyListInv, TypeOK, BankType
<1>2. CASE ~(Len(r) > 2)
  BY <1>2
     DEF sendOutPacketWithRoute, FaultyListInv, TypeOK, SecondChancePending,
         ThresholdMeansListed
<1>3. QED
  BY <1>1, <1>2

-----------------------------------------------------------------------------
(* The inductive invariant *)

\* Charging leaves every rating, and with it the meaning of the list.
LEMMA ChargedBank ==
  ASSUME FaultyListInv, NEW n \in Node, CanPay(Account(bankTable, n))
  PROVE  LET b == [bankTable EXCEPT ![n] = Charge(Account(bankTable, n))]
         IN  b \in BankType /\ Listed(b, faultyList)
<1> DEFINE e == Charge(Account(bankTable, n))
           b == [bankTable EXCEPT ![n] = e]
<1>1. bankTable \in BankType
  BY DEF FaultyListInv, TypeOK, BankType
<1>2. e \in BankEntry /\ e.rating = Account(bankTable, n).rating
  BY <1>1, AccountType, ChargeType
<1>3. \/ bankTable[n] # NoEntry /\ e.rating = bankTable[n].rating
      \/ e.rating = INITIAL_RATING
  BY <1>1, <1>2, AccountType DEF NewEntry
<1>4. /\ b \in BankType
      /\ b[n] = e
      /\ \A m \in Node : m # n => b[m] = bankTable[m]
  BY <1>1, <1>2 DEF BankType
<1> HIDE DEF b, e
<1>5. Listed(b, faultyList)
  BY <1>3, <1>4, BankConstants
     DEF Listed, FaultyListInv, ThresholdMeansListed, INITIAL_RATING
<1>6. QED
  BY <1>4, <1>5 DEF b, e

\* The bank that a step starts from.
LEMMA BankNow ==
  ASSUME FaultyListInv
  PROVE  bankTable \in BankType /\ Listed(bankTable, faultyList)
BY DEF FaultyListInv, TypeOK, BankType, Listed, ThresholdMeansListed

\* The inductive invariant holds at the start.
LEMMA InitInv == Init => FaultyListInv
<1> SUFFICES ASSUME Init PROVE FaultyListInv
  OBVIOUS
<1>1. BANK_TIMER_FREQUENCY \in 0 .. BANK_TIMER_FREQUENCY
  BY OceanConstants DEF Constants
<1>2. <<>> \in Seq(0 .. SEC_CHANCE_PERIOD)
  OBVIOUS
<1>3. secondChance \in [Node -> Seq(0 .. SEC_CHANCE_PERIOD)]
  BY <1>2 DEF Init
<1>4. TypeOK
  BY <1>1, <1>3 DEF Init, TypeOK
<1>5. SecondChancePending /\ ThresholdMeansListed
  BY DEF Init, SecondChancePending, ThresholdMeansListed
<1>6. QED
  BY <1>4, <1>5 DEF FaultyListInv

\* Every step keeps it.
LEMMA NextInv == FaultyListInv /\ [Next]_vars => FaultyListInv'
<1> SUFFICES ASSUME FaultyListInv, [Next]_vars PROVE FaultyListInv'
  OBVIOUS
<1> USE DEF FaultyListInv
<1>1. ASSUME NEW p \in Route, NEW r \in Route, NEW s \in SeqNo,
             NEW d \in 0 .. MaxDelay, Originate(p, r, s, d)
      PROVE  FaultyListInv'
  <2>1. PICK P \in Lookups(routes, p) : sendOutPacketWithRoute(P, r, s, d)
    BY <1>1 DEF Originate
  <2>2. P \in SUBSET Route
    BY LookupsSub DEF TypeOK
  <2>3. UNCHANGED <<bankTimer, isFaulty, relearned>>
    BY <1>1 DEF Originate
  <2>4. QED
    BY <2>1, <2>2, <2>3, BankNow, SendingOutType
<1>2. ASSUME NEW prev \in PrevHop, NEW next \in NextHop, NEW s \in SeqNo,
             ForwardFree(prev, next, s)
      PROVE  FaultyListInv'
  <2>1. next \in Node /\ routes \in SUBSET Route /\ 0 \in 0 .. MaxDelay
    BY OceanAssumption DEF TypeOK
  <2>2. QED
    BY <1>2, <2>1, BankNow, SendingType DEF ForwardFree, TypeOK, BankType
<1>3. ASSUME NEW prev \in PrevHop, NEW next \in NextHop, NEW s \in SeqNo,
             ForwardCharged(prev, next, s)
      PROVE  FaultyListInv'
  <2> DEFINE b == [bankTable EXCEPT ![prev] = Charge(Account(bankTable, prev))]
  <2>1. /\ prev \in Node /\ next \in Node /\ routes \in SUBSET Route
        /\ 0 \in 0 .. MaxDelay
    BY OceanAssumption DEF TypeOK
  <2>2. b \in BankType /\ Listed(b, faultyList)
    BY <1>3, <2>1, ChargedBank DEF ForwardCharged
  <2>3. addPacketToCache(b, routes, next, s, 0)
    BY <1>3 DEF ForwardCharged
  <2> HIDE DEF b
  <2>4. QED
    BY <1>3, <2>1, <2>2, <2>3, SendingType DEF ForwardCharged, TypeOK, BankType
<1>4. ASSUME NEW prev \in PrevHop, ForwardLastHop(prev)
      PROVE  FaultyListInv'
  <2>1. prev \in Node
    BY OceanAssumption
  <2>2. bankTable' \in BankType /\ Listed(bankTable', faultyList)
    BY <1>4, <2>1, ChargedBank DEF ForwardLastHop
  <2>3. QED
    BY <1>4, <2>2
       DEF ForwardLastHop, TypeOK, BankType, Listed, SecondChancePending,
           ThresholdMeansListed
<1>5. ASSUME NEW prev \in PrevHop, ForwardUnpaid(prev)
      PROVE  FaultyListInv'
  <2>1. prev \in Node /\ bankTable \in BankType
    BY OceanAssumption DEF TypeOK, BankType
  <2>2. /\ Account(bankTable, prev) \in BankEntry
        /\ \/ Account(bankTable, prev) = bankTable[prev]
           \/ Account(bankTable, prev).rating # FAULTY_RATING_THRESHOLD
    BY <2>1, AccountType, BankConstants DEF NewEntry, INITIAL_RATING
  <2>3. bankTable' = [bankTable EXCEPT ![prev] = Account(bankTable, prev)]
    BY <1>5 DEF ForwardUnpaid
  <2>4. bankTable' \in BankType /\ Listed(bankTable', faultyList)
    BY <2>1, <2>2, <2>3 DEF BankType, Listed, ThresholdMeansListed
  <2>5. QED
    BY <1>5, <2>4
       DEF ForwardUnpaid, TypeOK, BankType, Listed, SecondChancePending,
           ThresholdMeansListed
<1>6. ASSUME NEW n \in Node, NEW s \in SeqNo, handleTap(n, s)
      PROVE  FaultyListInv'
  <2> DEFINE k == Cardinality(Matching(n, s))
             e == PositiveEvents(Account(bankTable, n), k)
  <2>1. bankTable' = [bankTable EXCEPT ![n] = e]
    BY <1>6 DEF handleTap
  <2>2. e \in BankEntry /\ e.rating # FAULTY_RATING_THRESHOLD
    <3>1. k \in Nat /\ k # 0
      <4>1. Matching(n, s) # {}
        BY <1>6 DEF handleTap
      <4>2. QED
        BY <4>1, MatchingFinite
    <3>2. Account(bankTable, n) \in BankEntry
      BY BankNow, AccountType
    <3>3. QED
      BY <3>1, <3>2, PositiveType
  <2>3. bankTable' \in BankType /\ Listed(bankTable', faultyList)
    BY <2>1, <2>2 DEF TypeOK, BankType, Listed, ThresholdMeansListed
  <2>4. sentPacketTable'
          \in [Node -> [Pointer -> SentPacket \cup {NoPacket}]]
    BY <1>6 DEF handleTap, TypeOK
  <2>5. QED
    BY <1>6, <2>3, <2>4
       DEF handleTap, TypeOK, BankType, Listed, SecondChancePending,
           ThresholdMeansListed
<1>7. ASSUME NEW r \in Route, acceptRouteReply(r) \/ learnUnchecked(r)
      PROVE  FaultyListInv'
  <2>1. routes' \in SUBSET Route
    BY <1>7, InsertionsSub DEF acceptRouteReply, learnUnchecked, TypeOK
  <2>2. QED
    BY <1>7, <2>1
       DEF acceptRouteReply, learnUnchecked, TypeOK, SecondChancePending,
           ThresholdMeansListed
<1>8. ASSUME NEW a \in Node \cup {Me}, NEW b \in Node \cup {Me},
             noticeDeadLink(a, b)
      PROVE  FaultyListInv'
  <2>1. routes' \in SUBSET Route
    BY <1>8, WithoutLinkSub DEF noticeDeadLink, TypeOK
  <2>2. QED
    BY <1>8, <2>1
       DEF noticeDeadLink, TypeOK, SecondChancePending, ThresholdMeansListed
<1>9. ASSUME NEW n \in Node, SecondChanceExpire(n)
      PROVE  FaultyListInv'
  <2>1. /\ secondChance[n] \in Seq(0 .. SEC_CHANCE_PERIOD)
        /\ secondChance[n] # <<>>
        /\ Len(secondChance[n]) = 1
        /\ n \in faultyList
    BY <1>9 DEF SecondChanceExpire, TypeOK, SecondChancePending
  <2>2. /\ Tail(secondChance[n]) \in Seq(0 .. SEC_CHANCE_PERIOD)
        /\ Len(Tail(secondChance[n])) = 0
    <3> DEFINE t == secondChance[n]
    <3>1. t \in Seq(0 .. SEC_CHANCE_PERIOD) /\ t # <<>> /\ Len(t) = 1
      BY <2>1
    <3> HIDE DEF t
    <3>2. /\ Tail(t) \in Seq(0 .. SEC_CHANCE_PERIOD)
          /\ Len(Tail(t)) = Len(t) - 1
      BY <3>1, TailType, Zenon
    <3>3. QED
      BY <3>1, <3>2 DEF t
  <2>3. /\ secondChance' \in [Node -> Seq(0 .. SEC_CHANCE_PERIOD)]
        /\ SecondChancePending'
    BY <1>9, <2>2 DEF SecondChanceExpire, TypeOK, SecondChancePending
  <2>4. /\ bankTable' \in BankType
        /\ \A m \in Node : m # n => bankTable'[m] = bankTable[m]
        /\ bankTable'[n] # NoEntry
             => bankTable'[n].rating # FAULTY_RATING_THRESHOLD
    <3>1. CASE bankTable[n] = NoEntry
      BY <1>9, <3>1 DEF SecondChanceExpire, TypeOK, BankType
    <3>2. CASE bankTable[n] # NoEntry
      <4> DEFINE e == setRating(bankTable[n], SEC_CHANCE_NEW_RATING)
      <4>1. e \in BankEntry /\ e.rating = SEC_CHANCE_NEW_RATING
        BY <3>2, SetRatingType DEF TypeOK
      <4>2. bankTable' = [bankTable EXCEPT ![n] = e]
        BY <1>9, <3>2 DEF SecondChanceExpire
      <4> HIDE DEF e
      <4>3. QED
        BY <4>1, <4>2, BankConstants DEF TypeOK, BankType
    <3>3. QED
      BY <3>1, <3>2
  <2>5. QED
    BY <1>9, <2>3, <2>4
       DEF SecondChanceExpire, TypeOK, BankType, ThresholdMeansListed
<1>10. ASSUME BankTimerExpire
       PROVE  FaultyListInv'
  <2>1. bankTable' \in BankType /\ Listed(bankTable', faultyList)
    <3>1. CASE isFaulty
      BY <1>10, <3>1, BankNow DEF BankTimerExpire
    <3>2. CASE ~isFaulty
      <4>1. bankTable' = [n \in Node |-> IF bankTable[n] = NoEntry THEN NoEntry
                                         ELSE Grant(bankTable[n])]
        BY <1>10, <3>2 DEF BankTimerExpire
      <4>2. \A n \in Node :
              bankTable[n] # NoEntry =>
                /\ Grant(bankTable[n]) \in BankEntry
                /\ Grant(bankTable[n]).rating = bankTable[n].rating
        BY GrantType DEF TypeOK
      <4>3. QED
        BY <4>1, <4>2 DEF BankType, Listed, ThresholdMeansListed
    <3>3. QED
      BY <3>1, <3>2
  <2>2. bankTimer' \in 0 .. BANK_TIMER_FREQUENCY
    BY <1>10, OceanConstants DEF BankTimerExpire, Constants
  <2>3. QED
    BY <1>10, <2>1, <2>2
       DEF BankTimerExpire, TypeOK, BankType, Listed, SecondChancePending,
           ThresholdMeansListed
<1>11. CASE SetFaultyStatus
  BY <1>11
     DEF SetFaultyStatus, TypeOK, SecondChancePending, ThresholdMeansListed
<1>12. ASSUME Tick
       PROVE  FaultyListInv'
  <2>1. ASSUME NEW n \in Node
        PROVE  /\ secondChance'[n] \in Seq(0 .. SEC_CHANCE_PERIOD)
               /\ Len(secondChance'[n]) = Len(secondChance[n])
    <3> DEFINE t == secondChance[n]
               u == [i \in 1 .. Len(t) |-> t[i] - 1]
    <3>1. t \in Seq(0 .. SEC_CHANCE_PERIOD) /\ secondChance'[n] = u
      BY <1>12 DEF Tick, TypeOK
    <3>2. \A i \in 1 .. Len(t) : t[i] - 1 \in 0 .. SEC_CHANCE_PERIOD
      BY <1>12, <3>1, OceanConstants DEF Tick, Constants
    <3>3. u \in Seq(0 .. SEC_CHANCE_PERIOD) /\ Len(u) = Len(t)
      BY <3>1, <3>2
    <3>4. QED
      BY <3>1, <3>3
  <2>2. /\ secondChance' \in [Node -> Seq(0 .. SEC_CHANCE_PERIOD)]
        /\ SecondChancePending'
    BY <1>12, <2>1 DEF Tick, SecondChancePending
  <2>3. sentPacketTable'
          \in [Node -> [Pointer -> SentPacket \cup {NoPacket}]]
    <3>1. ASSUME NEW q \in SentPacket \cup {NoPacket}
          PROVE  Older(q) \in SentPacket \cup {NoPacket}
      BY OceanConstants DEF Constants, Older, SentPacket, Age, AtMost
    <3>2. QED
      BY <1>12, <3>1 DEF Tick, TypeOK
  <2>4. bankTimer' \in 0 .. BANK_TIMER_FREQUENCY
    BY <1>12, OceanConstants DEF Tick, TypeOK, Constants
  <2>5. QED
    BY <1>12, <2>2, <2>3, <2>4 DEF Tick, TypeOK, ThresholdMeansListed
<1>13. CASE UNCHANGED vars
  BY <1>13 DEF vars, TypeOK, SecondChancePending, ThresholdMeansListed
<1>14. ASSUME NEW r \in Route, NEW p \in Route, NEW q \in Route, NEW s \in SeqNo,
              acceptAndSend(r, p, q, s)
       PROVE  FaultyListInv'
  <2>1. PICK P \in Insertions(routes, r) :
          \E Q \in Lookups(P, p) : sendOutPacketWithRoute(Q, q, s, 0)
    BY <1>14 DEF acceptAndSend
  <2>2. PICK Q \in Lookups(P, p) : sendOutPacketWithRoute(Q, q, s, 0)
    BY <2>1
  <2>3. P \in SUBSET Route
    BY InsertionsSub DEF TypeOK
  <2>4. Q \in SUBSET Route
    BY <2>3, LookupsSub
  <2>5. UNCHANGED <<bankTimer, isFaulty, relearned>> /\ 0 \in 0 .. MaxDelay
    BY <1>14, OceanConstants DEF acceptAndSend, Constants
  <2>6. QED
    BY <2>2, <2>4, <2>5, BankNow, SendingOutType
<1>15. QED
  BY <1>1, <1>2, <1>3, <1>4, <1>5, <1>6, <1>7, <1>8, <1>9, <1>10, <1>11,
     <1>12, <1>13, <1>14
  DEF Next

\* The state of an OCEAN layer is always of its type: in particular no chip
\* count leaves 0 .. MAX_CHIPCOUNT and no rating leaves its two thresholds,
\* whatever the order of charges, grants, praise and blame (Bank, BankEntry).
THEOREM TypeCorrect == Spec => []TypeOK
<1>1. FaultyListInv => TypeOK
  BY DEF FaultyListInv
<1>2. QED
  BY <1>1, InitInv, NextInv, PTL DEF Spec

\* Each listed node has exactly one second chance pending and no other node
\* has any (Monitor::addNodeToFaultyList, SecondChanceTimer::expire).
THEOREM SecondChanceTimers == Spec => []SecondChancePending
<1>1. FaultyListInv => SecondChancePending
  BY DEF FaultyListInv
<1>2. QED
  BY <1>1, InitInv, NextInv, PTL DEF Spec

\* A node at the faulty rating is on the faulty list
\* (Monitor::registerNegativeEvent).
THEOREM ThresholdListing == Spec => []ThresholdMeansListed
<1>1. FaultyListInv => ThresholdMeansListed
  BY DEF FaultyListInv
<1>2. QED
  BY <1>1, InitInv, NextInv, PTL DEF Spec

-----------------------------------------------------------------------------
(* The steps *)

\* Chips are neither minted nor lost: their movements are those of the
\* forwarding counters and of the bank timer.
THEOREM CreditConserved == Spec => CreditFollowsService
<1> DEFINE Same(b, c, n) == /\ c.amount = b.amount
                            /\ c.myForwardingCount = b.myForwardingCount
                            /\ c.theirForwardingCount = b.theirForwardingCount
<1>1. ASSUME FaultyListInv, [Next]_vars
      PROVE  [CreditStep]_vars
  <2> SUFFICES ASSUME Next, NEW n \in Node
               PROVE  LET old == Account(bankTable, n)
                          new == Account(bankTable', n)
                          earned == new.theirForwardingCount
                                      - old.theirForwardingCount
                          spent == new.myForwardingCount - old.myForwardingCount
                          grant == IF bankTimer = 0 THEN BANK_TIMER_AMOUNT
                                   ELSE 0
                      IN  /\ new.amount <= old.amount + earned - spent + grant
                          /\ new.amount >= old.amount - spent
    BY <1>1 DEF CreditStep
  <2> DEFINE old == Account(bankTable, n)
             new == Account(bankTable', n)
  <2>1. bankTable \in BankType /\ bankTable' \in BankType
    BY <1>1, NextInv DEF FaultyListInv, TypeOK, BankType
  <2>2. old \in BankEntry /\ new \in BankEntry
    BY <2>1, AccountType
  <2>3. /\ old.amount \in Int /\ new.amount \in Int
        /\ old.myForwardingCount \in Int /\ new.myForwardingCount \in Int
        /\ old.theirForwardingCount \in Int /\ new.theirForwardingCount \in Int
    BY <2>2, BankConstants DEF BankEntry, MIN_CHIPCOUNT
  <2>4. CASE Same(old, new, n)
    BY <2>3, <2>4 DEF BANK_TIMER_AMOUNT
  <2>5. ASSUME NEW b \in BankType, NEW P, NEW m \in Node, NEW s, NEW d,
               addPacketToCache(b, P, m, s, d)
        PROVE  Same(Account(b, n), new, n)
    BY <1>1, <2>5, JudgedType DEF addPacketToCache, FaultyListInv
  <2>6. ASSUME NEW p \in Node, CanPay(Account(bankTable, p)),
               Same(Account([bankTable EXCEPT
                              ![p] = Charge(Account(bankTable, p))], n), new, n)
        PROVE  /\ new.amount <= old.amount
                    + (new.theirForwardingCount - old.theirForwardingCount)
                    - (new.myForwardingCount - old.myForwardingCount)
               /\ new.amount >= old.amount
                    - (new.myForwardingCount - old.myForwardingCount)
    <3> DEFINE e == Charge(Account(bankTable, p))
               b == [bankTable EXCEPT ![p] = e]
    <3>1. /\ e \in BankEntry
          /\ e.amount = Account(bankTable, p).amount - 1
          /\ e.myForwardingCount = Account(bankTable, p).myForwardingCount + 1
          /\ e.theirForwardingCount = Account(bankTable, p).theirForwardingCount
      BY <2>1, <2>6, AccountType, ChargeType
    <3>2. Account(b, n) = IF n = p THEN e ELSE old
      BY <2>1, <3>1, OceanNulls DEF BankType, Account
    <3> HIDE DEF e, b
    <3>3. Same(Account(b, n), new, n)
      BY <2>6 DEF b, e
    <3> HIDE DEF new
    <3>4. CASE n = p
      BY <2>3, <3>1, <3>2, <3>3, <3>4 DEF new
    <3>5. CASE n # p
      BY <2>3, <3>2, <3>3, <3>5 DEF new
    <3>6. QED
      BY <3>4, <3>5 DEF new
  <2> DEFINE grant == IF bankTimer = 0 THEN BANK_TIMER_AMOUNT ELSE 0
             Goal == /\ new.amount <= old.amount
                          + (new.theirForwardingCount - old.theirForwardingCount)
                          - (new.myForwardingCount - old.myForwardingCount)
                          + grant
                     /\ new.amount >= old.amount
                          - (new.myForwardingCount - old.myForwardingCount)
  <2>7. grant \in Nat
    BY DEF BANK_TIMER_AMOUNT
  <2>8. Same(old, new, n) => Goal
    BY <2>3, <2>7
  <2>9. ASSUME NEW P, NEW r \in Route, NEW s, NEW d,
               sendOutPacketWithRoute(P, r, s, d)
        PROVE  Goal
    <3>1. CASE Len(r) > 2
      <4>1. r[2] \in Node
        BY OceanAssumption
      <4>2. addPacketToCache(bankTable, P, r[2], s, d)
        BY <2>9, <3>1 DEF sendOutPacketWithRoute
      <4>3. QED
        BY <2>1, <2>5, <2>8, <4>1, <4>2
    <3>2. CASE ~(Len(r) > 2)
      <4>1. bankTable' = bankTable
        BY <2>9, <3>2 DEF sendOutPacketWithRoute
      <4>2. QED
        BY <2>8, <4>1 DEF Account
    <3>3. QED
      BY <3>1, <3>2
  <2>10. ASSUME NEW prev \in PrevHop, NEW next \in NextHop, NEW s \in SeqNo,
                ForwardFree(prev, next, s)
         PROVE  Goal
    <3>1. next \in Node
      BY OceanAssumption
    <3>2. QED
      BY <2>1, <2>5, <2>8, <2>10, <3>1 DEF ForwardFree
  <2>11. ASSUME NEW prev \in PrevHop, NEW next \in NextHop, NEW s \in SeqNo,
                ForwardCharged(prev, next, s)
         PROVE  Goal
    <3> DEFINE b == [bankTable EXCEPT ![prev] = Charge(Account(bankTable, prev))]
    <3>1. prev \in Node /\ next \in Node
      BY OceanAssumption
    <3>2. CanPay(Account(bankTable, prev))
      BY <2>11 DEF ForwardCharged
    <3>3. b \in BankType
      BY <1>1, <3>1, <3>2, ChargedBank
    <3>4. addPacketToCache(b, routes, next, s, 0)
      BY <2>11 DEF ForwardCharged
    <3>5. Same(Account(b, n), new, n)
      BY <2>5, <3>1, <3>3, <3>4
    <3>6. /\ new.amount <= old.amount
               + (new.theirForwardingCount - old.theirForwardingCount)
               - (new.myForwardingCount - old.myForwardingCount)
          /\ new.amount >= old.amount
               - (new.myForwardingCount - old.myForwardingCount)
      BY <2>6, <3>1, <3>2, <3>5
    <3> HIDE DEF new, old, grant
    <3>7. QED
      BY <2>3, <2>7, <3>6
  <2>12. ASSUME NEW prev \in PrevHop, ForwardLastHop(prev)
         PROVE  Goal
    <3>1. prev \in Node /\ CanPay(Account(bankTable, prev))
      BY <2>12, OceanAssumption DEF ForwardLastHop
    <3>2. bankTable' =
            [bankTable EXCEPT ![prev] = Charge(Account(bankTable, prev))]
      BY <2>12 DEF ForwardLastHop
    <3>3. /\ new.amount <= old.amount
               + (new.theirForwardingCount - old.theirForwardingCount)
               - (new.myForwardingCount - old.myForwardingCount)
          /\ new.amount >= old.amount
               - (new.myForwardingCount - old.myForwardingCount)
      BY <2>6, <3>1, <3>2
    <3> HIDE DEF new, old, grant
    <3>4. QED
      BY <2>3, <2>7, <3>3
  <2>13. ASSUME NEW prev \in PrevHop, ForwardUnpaid(prev)
         PROVE  Goal
    <3>1. /\ prev \in Node
          /\ bankTable' = [bankTable EXCEPT ![prev] = Account(bankTable, prev)]
      BY <2>13, OceanAssumption DEF ForwardUnpaid
    <3>2. Account(bankTable, prev) \in BankEntry
      BY <2>1, <3>1, AccountType
    <3>3. new = old
      BY <2>1, <3>1, <3>2, OceanNulls DEF BankType, Account
    <3>4. QED
      BY <2>8, <3>3
  <2>14. ASSUME NEW m \in Node, NEW s \in SeqNo, handleTap(m, s)
         PROVE  Goal
    <3> DEFINE k == Cardinality(Matching(m, s))
               a == Account(bankTable, m)
               e == PositiveEvents(a, k)
    <3>1. bankTable' = [bankTable EXCEPT ![m] = e] /\ Matching(m, s) # {}
      BY <2>14 DEF handleTap
    <3>2. k \in Nat /\ a \in BankEntry
      BY <2>1, <3>1, AccountType, MatchingFinite
    <3> HIDE DEF k, a
    <3>3. /\ e \in BankEntry
          /\ e.amount >= a.amount
          /\ e.amount <= a.amount + k
          /\ e.myForwardingCount = a.myForwardingCount
          /\ e.theirForwardingCount = a.theirForwardingCount + k
      BY <3>2, PositiveType
    <3> HIDE DEF e
    <3>4. new = IF n = m THEN e ELSE old
      BY <2>1, <3>1, <3>3, OceanNulls DEF BankType, Account
    <3>5. CASE n = m
      <4>1. new = e /\ old = a
        BY <3>4, <3>5 DEF a
      <4> HIDE DEF new, old, grant
      <4>2. QED
        BY <2>3, <2>7, <3>2, <3>3, <4>1
    <3>6. CASE n # m
      BY <2>8, <3>4, <3>6
    <3>7. QED
      BY <3>5, <3>6
  <2>15. ASSUME NEW m \in Node, SecondChanceExpire(m)
         PROVE  Goal
    <3>1. bankTable' =
            [bankTable EXCEPT ![m] = IF @ = NoEntry THEN @
                                     ELSE setRating(@, SEC_CHANCE_NEW_RATING)]
      BY <2>15 DEF SecondChanceExpire
    <3>2. CASE n = m /\ bankTable[n] # NoEntry
      <4> DEFINE e == setRating(bankTable[n], SEC_CHANCE_NEW_RATING)
      <4>1. bankTable[n] \in BankEntry /\ bankTable'[n] = e
        BY <2>1, <3>1, <3>2 DEF BankType
      <4>2. e \in BankEntry /\ Same(bankTable[n], e, n)
        BY <4>1, SetRatingType
      <4>3. new = e /\ old = bankTable[n]
        BY <3>2, <4>1, <4>2, OceanNulls DEF Account
      <4>4. QED
        BY <2>8, <4>2, <4>3
    <3>3. CASE ~(n = m /\ bankTable[n] # NoEntry)
      <4>1. bankTable'[n] = bankTable[n]
        BY <2>1, <3>1, <3>3 DEF BankType
      <4>2. new = old
        BY <4>1 DEF Account
      <4>3. QED
        BY <2>8, <4>2
    <3>4. QED
      BY <3>2, <3>3
  <2>16. ASSUME BankTimerExpire
         PROVE  Goal
    <3>1. bankTimer = 0 /\ grant = BANK_TIMER_AMOUNT
      BY <2>16 DEF BankTimerExpire
    <3>2. CASE bankTable' = bankTable \/ bankTable[n] = NoEntry
      <4>1. bankTable'[n] = bankTable[n]
        BY <2>16, <3>2 DEF BankTimerExpire
      <4>2. QED
        BY <2>8, <4>1 DEF Account
    <3>3. CASE bankTable' # bankTable /\ bankTable[n] # NoEntry
      <4> DEFINE e == Grant(bankTable[n])
      <4>1. bankTable'[n] = e
        BY <2>16, <3>3 DEF BankTimerExpire
      <4>2. /\ e \in BankEntry
            /\ e.amount >= bankTable[n].amount
            /\ e.amount <= bankTable[n].amount + BANK_TIMER_AMOUNT
            /\ e.myForwardingCount = bankTable[n].myForwardingCount
            /\ e.theirForwardingCount = bankTable[n].theirForwardingCount
        BY <2>1, <3>3, GrantType DEF BankType
      <4>3. new = e /\ old = bankTable[n]
        BY <3>3, <4>1, <4>2, OceanNulls DEF Account
      <4> HIDE DEF new, old, e, grant
      <4>4. QED
        BY <2>3, <2>7, <3>1, <4>2, <4>3
    <3>4. QED
      BY <3>2, <3>3
  <2>17. ASSUME UNCHANGED bankTable
         PROVE  Goal
    BY <2>8, <2>17 DEF Account
  <2>18. Goal
    BY <2>9, <2>10, <2>11, <2>12, <2>13, <2>14, <2>15, <2>16, <2>17
       DEF Next, Originate, acceptRouteReply, acceptAndSend, learnUnchecked,
           noticeDeadLink, SetFaultyStatus, Tick
  <2>19. QED
    BY <2>18
<1>2. QED
  BY <1>1, InitInv, NextInv, PTL DEF Spec, CreditFollowsService

-----------------------------------------------------------------------------
(* The routes over listed nodes *)

\* No path of P is relayed by a node of F.
Clean(P, F) == \A p \in P : \A n \in F : n \notin Forwarders(p)

\* The listed nodes over which no path was learned since they were listed.
Untold == faultyList \ relearned

\* What the property says of the route cache.
LEMMA UntoldClean == ListedRelayUnchecked <=> Clean(routes, Untold)
BY DEF ListedRelayUnchecked, Clean, Untold

\* A cache that is given a clean path stays clean.
LEMMA InsertionsClean ==
  ASSUME NEW P, NEW F, NEW p, NEW Q \in Insertions(P, p),
         Clean(P, F), Clean({p}, F)
  PROVE  Clean(Q, F)
<1>1. Q \subseteq P \cup {p}
  BY DEF Insertions
<1>2. QED
  BY <1>1 DEF Clean

\* A lookup brings no path that was not there.
LEMMA LookupsClean ==
  ASSUME NEW P, NEW F, NEW p \in P, NEW Q \in Lookups(P, p), Clean(P, F)
  PROVE  Clean(Q, F)
<1>1. Q \subseteq P
  BY DEF Lookups, Promotions, Insertions
<1>2. QED
  BY <1>1 DEF Clean

\* The part of a path before a dead link is relayed by nobody else.
LEMMA WithoutLinkClean ==
  ASSUME NEW P \in SUBSET Route, NEW F, NEW a, NEW b, Clean(P, F)
  PROVE  Clean(WithoutLink(P, a, b), F)
<1> SUFFICES ASSUME NEW p \in P, NEW n \in Forwarders(Cut(p, a, b))
             PROVE  n \in Forwarders(p)
  BY DEF Clean, WithoutLink
<1>1. p \in Seq(Node \cup {Me}) /\ Len(p) \in Nat
  BY OceanAssumption
<1>2. CASE ~HasLink(p, a, b)
  BY <1>2 DEF Cut
<1>3. CASE HasLink(p, a, b)
  <2> DEFINE i0 == CHOOSE i \in 1 .. Len(p) - 1 : p[i] = a /\ p[i + 1] = b
  <2>1. i0 \in 1 .. Len(p) - 1 /\ Cut(p, a, b) = SubSeq(p, 1, i0)
    BY <1>3 DEF HasLink, Cut
  <2> HIDE DEF i0
  <2>2. /\ Len(SubSeq(p, 1, i0)) = i0
        /\ \A i \in 1 .. i0 : SubSeq(p, 1, i0)[i] = p[i]
    BY <1>1, <2>1
  <2>3. PICK i \in 1 .. i0 - 1 : n = p[i]
    BY <2>1, <2>2 DEF Forwarders
  <2>4. QED
    BY <1>1, <2>1, <2>3 DEF Forwarders
<1>4. QED
  BY <1>2, <1>3

\* A packet that is sent leaves the cache clean: the node that its judgement
\* lists is purged from the paths that the caller leaves.
LEMMA SendingClean ==
  ASSUME NEW b, NEW P, NEW n, NEW s, NEW d, addPacketToCache(b, P, n, s, d),
         Clean(P, Untold), relearned' = relearned
  PROVE  Clean(routes', Untold')
<1>1. CASE Condemned(b, n) /\ n \notin faultyList
  <2>1. routes' = WithoutNode(P, n) /\ faultyList' = faultyList \cup {n}
    BY <1>1 DEF addPacketToCache, addNodeToFaultyList
  <2>2. QED
    BY <2>1 DEF Clean, Untold, WithoutNode
<1>2. CASE ~(Condemned(b, n) /\ n \notin faultyList)
  BY <1>2 DEF addPacketToCache, addNodeToFaultyList, Untold
<1>3. QED
  BY <1>1, <1>2

\* The same for a packet of the agent's own.
LEMMA SendingOutClean ==
  ASSUME NEW P, NEW r, NEW s, NEW d, sendOutPacketWithRoute(P, r, s, d),
         Clean(P, Untold), relearned' = relearned
  PROVE  Clean(routes', Untold')
BY SendingClean DEF sendOutPacketWithRoute, Untold

\* A reply that is accepted names no listed node.
LEMMA AcceptedClean ==
  ASSUME NEW r \in Route, Acceptable(r)
  PROVE  Clean({r}, Untold)
<1>1. Len(r) \in Nat
  BY OceanAssumption
<1>2. QED
  BY <1>1 DEF Acceptable, Clean, Untold, Forwarders

\* Every step keeps the cache clean.
LEMMA NextClean ==
  ASSUME TypeOK, Clean(routes, Untold), [Next]_vars
  PROVE  Clean(routes', Untold')
<1>1. ASSUME NEW p \in Route, NEW r \in Route, NEW s \in SeqNo,
             NEW d \in 0 .. MaxDelay, Originate(p, r, s, d)
      PROVE  Clean(routes', Untold')
  <2>1. PICK P \in Lookups(routes, p) : sendOutPacketWithRoute(P, r, s, d)
    BY <1>1 DEF Originate
  <2>2. p \in routes /\ relearned' = relearned
    BY <1>1 DEF Originate
  <2>3. QED
    BY <2>1, <2>2, LookupsClean, SendingOutClean
<1>2. ASSUME NEW prev \in PrevHop, NEW next \in NextHop, NEW s \in SeqNo,
             ForwardFree(prev, next, s) \/ ForwardCharged(prev, next, s)
      PROVE  Clean(routes', Untold')
  BY <1>2, SendingClean DEF ForwardFree, ForwardCharged
<1>3. ASSUME NEW r \in Route, acceptRouteReply(r)
      PROVE  Clean(routes', Untold')
  <2>1. Clean({r}, Untold)
    BY <1>3, AcceptedClean DEF acceptRouteReply
  <2>2. Clean(routes', Untold)
    BY <1>3, <2>1, InsertionsClean DEF acceptRouteReply
  <2>3. QED
    BY <1>3, <2>2 DEF acceptRouteReply, Untold
<1>4. ASSUME NEW r \in Route, NEW p \in Route, NEW q \in Route, NEW s \in SeqNo,
             acceptAndSend(r, p, q, s)
      PROVE  Clean(routes', Untold')
  <2>1. PICK P \in Insertions(routes, r) :
          /\ p \in P
          /\ \E Q \in Lookups(P, p) : sendOutPacketWithRoute(Q, q, s, 0)
    BY <1>4 DEF acceptAndSend
  <2>2. PICK Q \in Lookups(P, p) : sendOutPacketWithRoute(Q, q, s, 0)
    BY <2>1
  <2>3. Clean({r}, Untold) /\ relearned' = relearned
    BY <1>4, AcceptedClean DEF acceptAndSend
  <2>4. Clean(P, Untold)
    BY <2>3, InsertionsClean
  <2>5. Clean(Q, Untold)
    BY <2>1, <2>4, LookupsClean
  <2>6. QED
    BY <2>2, <2>3, <2>5, SendingOutClean
<1>5. ASSUME NEW r \in Route, learnUnchecked(r)
      PROVE  Clean(routes', Untold')
  <2>1. Untold' = Untold \ Forwarders(r)
    BY <1>5 DEF learnUnchecked, Untold
  <2>2. Clean(routes, Untold') /\ Clean({r}, Untold')
    BY <2>1 DEF Clean
  <2>3. QED
    BY <1>5, <2>2, InsertionsClean DEF learnUnchecked
<1>6. ASSUME NEW a, NEW b, noticeDeadLink(a, b)
      PROVE  Clean(routes', Untold')
  <2>1. Clean(WithoutLink(routes, a, b), Untold)
    BY WithoutLinkClean DEF TypeOK
  <2>2. QED
    BY <1>6, <2>1 DEF noticeDeadLink, Untold
<1>7. ASSUME NEW n \in Node, SecondChanceExpire(n)
      PROVE  Clean(routes', Untold')
  <2>1. routes' = routes /\ Untold' \subseteq Untold
    BY <1>7 DEF SecondChanceExpire, Untold
  <2>2. QED
    BY <2>1 DEF Clean
<1>8. ASSUME UNCHANGED <<routes, faultyList, relearned>>
      PROVE  Clean(routes', Untold')
  BY <1>8 DEF Untold
<1>9. QED
  BY <1>1, <1>2, <1>3, <1>4, <1>5, <1>6, <1>7, <1>8
     DEF Next, vars, ForwardLastHop, ForwardUnpaid, handleTap, BankTimerExpire,
         SetFaultyStatus, Tick

\* After a node is listed, the only way back for a path over it is one that
\* does not look at the list: whatever else the agent learns, looks up, loses
\* and judges, no cached path is relayed by a listed node
\* (Monitor::addNodeToFaultyList, DSRAgent::acceptRouteReply).
THEOREM ListedRelays == Spec => []ListedRelayUnchecked
<1> DEFINE I == FaultyListInv /\ Clean(routes, Untold)
<1>1. Init => I
  BY InitInv DEF Init, Clean
<1>2. I /\ [Next]_vars => I'
  BY NextInv, NextClean DEF FaultyListInv
<1>3. I => ListedRelayUnchecked
  BY UntoldClean
<1> HIDE DEF I
<1>4. QED
  BY <1>1, <1>2, <1>3, PTL DEF Spec

=============================================================================
