-------------------------- MODULE OceanPairProofs ---------------------------
(***************************************************************************)
(* Theorems about OceanPair, for every number of chips, thresholds and     *)
(* cached packets: while every transmission is overheard, the counters of  *)
(* one agent bound from below what the bank of the other holds for it, as  *)
(* far as the cap lets chips count, so only an agent that could still pay  *)
(* blames its peer.                                                        *)
(***************************************************************************)
EXTENDS OceanPair, BankProofs

\* The counters that MaxCount bounds.
CountsBounded ==
  \A i \in Agent : /\ Entry(i).myForwardingCount <= MaxCount
                   /\ Entry(i).theirForwardingCount <= MaxCount

\* A listed peer has an account: only a blamed one is listed.
ListedKnown == \A i \in Agent : listed[i] => account[i] # NoEntry

\* What an entry holds at least: its first chips and those it earned, as far as
\* the cap lets them count, less those it spent.
Covered(e) ==
  e.amount >= AtMost(INITIAL_CHIPCOUNT + e.theirForwardingCount, MAX_CHIPCOUNT)
                - e.myForwardingCount

\* It holds for every account, whatever was heard.  A chip earned at the cap is
\* lost, but the cap is then what the account holds, so the bound is not.
Balanced == \A i \in Agent : Covered(Entry(i))

\* What the counters of the two agents have to do with each other and with
\* the chips.
BanksAgree ==
  /\ CountsBounded
  /\ HeardWasCharged
  /\ Balanced

PairInv == TypeOK /\ ListedKnown /\ BanksAgree

-----------------------------------------------------------------------------

\* The other agent of the two is another one, and its other one is the first.
LEMMA OtherType ==
  ASSUME NEW i \in Agent
  PROVE  /\ Other(i) \in Agent
         /\ Other(i) # i
         /\ Other(Other(i)) = i
         /\ \A j \in Agent : j = i \/ j = Other(i)
<1>1. PICK a, b \in Agent : a # b /\ Agent = {a, b}
  BY PairAssumption
<1>2. \A j \in Agent : Other(j) \in Agent /\ Other(j) # j
  <2>1. SUFFICES ASSUME NEW j \in Agent PROVE Other(j) \in Agent /\ Other(j) # j
    OBVIOUS
  <2>2. \E k \in Agent : k # j
    BY <1>1
  <2>3. QED
    BY <2>2 DEF Other
<1>3. QED
  BY <1>1, <1>2

\* The entry of an agent for its peer is an entry.
LEMMA EntryType ==
  ASSUME TypeOK, NEW i \in Agent
  PROVE  /\ Entry(i) \in BankEntry
         /\ account[i] # NoEntry => Entry(i) = account[i]
BY NewEntryType DEF TypeOK, Entry

\* An account that is replaced by an entry is that entry from then on.
LEMMA EntryNext ==
  ASSUME TypeOK, NEW i \in Agent, NEW e \in BankEntry,
         account' = [account EXCEPT ![i] = e]
  PROVE  /\ account' \in [Agent -> BankEntry \cup {NoEntry}]
         /\ Entry(i)' = e
         /\ \A j \in Agent : j # i => Entry(j)' = Entry(j)
         /\ \A j \in Agent : account[j] # NoEntry => account'[j] # NoEntry
BY PairAssumption DEF TypeOK, Entry

\* As EntryNext, for both agents at once.
LEMMA EntriesNext ==
  ASSUME TypeOK, NEW i \in Agent, NEW e \in BankEntry, NEW f \in BankEntry,
         account' = [account EXCEPT ![Other(i)] = f, ![i] = e]
  PROVE  /\ account' \in [Agent -> BankEntry \cup {NoEntry}]
         /\ Entry(i)' = e
         /\ Entry(Other(i))' = f
         /\ \A j \in Agent : account'[j] # NoEntry
<1> DEFINE mid == [account EXCEPT ![Other(i)] = f]
<1>1. mid \in [Agent -> BankEntry \cup {NoEntry}] /\ mid[Other(i)] = f
  BY OtherType DEF TypeOK
<1>2. account' = [mid EXCEPT ![i] = e]
  OBVIOUS
<1> HIDE DEF mid
<1>3. /\ account' \in [Agent -> BankEntry \cup {NoEntry}]
      /\ account'[i] = e
      /\ account'[Other(i)] = f
  BY <1>1, <1>2, OtherType
<1>4. QED
  BY <1>3, OtherType, PairAssumption DEF Entry

\* The state apart from the accounts.
QueuesType ==
  /\ onWay \in [Agent -> 0 .. MaxCached]
  /\ passing \in [Agent -> 0 .. MaxCached]
  /\ waiting \in [Agent -> 0 .. MaxCached]
  /\ expired \in [Agent -> 0 .. MaxCached]
  /\ listed \in [Agent -> BOOLEAN]
  /\ isFaulty \in [Agent -> BOOLEAN]
  /\ gratis \in [Agent -> Nat]
  /\ \A i \in Agent : /\ onWay[i] + passing[i] <= waiting[i]
                      /\ waiting[i] + expired[i] <= MaxCached

\* A packet is cached only while there is room for it.
LEMMA CachedNext ==
  ASSUME TypeOK, NEW i \in Agent, addPacketToCache(i)
  PROVE  /\ waiting[i] < MaxCached
         /\ waiting' = [waiting EXCEPT ![i] = waiting[i] + 1]
         /\ waiting' \in [Agent -> 0 .. MaxCached]
         /\ expired' = [expired EXCEPT ![i] = 0]
         /\ expired' \in [Agent -> 0 .. MaxCached]
         /\ listed' \in [Agent -> BOOLEAN]
         /\ \A j \in Agent : waiting'[j] + expired'[j] <= MaxCached
<1> USE PairAssumption DEF TypeOK, addPacketToCache
<1>1. listed' \in [Agent -> BOOLEAN]
  OBVIOUS
<1>2. QED
  BY <1>1

\* Nothing happens to the packets and lists but what their guards allow.
LEMMA QueuesNext ==
  ASSUME TypeOK, NEW i \in Agent,
         \/ Send(i) \/ Pass(i) \/ Relay(i) \/ RelayUnheard(i) \/ Refuse(i)
         \/ RefuseUnpaid(i) \/ RelayGratis(i) \/ PassUnheard(i) \/ Expire(i)
         \/ BankTimerExpire(i) \/ SecondChanceExpire(i) \/ SetFaultyStatus(i)
  PROVE  QueuesType'
<1>1. CASE Send(i)
  <2>1. /\ onWay' = [onWay EXCEPT ![i] = onWay[i] + 1]
        /\ passing' = passing /\ isFaulty' = isFaulty /\ gratis' = gratis
        /\ addPacketToCache(i)
    BY <1>1 DEF Send
  <2>2. QED
    BY <2>1, CachedNext, PairAssumption DEF TypeOK, QueuesType
<1>2. CASE Pass(i)
  <2>1. /\ passing' = [passing EXCEPT ![i] = passing[i] + 1]
        /\ onWay' = onWay /\ isFaulty' = isFaulty /\ gratis' = gratis
        /\ addPacketToCache(i)
    BY <1>2 DEF Pass
  <2>2. QED
    BY <2>1, CachedNext, PairAssumption DEF TypeOK, QueuesType
<1> USE PairAssumption DEF TypeOK, QueuesType
<1>3. CASE Relay(i)
  BY <1>3 DEF Relay, Arrived
<1>4. CASE RelayUnheard(i)
  BY <1>4 DEF RelayUnheard, Arrived
<1>5. CASE Refuse(i)
  BY <1>5 DEF Refuse, Arrived
<1>6. CASE RefuseUnpaid(i)
  BY <1>6 DEF RefuseUnpaid, Arrived
<1>7. CASE RelayGratis(i)
  BY <1>7 DEF RelayGratis, PassArrived
<1>8. CASE PassUnheard(i)
  BY <1>8 DEF PassUnheard, PassArrived
<1>9. CASE Expire(i)
  BY <1>9 DEF Expire
<1>10. CASE BankTimerExpire(i)
  BY <1>10 DEF BankTimerExpire
<1>11. CASE SecondChanceExpire(i)
  BY <1>11 DEF SecondChanceExpire
<1>12. CASE SetFaultyStatus(i)
  BY <1>12 DEF SetFaultyStatus
<1>13. QED
  BY <1>1, <1>2, <1>3, <1>4, <1>5, <1>6, <1>7, <1>8, <1>9, <1>10, <1>11,
     <1>12

\* A step that keeps the counters, and takes no chip, keeps the agreement.
LEMMA CountersKept ==
  ASSUME BanksAgree, TypeOK, TypeOK', gratis' = gratis,
         \A j \in Agent :
           /\ Entry(j)'.myForwardingCount = Entry(j).myForwardingCount
           /\ Entry(j)'.theirForwardingCount = Entry(j).theirForwardingCount
           /\ Entry(j)'.amount >= Entry(j).amount
  PROVE  BanksAgree'
<1>1. \A j \in Agent : Entry(j) \in BankEntry /\ Entry(j)' \in BankEntry
  BY EntryType, NewEntryType DEF TypeOK, Entry
<1>2. CountsBounded'
  BY DEF BanksAgree, CountsBounded
<1>3. HeardWasCharged'
  BY OtherType DEF BanksAgree, HeardWasCharged, Other
<1>4. Balanced'
  <2> SUFFICES ASSUME NEW j \in Agent PROVE Covered(Entry(j))'
    BY DEF Balanced
  <2>1. Covered(Entry(j))
    BY DEF BanksAgree, Balanced
  <2>2. /\ Entry(j)'.amount \in Int
        /\ Entry(j).amount \in Int
        /\ Entry(j)'.amount >= Entry(j).amount
    BY <1>1, BankConstants DEF BankEntry, MIN_CHIPCOUNT
  <2>3. /\ Entry(j).myForwardingCount \in Int
        /\ Entry(j).theirForwardingCount \in Int
    BY <1>1 DEF BankEntry
  <2>4. QED
    BY <2>1, <2>2, <2>3, BankConstants DEF Covered, AtMost
<1>5. QED
  BY <1>2, <1>3, <1>4 DEF BanksAgree

\* The same when one account takes the place of another that is no better.
LEMMA EntryKept ==
  ASSUME PairInv, QueuesType', gratis' = gratis, NEW i \in Agent, NEW e \in BankEntry,
         account' = [account EXCEPT ![i] = e],
         e.myForwardingCount = Entry(i).myForwardingCount,
         e.theirForwardingCount = Entry(i).theirForwardingCount,
         e.amount >= Entry(i).amount
  PROVE  TypeOK' /\ BanksAgree'
<1>1. /\ account' \in [Agent -> BankEntry \cup {NoEntry}]
      /\ Entry(i)' = e
      /\ \A j \in Agent : j # i => Entry(j)' = Entry(j)
  BY EntryNext DEF PairInv
<1>2. TypeOK'
  BY <1>1 DEF TypeOK, QueuesType
<1>3. \A j \in Agent : Entry(j) \in BankEntry
  BY EntryType DEF PairInv
<1>4. \A j \in Agent : Entry(j).amount >= Entry(j).amount
  BY <1>3, BankConstants DEF BankEntry, MIN_CHIPCOUNT
<1>5. QED
  BY <1>1, <1>2, <1>4, CountersKept DEF PairInv

\* The agents have agreed from the start.
LEMMA InitInv == Init => PairInv
<1> SUFFICES ASSUME Init PROVE PairInv
  OBVIOUS
<1>1. \A i \in Agent : Entry(i) = NewEntry
  BY DEF Init, Entry
<1>2. TypeOK /\ ListedKnown
  BY PairAssumption DEF Init, TypeOK, ListedKnown
<1>3. BanksAgree
  BY <1>1, OtherType, PairAssumption, BankConstants
     DEF BanksAgree, CountsBounded, HeardWasCharged, Balanced, Covered,
         AtMost, NewEntry, Init
<1>4. QED
  BY <1>2, <1>3 DEF PairInv

\* A charge takes a chip and counts it.
LEMMA ChargeCovers ==
  ASSUME NEW e \in BankEntry, CanPay(e), Covered(e)
  PROVE  Covered(Charge(e))
<1>1. /\ Charge(e).amount = e.amount - 1
      /\ Charge(e).myForwardingCount = e.myForwardingCount + 1
      /\ Charge(e).theirForwardingCount = e.theirForwardingCount
  BY ChargeType
<1>2. e.amount \in Int /\ e.myForwardingCount \in Nat
      /\ e.theirForwardingCount \in Nat
  BY BankConstants DEF BankEntry, MIN_CHIPCOUNT
<1>3. QED
  BY <1>1, <1>2, BankConstants DEF Covered, AtMost

\* A packet that is heard brings a chip and counts it, or finds the account at
\* its cap.
LEMMA HeardCoversOne ==
  ASSUME NEW e \in BankEntry, Covered(e)
  PROVE  Covered(PositiveEvents(e, 1))
<1>1. /\ PositiveEvents(e, 1).amount = AtMost(e.amount + 1, MAX_CHIPCOUNT)
      /\ PositiveEvents(e, 1).myForwardingCount = e.myForwardingCount
      /\ PositiveEvents(e, 1).theirForwardingCount = e.theirForwardingCount + 1
  BY PositiveType
<1>2. e.amount \in Int /\ e.myForwardingCount \in Nat
      /\ e.theirForwardingCount \in Nat
  BY BankConstants DEF BankEntry, MIN_CHIPCOUNT
<1>3. QED
  BY <1>1, <1>2, BankConstants DEF Covered, AtMost

\* A charge moves one chip, and so does a packet that is heard; each is counted
\* by the entry whose chips it moves.
LEMMA RelayAgrees ==
  ASSUME PairInv, NEW i \in Agent, Relay(i) \/ RelayUnheard(i)
  PROVE  TypeOK' /\ ListedKnown' /\ BanksAgree'
<1> DEFINE j == Other(i)
           e == Entry(i)
           f == Entry(j)
           heard == PositiveEvents(e, 1)
           charged == Charge(f)
<1>1. /\ j \in Agent /\ j # i /\ Other(j) = i
      /\ \A k \in Agent : k = i \/ k = j
  BY OtherType
<1>2. e \in BankEntry /\ f \in BankEntry /\ CanPay(f)
  BY <1>1, EntryType DEF PairInv, Relay, RelayUnheard
<1>3. /\ heard \in BankEntry
      /\ Covered(e) => Covered(heard)
      /\ heard.myForwardingCount = e.myForwardingCount
      /\ heard.theirForwardingCount = e.theirForwardingCount + 1
  BY <1>2, PositiveType, HeardCoversOne
<1>4. /\ charged \in BankEntry
      /\ Covered(f) => Covered(charged)
      /\ charged.myForwardingCount = f.myForwardingCount + 1
      /\ charged.theirForwardingCount = f.theirForwardingCount
  BY <1>2, ChargeType, ChargeCovers
<1>5. QueuesType'
  BY QueuesNext DEF PairInv
<1>6. /\ e.myForwardingCount \in Nat /\ f.myForwardingCount \in Nat
      /\ e.theirForwardingCount \in Nat /\ f.theirForwardingCount \in Nat
      /\ gratis[i] \in Nat /\ gratis[j] \in Nat /\ gratis' = gratis
  BY <1>1, <1>2 DEF BankEntry, PairInv, TypeOK, Relay, RelayUnheard, Arrived
<1>7. /\ e.myForwardingCount <= MaxCount
      /\ f.theirForwardingCount <= MaxCount
      /\ f.myForwardingCount < MaxCount
      /\ e.theirForwardingCount <= f.myForwardingCount + gratis[i]
      /\ f.theirForwardingCount <= e.myForwardingCount + gratis[j]
  BY <1>1 DEF PairInv, BanksAgree, CountsBounded, HeardWasCharged, Relay,
              RelayUnheard
<1>8. Covered(e) /\ Covered(f)
  BY <1>1 DEF PairInv, BanksAgree, Balanced
<1> HIDE DEF e, f, heard, charged
<1>9. CASE Relay(i)
  <2>1. account' = [account EXCEPT ![Other(i)] = charged, ![i] = heard]
    BY <1>9 DEF Relay, e, f, heard, charged
  <2>2. /\ account' \in [Agent -> BankEntry \cup {NoEntry}]
        /\ Entry(i)' = heard
        /\ Entry(j)' = charged
        /\ \A k \in Agent : account'[k] # NoEntry
    BY <2>1, <1>3, <1>4, EntriesNext DEF PairInv
  <2> HIDE DEF j
  <2>3. TypeOK' /\ ListedKnown'
    BY <2>2, <1>5 DEF TypeOK, QueuesType, ListedKnown
  <2>4. e.theirForwardingCount < MaxCount
    BY <1>9 DEF Relay, e
  <2>5. CountsBounded'
    BY <1>1, <1>3, <1>4, <1>6, <1>7, <2>2, <2>4, PairAssumption
       DEF CountsBounded
  <2>6. /\ Entry(i)'.theirForwardingCount
             <= Entry(j)'.myForwardingCount + gratis'[i]
        /\ Entry(j)'.theirForwardingCount
             <= Entry(i)'.myForwardingCount + gratis'[j]
    BY <1>3, <1>4, <1>6, <1>7, <2>2
  <2>7. HeardWasCharged'
    BY <1>1, <2>6 DEF HeardWasCharged, Other, j
  <2>8. Balanced'
    <3>1. Covered(Entry(i))' /\ Covered(Entry(j))'
      BY <1>3, <1>4, <1>8, <2>2 DEF Covered
    <3>2. QED
      BY <3>1, <1>1 DEF Balanced, Covered
  <2>9. QED
    BY <2>3, <2>5, <2>7, <2>8 DEF BanksAgree
<1>10. CASE RelayUnheard(i)
  <2>1. account' = [account EXCEPT ![j] = charged]
    BY <1>10 DEF RelayUnheard, f, charged
  <2>2. /\ account' \in [Agent -> BankEntry \cup {NoEntry}]
        /\ Entry(j)' = charged
        /\ Entry(i)' = e
        /\ \A k \in Agent : account[k] # NoEntry => account'[k] # NoEntry
    BY <2>1, <1>1, <1>4, EntryNext DEF PairInv, e
  <2> HIDE DEF j
  <2>3. TypeOK' /\ ListedKnown'
    BY <2>2, <1>5, <1>10
       DEF TypeOK, QueuesType, ListedKnown, PairInv, RelayUnheard
  <2>4. e.theirForwardingCount <= MaxCount
    BY DEF PairInv, BanksAgree, CountsBounded, e
  <2>5. CountsBounded'
    BY <1>1, <1>4, <1>6, <1>7, <2>2, <2>4, PairAssumption DEF CountsBounded
  <2>6. /\ Entry(i)'.theirForwardingCount
             <= Entry(j)'.myForwardingCount + gratis'[i]
        /\ Entry(j)'.theirForwardingCount
             <= Entry(i)'.myForwardingCount + gratis'[j]
    BY <1>4, <1>6, <1>7, <2>2
  <2>7. HeardWasCharged'
    BY <1>1, <2>6 DEF HeardWasCharged, Other, j
  <2>8. Balanced'
    <3>1. Covered(Entry(i))' /\ Covered(Entry(j))'
      BY <1>4, <1>8, <2>2 DEF Covered
    <3>2. QED
      BY <3>1, <1>1 DEF Balanced, Covered
  <2>9. QED
    BY <2>3, <2>5, <2>7, <2>8 DEF BanksAgree
<1>11. QED
  BY <1>9, <1>10

\* A packet of another source that is heard is counted by the agent that heard
\* it, and by nobody else.
LEMMA GratisAgrees ==
  ASSUME PairInv, NEW i \in Agent, RelayGratis(i)
  PROVE  TypeOK' /\ ListedKnown' /\ BanksAgree'
<1> DEFINE e == Entry(i)
           heard == PositiveEvents(e, 1)
<1>1. e \in BankEntry
  BY EntryType DEF PairInv
<1>2. /\ heard \in BankEntry
      /\ heard.myForwardingCount = e.myForwardingCount
      /\ heard.theirForwardingCount = e.theirForwardingCount + 1
      /\ Covered(e) => Covered(heard)
  BY <1>1, PositiveType, HeardCoversOne
<1>3. /\ account' = [account EXCEPT ![i] = heard]
      /\ e.theirForwardingCount < MaxCount
      /\ gratis' = [gratis EXCEPT ![i] = gratis[i] + 1]
      /\ listed' = listed
  BY DEF RelayGratis
<1>4. QueuesType'
  BY QueuesNext DEF PairInv
<1> HIDE DEF heard
<1>5. /\ account' \in [Agent -> BankEntry \cup {NoEntry}]
      /\ Entry(i)' = heard
      /\ \A k \in Agent : k # i => Entry(k)' = Entry(k)
      /\ \A k \in Agent : account[k] # NoEntry => account'[k] # NoEntry
  BY <1>2, <1>3, EntryNext DEF PairInv
<1>6. TypeOK' /\ ListedKnown'
  BY <1>3, <1>4, <1>5 DEF TypeOK, QueuesType, ListedKnown, PairInv
<1>7. /\ gratis \in [Agent -> Nat]
      /\ gratis'[i] = gratis[i] + 1
      /\ \A k \in Agent : k # i => gratis'[k] = gratis[k]
  BY <1>3 DEF PairInv, TypeOK
<1>8. e.theirForwardingCount \in Nat /\ e.myForwardingCount \in Nat
  BY <1>1 DEF BankEntry
<1>9. /\ CountsBounded
      /\ HeardWasCharged
      /\ Covered(e)
      /\ Balanced
  BY DEF PairInv, BanksAgree, Balanced
<1>10. CountsBounded'
  BY <1>2, <1>3, <1>5, <1>8, <1>9, PairAssumption DEF CountsBounded
<1>11. HeardWasCharged'
  <2> SUFFICES ASSUME NEW k \in Agent
               PROVE  Entry(k)'.theirForwardingCount
                        <= Entry(Other(k))'.myForwardingCount + gratis'[k]
    BY DEF HeardWasCharged, Other
  <2>1. /\ Other(k) \in Agent
        /\ Entry(Other(k)) \in BankEntry
    BY OtherType, EntryType DEF PairInv
  <2>2. Entry(Other(k))'.myForwardingCount = Entry(Other(k)).myForwardingCount
    BY <1>2, <1>5, <2>1
  <2>3. Entry(Other(k)).myForwardingCount \in Nat
    BY <2>1 DEF BankEntry
  <2>4. Entry(k).theirForwardingCount
          <= Entry(Other(k)).myForwardingCount + gratis[k]
    BY <1>9 DEF HeardWasCharged
  <2>5. gratis[k] \in Nat
    BY <1>7
  <2>6. CASE k = i
    BY <2>2, <2>3, <2>4, <2>5, <2>6, <1>2, <1>5, <1>7, <1>8
  <2>7. CASE k # i
    BY <2>2, <2>4, <2>7, <1>5, <1>7
  <2>8. QED
    BY <2>6, <2>7
<1>12. Balanced'
  <2>1. Covered(Entry(i))'
    BY <1>2, <1>5, <1>9 DEF Covered
  <2>2. ASSUME NEW k \in Agent, k # i PROVE Covered(Entry(k))'
    BY <2>2, <1>5, <1>9 DEF Covered, Balanced
  <2>3. QED
    BY <2>1, <2>2 DEF Balanced
<1>13. QED
  BY <1>6, <1>10, <1>11, <1>12 DEF BanksAgree

\* Every step keeps the invariant.
LEMMA NextInv == PairInv /\ [Next]_vars => PairInv'
<1> SUFFICES ASSUME PairInv, [Next]_vars PROVE PairInv'
  OBVIOUS
<1>1. CASE UNCHANGED vars
  <2>1. \A i \in Agent : Entry(i)' = Entry(i)
    BY <1>1 DEF vars, Entry
  <2>2. TypeOK' /\ ListedKnown'
    BY <1>1 DEF vars, PairInv, TypeOK, ListedKnown
  <2>3. BanksAgree'
    BY <2>1, <1>1 DEF PairInv, BanksAgree, CountsBounded, HeardWasCharged,
                      Balanced, Covered, Other, vars, Entry
  <2>4. QED
    BY <2>2, <2>3 DEF PairInv
<1>2. ASSUME NEW i \in Agent, account' = account, gratis' = gratis,
             QueuesType', ListedKnown'
      PROVE  PairInv'
  <2>1. \A j \in Agent : Entry(j)' = Entry(j)
    BY <1>2 DEF Entry
  <2>2. TypeOK'
    BY <1>2 DEF PairInv, TypeOK, QueuesType
  <2>3. BanksAgree'
    BY <1>2, <2>1, OtherType DEF PairInv, BanksAgree, CountsBounded,
       HeardWasCharged, Balanced, Covered, Other
  <2>4. QED
    BY <1>2, <2>2, <2>3 DEF PairInv
<1>3. ASSUME NEW i \in Agent, Send(i) \/ Pass(i) PROVE PairInv'
  <2>0. addPacketToCache(i) /\ gratis' = gratis
    BY <1>3 DEF Send, Pass
  <2>1. QueuesType'
    BY <1>3, QueuesNext DEF PairInv
  <2>2. CASE expired[i] = 0
    <3>1. account' = account /\ listed' = listed
      BY <2>0, <2>2 DEF addPacketToCache
    <3>2. QED
      BY <1>2, <2>0, <2>1, <3>1 DEF PairInv, ListedKnown
  <2>3. CASE expired[i] # 0
    <3> DEFINE e == NegativeEvents(Entry(i), expired[i])
    <3>1. Entry(i) \in BankEntry /\ expired[i] \in Nat
      BY EntryType DEF PairInv, TypeOK
    <3>2. /\ e \in BankEntry
          /\ e.amount = Entry(i).amount
          /\ e.myForwardingCount = Entry(i).myForwardingCount
          /\ e.theirForwardingCount = Entry(i).theirForwardingCount
      BY <3>1, NegativeType
    <3>3. account' = [account EXCEPT ![i] = e]
      BY <2>0, <2>3 DEF addPacketToCache
    <3>4. e.amount >= Entry(i).amount
      BY <3>1, <3>2, BankConstants DEF BankEntry, MIN_CHIPCOUNT
    <3>5. \A j \in Agent : j # i => listed'[j] = listed[j]
      BY <2>0, <2>3 DEF addPacketToCache, PairInv, TypeOK
    <3> HIDE DEF e
    <3>6. TypeOK' /\ BanksAgree'
      BY <2>0, <2>1, <3>2, <3>3, <3>4, EntryKept
    <3>7. account'[i] # NoEntry
      BY <3>2, <3>3, PairAssumption DEF PairInv, TypeOK
    <3>8. \A j \in Agent : account[j] # NoEntry => account'[j] # NoEntry
      BY <3>2, <3>3, EntryNext DEF PairInv
    <3>9. ListedKnown'
      BY <3>5, <3>7, <3>8 DEF PairInv, ListedKnown
    <3>10. QED
      BY <3>6, <3>9 DEF PairInv
  <2>4. QED
    BY <2>2, <2>3
<1>4. ASSUME NEW i \in Agent, Relay(i) \/ RelayUnheard(i) PROVE PairInv'
  BY <1>4, RelayAgrees DEF PairInv
<1>5. ASSUME NEW i \in Agent, Refuse(i) \/ PassUnheard(i) PROVE PairInv'
  <2>1. QueuesType'
    BY <1>5, QueuesNext DEF PairInv
  <2>2. QED
    BY <1>2, <1>5, <2>1 DEF Refuse, PassUnheard, Arrived, PairInv, ListedKnown
<1>6. ASSUME NEW k \in Agent, NEW e \in BankEntry,
             QueuesType', gratis' = gratis,
             account' = [account EXCEPT ![k] = e],
             e.myForwardingCount = Entry(k).myForwardingCount,
             e.theirForwardingCount = Entry(k).theirForwardingCount,
             e.amount >= Entry(k).amount,
             \A j \in Agent : listed'[j] => listed[j]
      PROVE  PairInv'
  <2>1. TypeOK' /\ BanksAgree'
    BY <1>6, EntryKept
  <2>2. \A j \in Agent : account[j] # NoEntry => account'[j] # NoEntry
    BY <1>6, EntryNext DEF PairInv
  <2>3. QED
    BY <1>6, <2>1, <2>2 DEF PairInv, ListedKnown
<1>7. ASSUME NEW i \in Agent, RefuseUnpaid(i) PROVE PairInv'
  <2>1. QueuesType' /\ Other(i) \in Agent
    BY <1>7, QueuesNext, OtherType DEF PairInv
  <2>2. Entry(Other(i)) \in BankEntry
    BY <2>1, EntryType DEF PairInv
  <2>3. Entry(Other(i)).amount \in Int
    BY <2>2, BankConstants DEF BankEntry, MIN_CHIPCOUNT
  <2>4. account' = [account EXCEPT ![Other(i)] = Entry(Other(i))]
        /\ listed' = listed /\ gratis' = gratis
    BY <1>7 DEF RefuseUnpaid, Arrived
  <2>5. Entry(Other(i)).amount >= Entry(Other(i)).amount
    BY <2>3
  <2>6. QED
    BY <1>6, <2>1, <2>2, <2>4, <2>5
<1>8. ASSUME NEW i \in Agent, Expire(i) \/ SetFaultyStatus(i) PROVE PairInv'
  <2>1. QueuesType'
    BY <1>8, QueuesNext DEF PairInv
  <2>2. QED
    BY <1>2, <1>8, <2>1 DEF Expire, SetFaultyStatus, PairInv, ListedKnown
<1>9. ASSUME NEW i \in Agent, BankTimerExpire(i) PROVE PairInv'
  <2>1. QueuesType'
    BY <1>9, QueuesNext DEF PairInv
  <2>2. Entry(i) \in BankEntry /\ Entry(i) = account[i]
    BY <1>9, EntryType DEF BankTimerExpire, PairInv
  <2>3. /\ Grant(account[i]) \in BankEntry
        /\ Grant(account[i]).amount >= Entry(i).amount
        /\ Grant(account[i]).myForwardingCount = Entry(i).myForwardingCount
        /\ Grant(account[i]).theirForwardingCount
             = Entry(i).theirForwardingCount
    BY <2>2, GrantType
  <2>4. account' = [account EXCEPT ![i] = Grant(account[i])]
        /\ listed' = listed /\ gratis' = gratis
    BY <1>9 DEF BankTimerExpire
  <2>5. QED
    BY <1>6, <2>1, <2>3, <2>4
<1>10. ASSUME NEW i \in Agent, SecondChanceExpire(i) PROVE PairInv'
  <2> DEFINE e == setRating(account[i], SEC_CHANCE_NEW_RATING)
  <2>1. QueuesType'
    BY <1>10, QueuesNext DEF PairInv
  <2>2. Entry(i) \in BankEntry /\ Entry(i) = account[i]
    BY <1>10, EntryType DEF SecondChanceExpire, PairInv, ListedKnown
  <2>3. /\ e \in BankEntry
        /\ e.amount = Entry(i).amount
        /\ e.myForwardingCount = Entry(i).myForwardingCount
        /\ e.theirForwardingCount = Entry(i).theirForwardingCount
    BY <2>2, SetRatingType
  <2>4. account' = [account EXCEPT ![i] = e] /\ gratis' = gratis
    BY <1>10 DEF SecondChanceExpire
  <2>5. \A j \in Agent : listed'[j] => listed[j]
    BY <1>10 DEF SecondChanceExpire, PairInv, TypeOK
  <2>6. e.amount >= Entry(i).amount
    BY <2>2, <2>3, BankConstants DEF BankEntry, MIN_CHIPCOUNT
  <2> HIDE DEF e
  <2>7. QED
    BY <1>6, <2>1, <2>3, <2>4, <2>5, <2>6
<1>11. ASSUME NEW i \in Agent, RelayGratis(i) PROVE PairInv'
  BY <1>11, GratisAgrees DEF PairInv
<1>12. QED
  BY <1>1, <1>3, <1>4, <1>5, <1>7, <1>8, <1>9, <1>10, <1>11 DEF Next

-----------------------------------------------------------------------------

\* No order of sends, relays, refusals, blames and second chances takes an
\* account or a queue out of its range.
THEOREM TypeCorrect == Spec => []TypeOK
<1>1. PairInv => TypeOK
  BY DEF PairInv
<1>2. QED
  BY InitInv, NextInv, <1>1, PTL DEF Spec

\* Every packet that a sender heard forwarded, its peer has charged or has
\* forwarded for another source at no charge, whether or not others go unheard
\* (handleForwarding against handleTap).
THEOREM HeardIsCharged == Spec => []HeardWasCharged
<1>1. PairInv => HeardWasCharged
  BY DEF PairInv, BanksAgree
<1>2. QED
  BY InitInv, NextInv, <1>1, PTL DEF Spec

\* The two banks while every transmission has been overheard: what the peer
\* heard forwarded it was charged for or had at no charge, so it has earned at
\* least what this agent has counted, and it was charged no more than it heard.
LEMMA HeardCovers ==
  ASSUME PairInv PROVE ChipsCovered
<1> SUFFICES ASSUME AllHeard, NEW i \in Agent
             PROVE  Entry(Other(i)).amount >=
                      AtMost(INITIAL_CHIPCOUNT + Entry(i).myForwardingCount,
                             MAX_CHIPCOUNT)
                        - Entry(i).theirForwardingCount
  BY DEF ChipsCovered
<1> DEFINE j == Other(i)
           e == Entry(i)
           f == Entry(j)
<1>1. j \in Agent /\ Other(j) = i
  BY OtherType
<1>2. e \in BankEntry /\ f \in BankEntry
  BY <1>1, EntryType DEF PairInv
<1>3. gratis[i] \in Nat /\ gratis[j] \in Nat
  BY <1>1 DEF PairInv, TypeOK
<1> HIDE DEF j
<1>4. /\ e.theirForwardingCount = f.myForwardingCount + gratis[i]
      /\ f.theirForwardingCount = e.myForwardingCount + gratis[j]
  BY <1>1 DEF AllHeard, j
<1>5. Covered(f)
  BY <1>1 DEF PairInv, BanksAgree, Balanced
<1>6. /\ e.theirForwardingCount \in Nat /\ e.myForwardingCount \in Nat
      /\ f.theirForwardingCount \in Nat /\ f.myForwardingCount \in Nat
      /\ f.amount \in Int
  BY <1>2, BankConstants DEF BankEntry, MIN_CHIPCOUNT
<1> HIDE DEF e, f
<1>7. f.amount >=
        AtMost(INITIAL_CHIPCOUNT + e.myForwardingCount, MAX_CHIPCOUNT)
          - e.theirForwardingCount
  BY <1>3, <1>4, <1>5, <1>6, BankConstants DEF Covered, AtMost
<1>8. QED
  BY <1>7 DEF e, f, j

\* An agent's own counters bound from below what its peer's bank holds for it,
\* as long as no transmission goes unheard: for every cap, with the chips lost
\* at it, and with other sources' packets relayed at no charge in between.
THEOREM ChipsCoveredAlways == Spec => []ChipsCovered
<1>1. PairInv => ChipsCovered
  BY HeardCovers
<1>2. QED
  BY InitInv, NextInv, <1>1, PTL DEF Spec

\* When a first account holds a chip, nobody who is out of credit blames the
\* peer that refused his packets (the reason that registerNegativeEvent gives
\* for its test), as long as no transmission goes unheard and he has not heard
\* as many packets forwarded as an account can hold chips.
THEOREM BlameNeedsCredit ==
  ASSUME INITIAL_CHIPCOUNT > 0 PROVE Spec => BlameMeansCredit
<1>1. PairInv /\ [Next]_vars => [BlameStep]_vars
  <2> SUFFICES ASSUME PairInv, [Next]_vars, AllHeard, NEW i \in Agent,
                      Blames(i), Entry(i).theirForwardingCount < MAX_CHIPCOUNT
               PROVE  CanPay(Entry(Other(i)))
    BY DEF BlameStep
  <2> DEFINE e == Entry(i)
  <2>0. expired[i] > 0 /\ expired'[i] = 0 /\ Entry(i)'.rating < e.rating
    BY DEF Blames
  <2>1. /\ e \in BankEntry
        /\ Other(i) \in Agent
        /\ Entry(Other(i)) \in BankEntry
    BY OtherType, EntryType DEF PairInv
  <2>2. Blamable(e)
    <3>1. addPacketToCache(i)
      <4>1. expired' # expired
        BY <2>0 DEF PairInv, TypeOK
      <4>2. PICK k \in Agent : addPacketToCache(k) \/ Expire(k)
        BY <4>1 DEF Next, vars, Send, Pass, Relay, RelayUnheard, Refuse,
                    RefuseUnpaid, RelayGratis, PassUnheard, BankTimerExpire,
                    SecondChanceExpire, SetFaultyStatus
      <4>3. ~Expire(k)
        BY <2>0 DEF Expire, PairInv, TypeOK
      <4>4. k = i
        BY <2>0, <4>2, <4>3 DEF addPacketToCache, PairInv, TypeOK
      <4>5. QED
        BY <4>2, <4>3, <4>4
    <3>2. account' = [account EXCEPT ![i] = NegativeEvents(e, expired[i])]
      BY <2>0, <3>1 DEF addPacketToCache
    <3>3. expired[i] \in Nat
      BY DEF PairInv, TypeOK
    <3>4. NegativeEvents(e, expired[i]) \in BankEntry
      BY <2>1, <3>3, NegativeType
    <3>5. Entry(i)' = NegativeEvents(e, expired[i])
      BY <3>2, <3>4, EntryNext DEF PairInv
    <3>6. e.rating \in Int
      BY <2>1, BankConstants DEF BankEntry
    <3>7. Entry(i)' # e
      BY <2>0, <3>6
    <3>8. QED
      BY <2>1, <3>3, <3>5, <3>7, NegativeType
  <2>3. Entry(Other(i)).amount >=
          AtMost(INITIAL_CHIPCOUNT + e.myForwardingCount, MAX_CHIPCOUNT)
            - e.theirForwardingCount
    BY HeardCovers DEF ChipsCovered
  <2>4. /\ e.myForwardingCount \in Nat
        /\ e.theirForwardingCount \in Nat
        /\ Entry(Other(i)).amount \in Int
    BY <2>1, BankConstants DEF BankEntry, MIN_CHIPCOUNT
  <2> HIDE DEF e
  <2>5. e.theirForwardingCount < MAX_CHIPCOUNT
    BY DEF e
  <2>6. QED
    BY <2>2, <2>3, <2>4, <2>5, BankConstants
       DEF Blamable, CanPay, DECREMENT_AMOUNT, AtMost
<1>2. QED
  BY InitInv, NextInv, <1>1, PTL DEF Spec, BlameMeansCredit

=============================================================================
