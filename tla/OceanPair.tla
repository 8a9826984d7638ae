----------------------------- MODULE OceanPair ------------------------------
(***************************************************************************)
(* Two agents that relay for each other: what the bank of one holds for    *)
(* the other against what the monitor of the other believes.  Each sends   *)
(* packets through its peer to a neighbour of the peer, its own and those  *)
(* that it forwards for other sources.  The peer charges for the former    *)
(* and forwards the latter at no charge, or it drops them                  *)
(* (handleForwarding); the sender overhears the transmission or, when it   *)
(* collides, does not (tap).                                               *)
(*                                                                         *)
(* Module Ocean has one agent and any environment; here the environment of *)
(* each agent is the other one, and the sources that it forwards for.      *)
(* Time is only the order of steps: a packet reaches the peer, and is      *)
(* overheard or not, before it can expire.                                 *)
(***************************************************************************)
EXTENDS Bank

CONSTANTS
  Agent,      \* the two agents
  MaxCached,  \* bound: packets of one agent in its sentPacketTable
  MaxCount,   \* bound: forwarding counters
  NoEntry

ASSUME PairAssumption ==
  /\ \E a, b \in Agent : a # b /\ Agent = {a, b}
  /\ MaxCached \in Nat
  /\ MaxCount \in Nat
  /\ NoEntry \notin BankEntry

VARIABLES
  account,   \* account[i]: the entry for the other agent in i's bank
  onWay,     \* onWay[i]: i's own packets that have not reached the other yet
  passing,   \* passing[i]: the same of packets that i forwards for others
  waiting,   \* waiting[i]: packets cached by i that have not expired
  expired,   \* expired[i]: packets cached by i past PACKET_TIMEOUT
  listed,    \* listed[i]: i has the other on its faulty list
  isFaulty,  \* isFaulty[i]: i is in a faulty period
  gratis     \* history: packets of others that i heard its peer forward

vars == <<account, onWay, passing, waiting, expired, listed, isFaulty, gratis>>

TypeOK ==
  /\ account \in [Agent -> BankEntry \cup {NoEntry}]
  /\ onWay \in [Agent -> 0 .. MaxCached]
  /\ passing \in [Agent -> 0 .. MaxCached]
  /\ waiting \in [Agent -> 0 .. MaxCached]
  /\ expired \in [Agent -> 0 .. MaxCached]
  /\ listed \in [Agent -> BOOLEAN]
  /\ isFaulty \in [Agent -> BOOLEAN]
  /\ gratis \in [Agent -> Nat]
  /\ \A i \in Agent : /\ onWay[i] + passing[i] <= waiting[i]
                      /\ waiting[i] + expired[i] <= MaxCached

Init ==
  /\ account = [i \in Agent |-> NoEntry]
  /\ onWay = [i \in Agent |-> 0]
  /\ passing = [i \in Agent |-> 0]
  /\ waiting = [i \in Agent |-> 0]
  /\ expired = [i \in Agent |-> 0]
  /\ listed = [i \in Agent |-> FALSE]
  /\ isFaulty = [i \in Agent |-> FALSE]
  /\ gratis = [i \in Agent |-> 0]

-----------------------------------------------------------------------------

Other(i) == CHOOSE j \in Agent : j # i

\* The entry of agent i for its peer, opened when there is none.
Entry(i) == IF account[i] = NoEntry THEN NewEntry ELSE account[i]

\* Agent i caches a packet that it sends through its peer.  First the peer is
\* blamed for the packets that have expired, by the counters as they are now.
addPacketToCache(i) ==
  /\ waiting[i] < MaxCached
  /\ waiting' = [waiting EXCEPT ![i] = @ + 1]
  /\ expired' = [expired EXCEPT ![i] = 0]
  /\ IF expired[i] = 0
     THEN UNCHANGED <<account, listed>>
     ELSE LET judged == NegativeEvents(Entry(i), expired[i])
          IN /\ account' = [account EXCEPT ![i] = judged]
             /\ listed' =
                  [listed EXCEPT
                     ![i] = \/ @
                            \/ /\ Blamable(Entry(i))
                               /\ judged.rating = FAULTY_RATING_THRESHOLD]

\* The packet is i's own.
Send(i) ==
  /\ addPacketToCache(i)
  /\ onWay' = [onWay EXCEPT ![i] = @ + 1]
  /\ UNCHANGED <<passing, isFaulty, gratis>>

\* Agent i forwards it for another source.
Pass(i) ==
  /\ ~isFaulty[i]
  /\ addPacketToCache(i)
  /\ passing' = [passing EXCEPT ![i] = @ + 1]
  /\ UNCHANGED <<onWay, isFaulty, gratis>>

\* A packet of i has arrived at its peer, which may forward it.
Arrived(i) ==
  /\ onWay[i] > 0
  /\ onWay' = [onWay EXCEPT ![i] = @ - 1]
  /\ UNCHANGED <<passing, gratis>>

\* A packet that i forwards for another source has arrived.
PassArrived(i) ==
  /\ passing[i] > 0
  /\ passing' = [passing EXCEPT ![i] = @ - 1]
  /\ UNCHANGED onWay

Willing(j) == ~isFaulty[j] /\ ~listed[j]

\* Mutant of Relay: the peer forwards the packet without charging it.
RelayFree(i) ==
  /\ Arrived(i)
  /\ Willing(Other(i))
  /\ CanPay(Entry(Other(i)))
  /\ Entry(i).theirForwardingCount < MaxCount
  /\ Entry(Other(i)).myForwardingCount < MaxCount
  /\ waiting' = [waiting EXCEPT ![i] = @ - 1]
  /\ account' = [account EXCEPT ![i] = PositiveEvents(Entry(i), 1)]
  /\ UNCHANGED <<expired, listed, isFaulty>>

\* The peer charges i and forwards the packet; i overhears it.
Relay(i) ==
  /\ Arrived(i)
  /\ Willing(Other(i))
  /\ CanPay(Entry(Other(i)))
  /\ Entry(i).theirForwardingCount < MaxCount
  /\ Entry(Other(i)).myForwardingCount < MaxCount
  /\ waiting' = [waiting EXCEPT ![i] = @ - 1]
  /\ account' = [account EXCEPT ![Other(i)] = Charge(Entry(Other(i))),
                                ![i] = PositiveEvents(Entry(i), 1)]
  /\ UNCHANGED <<expired, listed, isFaulty>>

\* As Relay, but the transmission collides at i.
RelayUnheard(i) ==
  /\ Arrived(i)
  /\ Willing(Other(i))
  /\ CanPay(Entry(Other(i)))
  /\ Entry(Other(i)).myForwardingCount < MaxCount
  /\ account' = [account EXCEPT ![Other(i)] = Charge(Entry(Other(i)))]
  /\ UNCHANGED <<waiting, expired, listed, isFaulty>>

\* The peer is faulty, or has i on its faulty list: it drops the packet.
Refuse(i) ==
  /\ Arrived(i)
  /\ ~Willing(Other(i))
  /\ UNCHANGED <<account, waiting, expired, listed, isFaulty>>

\* Agent i has no credit left with its peer: it drops the packet.
RefuseUnpaid(i) ==
  /\ Arrived(i)
  /\ Willing(Other(i))
  /\ ~CanPay(Entry(Other(i)))
  /\ account' = [account EXCEPT ![Other(i)] = Entry(Other(i))]
  /\ UNCHANGED <<waiting, expired, listed, isFaulty>>

\* The peer forwards another source's packet, at no charge, and i overhears it.
RelayGratis(i) ==
  /\ PassArrived(i)
  /\ Willing(Other(i))
  /\ Entry(i).theirForwardingCount < MaxCount
  /\ waiting' = [waiting EXCEPT ![i] = @ - 1]
  /\ account' = [account EXCEPT ![i] = PositiveEvents(Entry(i), 1)]
  /\ gratis' = [gratis EXCEPT ![i] = @ + 1]
  /\ UNCHANGED <<expired, listed, isFaulty>>

\* The peer drops another source's packet, or forwards it and i does not hear
\* it: neither bank takes note.
PassUnheard(i) ==
  /\ PassArrived(i)
  /\ UNCHANGED <<account, waiting, expired, listed, isFaulty, gratis>>

\* PACKET_TIMEOUT passes for a packet that was not overheard.
Expire(i) ==
  /\ waiting[i] > onWay[i] + passing[i]
  /\ waiting' = [waiting EXCEPT ![i] = @ - 1]
  /\ expired' = [expired EXCEPT ![i] = @ + 1]
  /\ UNCHANGED <<account, onWay, passing, listed, isFaulty, gratis>>

BankTimerExpire(i) ==
  /\ ~isFaulty[i]
  /\ account[i] # NoEntry
  /\ account' = [account EXCEPT ![i] = Grant(@)]
  /\ UNCHANGED <<onWay, passing, waiting, expired, listed, isFaulty, gratis>>

SecondChanceExpire(i) ==
  /\ listed[i]
  /\ listed' = [listed EXCEPT ![i] = FALSE]
  /\ account' = [account EXCEPT ![i] = setRating(@, SEC_CHANCE_NEW_RATING)]
  /\ UNCHANGED <<onWay, passing, waiting, expired, isFaulty, gratis>>

SetFaultyStatus(i) ==
  /\ isFaulty' = [isFaulty EXCEPT ![i] = ~@]
  /\ UNCHANGED <<account, onWay, passing, waiting, expired, listed, gratis>>

Next ==
  \E i \in Agent :
    \/ Send(i)
    \/ Pass(i)
    \/ Relay(i)
    \/ RelayUnheard(i)
    \/ Refuse(i)
    \/ RefuseUnpaid(i)
    \/ RelayGratis(i)
    \/ PassUnheard(i)
    \/ Expire(i)
    \/ BankTimerExpire(i)
    \/ SecondChanceExpire(i)
    \/ SetFaultyStatus(i)

Spec == Init /\ [][Next]_vars

-----------------------------------------------------------------------------

\* What an agent heard its peer forward, the peer has charged for or forwarded
\* at no charge: no packet is counted twice by the sender, whether or not others
\* went unheard.
HeardWasCharged ==
  \A i \in Agent :
    Entry(i).theirForwardingCount
      <= Entry(Other(i)).myForwardingCount + gratis[i]

\* Every packet that either agent charged for was overheard.
AllHeard ==
  \A i \in Agent :
    Entry(i).theirForwardingCount
      = Entry(Other(i)).myForwardingCount + gratis[i]

\* The chips an agent has left with its peer are at least what its own two
\* counters say: its first chips, plus the packets it forwarded for the peer as
\* far as the cap lets them count, less those it heard the peer forward.  Two
\* banks that never speak to each other agree so far as long as no transmission
\* goes unheard, in whatever order chips are earned, lost to the cap and spent.
ChipsCovered ==
  AllHeard =>
    \A i \in Agent :
      Entry(Other(i)).amount >=
        AtMost(INITIAL_CHIPCOUNT + Entry(i).myForwardingCount, MAX_CHIPCOUNT)
          - Entry(i).theirForwardingCount

\* Agent i lowers the rating of its peer for packets that expired.
Blames(i) ==
  expired[i] > 0 /\ expired'[i] = 0 /\ Entry(i)'.rating < Entry(i).rating

\* The two reasons of registerNegativeEvent to blame a neighbour (monitor.cc:195)
\* stand for credit that is left with it: an agent that blames its peer could
\* have paid it, as long as no transmission has gone unheard and the agent has
\* not yet heard as many packets forwarded as an account can hold chips.  (From
\* then on level counters, the first reason, say nothing any more: the counters
\* go on where an account stops at its cap.)
BlameStep ==
  AllHeard =>
    \A i \in Agent :
      Blames(i) /\ Entry(i).theirForwardingCount < MAX_CHIPCOUNT
        => CanPay(Entry(Other(i)))

BlameMeansCredit == [][BlameStep]_vars

-----------------------------------------------------------------------------
(* A statement of the repository that the code does not keep *)

\* monitor.cc:197-198, the second of the two reasons to blame a neighbour: it
\* was not asked to forward more than the first chips pay for, "so we must
\* still have some chips left with them".  What is counted is what was heard.
FirstChipsLeft ==
  [][\A i \in Agent :
       /\ Blames(i)
       /\ Entry(i).theirForwardingCount * DECREMENT_AMOUNT < INITIAL_CHIPCOUNT
       => CanPay(Entry(Other(i)))]_vars

=============================================================================
