-------------------------------- MODULE Bank --------------------------------
(***************************************************************************)
(* The accounts of the OCEAN extension (bank.h, bank.cc, ocean.h) as pure  *)
(* operators on one BankEntry: a node's chip count, its rating and the two *)
(* forwarding counters.  The state machines that keep tables of entries    *)
(* (Ocean, OceanPair) are built from these operators.                      *)
(*                                                                         *)
(* The loops of the monitor apply one event per cached packet.  All of the *)
(* events of one loop hit the same entry, so the operators take their      *)
(* number k; BankProofs proves that they are the one-by-one loops, whose   *)
(* bodies are below.                                                       *)
(***************************************************************************)
EXTENDS Integers

CONSTANTS
  INITIAL_CHIPCOUNT,        \* chips of a new account (200)
  MAX_CHIPCOUNT,            \* the most chips an account holds (1000)
  FAULTY_RATING_THRESHOLD,  \* the lowest rating: the node is faulty (-40)
  GOOD_RATING_THRESHOLD,    \* the highest rating (40)
  SEC_CHANCE_NEW_RATING     \* the rating after a second chance (-30)

ASSUME BankAssumption ==
  /\ INITIAL_CHIPCOUNT \in Nat
  /\ MAX_CHIPCOUNT \in Nat
  /\ INITIAL_CHIPCOUNT <= MAX_CHIPCOUNT
  /\ FAULTY_RATING_THRESHOLD \in Int
  /\ FAULTY_RATING_THRESHOLD < 0
  /\ GOOD_RATING_THRESHOLD \in Nat
  /\ SEC_CHANCE_NEW_RATING \in Int
  /\ FAULTY_RATING_THRESHOLD < SEC_CHANCE_NEW_RATING
  /\ SEC_CHANCE_NEW_RATING <= GOOD_RATING_THRESHOLD

\* The amounts that ocean.h fixes and that no build of the code varies.
MIN_CHIPCOUNT          == 0
INCREMENT_AMOUNT       == 1
DECREMENT_AMOUNT       == 1
BANK_TIMER_AMOUNT      == 1
INITIAL_RATING         == 0
INCREASE_RATING_AMOUNT == 1
DECREASE_RATING_AMOUNT == 2

BankEntry ==
  [amount               : MIN_CHIPCOUNT .. MAX_CHIPCOUNT,
   rating               : FAULTY_RATING_THRESHOLD .. GOOD_RATING_THRESHOLD,
   myForwardingCount    : Nat,
   theirForwardingCount : Nat]

NewEntry ==
  [amount               |-> INITIAL_CHIPCOUNT,
   rating               |-> INITIAL_RATING,
   myForwardingCount    |-> 0,
   theirForwardingCount |-> 0]

AtMost(x, cap)    == IF x <= cap THEN x ELSE cap
AtLeast(x, floor) == IF x >= floor THEN x ELSE floor

-----------------------------------------------------------------------------

\* k increments of one chip; an increment that would pass the cap is refused.
incChipCount(e, k) ==
  [e EXCEPT !.amount = AtMost(@ + k * INCREMENT_AMOUNT, MAX_CHIPCOUNT)]

CanPay(e) == e.amount >= DECREMENT_AMOUNT

decChipCount(e) ==
  IF e.amount - DECREMENT_AMOUNT >= MIN_CHIPCOUNT
  THEN [e EXCEPT !.amount = @ - DECREMENT_AMOUNT]
  ELSE e

\* Mutant of Charge: the forwarding counter is not kept.
ChargeUncounted(e) == decChipCount(e)

\* handleForwarding's charge: one chip less, one packet forwarded for them.
Charge(e) == [decChipCount(e) EXCEPT !.myForwardingCount = @ + 1]

incRating(e, k) ==
  [e EXCEPT !.rating = AtMost(@ + k * INCREASE_RATING_AMOUNT,
                              GOOD_RATING_THRESHOLD)]

\* Mutant of decRating: the rating is not kept at its lowest value.
decRatingUnclamped(e, k) ==
  [e EXCEPT !.rating = @ - k * DECREASE_RATING_AMOUNT]

decRating(e, k) ==
  [e EXCEPT !.rating = AtLeast(@ - k * DECREASE_RATING_AMOUNT,
                               FAULTY_RATING_THRESHOLD)]

\* Mutant of PositiveEvents: a forwarded packet earns no credit.
PositiveEventsUncredited(e, k) ==
  [incRating(e, k) EXCEPT !.theirForwardingCount = @ + k]

\* k of our packets overheard being forwarded: credit, rating and counter.
PositiveEvents(e, k) ==
  [incRating(incChipCount(e, k), k) EXCEPT !.theirForwardingCount = @ + k]

\* Mutant of Blamable: the initial credit may be used up exactly.
BlamableAtLimit(e) ==
  \/ e.myForwardingCount >= e.theirForwardingCount
  \/ e.theirForwardingCount * DECREMENT_AMOUNT <= INITIAL_CHIPCOUNT

\* The entry may be blamed: we forwarded at least as much for them as they
\* did for us, or what they forwarded has not used up our initial credit.
Blamable(e) ==
  \/ e.myForwardingCount >= e.theirForwardingCount
  \/ e.theirForwardingCount * DECREMENT_AMOUNT < INITIAL_CHIPCOUNT

\* k of our packets not overheard in time.
NegativeEvents(e, k) == IF Blamable(e) THEN decRating(e, k) ELSE e

\* The periodic grant of incAllEntries, withheld at the faulty rating.
Grant(e) ==
  IF /\ e.rating # FAULTY_RATING_THRESHOLD
     /\ e.amount + BANK_TIMER_AMOUNT <= MAX_CHIPCOUNT
  THEN [e EXCEPT !.amount = @ + BANK_TIMER_AMOUNT]
  ELSE e

setRating(e, val) == [e EXCEPT !.rating = val]

-----------------------------------------------------------------------------
(* One packet of the loops in handleTap and checkPacketCache *)

incChipAmount(e) ==
  IF e.amount + INCREMENT_AMOUNT <= MAX_CHIPCOUNT
  THEN [e EXCEPT !.amount = @ + INCREMENT_AMOUNT]
  ELSE e

incOneRating(e) ==
  IF e.rating + INCREASE_RATING_AMOUNT <= GOOD_RATING_THRESHOLD
  THEN [e EXCEPT !.rating = @ + INCREASE_RATING_AMOUNT]
  ELSE e

decOneRating(e) ==
  IF e.rating - DECREASE_RATING_AMOUNT >= FAULTY_RATING_THRESHOLD
  THEN [e EXCEPT !.rating = @ - DECREASE_RATING_AMOUNT]
  ELSE [e EXCEPT !.rating = FAULTY_RATING_THRESHOLD]

registerPositiveEvent(e) ==
  [incOneRating(e) EXCEPT !.theirForwardingCount = @ + 1]

registerNegativeEvent(e) ==
  IF Blamable(e) /\ e.rating > FAULTY_RATING_THRESHOLD
  THEN decOneRating(e)
  ELSE e

=============================================================================
