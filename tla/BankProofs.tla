----------------------------- MODULE BankProofs -----------------------------
(***************************************************************************)
(* What the operators of Bank do to an entry: each keeps a BankEntry a     *)
(* BankEntry, and touches only the fields it is about.  The proofs about   *)
(* Ocean and OceanPair rest on these lemmas.                               *)
(***************************************************************************)
EXTENDS Bank, TLAPS

\* The assumption about the constants, in the form the provers need it.
LEMMA BankConstants ==
  /\ INITIAL_CHIPCOUNT \in Nat
  /\ MAX_CHIPCOUNT \in Nat
  /\ FAULTY_RATING_THRESHOLD \in Int
  /\ GOOD_RATING_THRESHOLD \in Nat
  /\ SEC_CHANCE_NEW_RATING \in Int
  /\ INITIAL_CHIPCOUNT <= MAX_CHIPCOUNT
  /\ FAULTY_RATING_THRESHOLD < 0
  /\ FAULTY_RATING_THRESHOLD < SEC_CHANCE_NEW_RATING
  /\ SEC_CHANCE_NEW_RATING <= GOOD_RATING_THRESHOLD
BY BankAssumption

\* A new account is an account.
LEMMA NewEntryType == NewEntry \in BankEntry
BY BankConstants DEF NewEntry, BankEntry, MIN_CHIPCOUNT, INITIAL_RATING

\* A charge to an entry that can pay takes one chip and counts one packet.
LEMMA ChargeType ==
  ASSUME NEW e \in BankEntry, CanPay(e)
  PROVE  /\ Charge(e) \in BankEntry
         /\ Charge(e).rating = e.rating
         /\ Charge(e).amount = e.amount - 1
         /\ Charge(e).myForwardingCount = e.myForwardingCount + 1
         /\ Charge(e).theirForwardingCount = e.theirForwardingCount
BY BankConstants
   DEF BankEntry, CanPay, Charge, decChipCount, MIN_CHIPCOUNT, DECREMENT_AMOUNT

\* Chips are added up to the cap; the rest of the entry stays.
LEMMA IncChipType ==
  ASSUME NEW e \in BankEntry, NEW k \in Nat
  PROVE  /\ incChipCount(e, k) \in BankEntry
         /\ incChipCount(e, k).rating = e.rating
         /\ incChipCount(e, k).amount >= e.amount
         /\ incChipCount(e, k).amount = AtMost(e.amount + k, MAX_CHIPCOUNT)
         /\ incChipCount(e, k).amount <= e.amount + k
         /\ incChipCount(e, k).myForwardingCount = e.myForwardingCount
         /\ incChipCount(e, k).theirForwardingCount = e.theirForwardingCount
BY BankConstants
   DEF BankEntry, incChipCount, AtMost, MIN_CHIPCOUNT, INCREMENT_AMOUNT

\* Praise leaves the faulty rating; the rest of the entry stays.
LEMMA IncRatingType ==
  ASSUME NEW e \in BankEntry, NEW k \in Nat
  PROVE  /\ incRating(e, k) \in BankEntry
         /\ k # 0 => incRating(e, k).rating # FAULTY_RATING_THRESHOLD
         /\ incRating(e, k).amount = e.amount
         /\ incRating(e, k).myForwardingCount = e.myForwardingCount
         /\ incRating(e, k).theirForwardingCount = e.theirForwardingCount
BY BankConstants
   DEF BankEntry, incRating, AtMost, MIN_CHIPCOUNT, INCREASE_RATING_AMOUNT

\* k packets overheard add at most k chips, stopped by the cap alone, count k
\* packets, and leave the faulty rating.
LEMMA PositiveType ==
  ASSUME NEW e \in BankEntry, NEW k \in Nat
  PROVE  /\ PositiveEvents(e, k) \in BankEntry
         /\ k # 0 => PositiveEvents(e, k).rating # FAULTY_RATING_THRESHOLD
         /\ PositiveEvents(e, k).amount >= e.amount
         /\ PositiveEvents(e, k).amount = AtMost(e.amount + k, MAX_CHIPCOUNT)
         /\ PositiveEvents(e, k).amount <= e.amount + k
         /\ PositiveEvents(e, k).myForwardingCount = e.myForwardingCount
         /\ PositiveEvents(e, k).theirForwardingCount
              = e.theirForwardingCount + k
<1> DEFINE c == incChipCount(e, k)
           r == incRating(c, k)
<1>1. /\ c \in BankEntry
      /\ c.amount >= e.amount
      /\ c.amount <= e.amount + k
      /\ c.amount = AtMost(e.amount + k, MAX_CHIPCOUNT)
      /\ c.myForwardingCount = e.myForwardingCount
      /\ c.theirForwardingCount = e.theirForwardingCount
  BY IncChipType
<1>2. /\ r \in BankEntry
      /\ k # 0 => r.rating # FAULTY_RATING_THRESHOLD
      /\ r.amount = c.amount
      /\ r.myForwardingCount = c.myForwardingCount
      /\ r.theirForwardingCount = c.theirForwardingCount
  BY <1>1, IncRatingType
<1>3. PositiveEvents(e, k) = [r EXCEPT !.theirForwardingCount = @ + k]
  BY DEF PositiveEvents
<1> HIDE DEF c, r
<1>4. QED
  BY <1>1, <1>2, <1>3 DEF BankEntry

\* Blame touches the rating only, and not even that of an entry that may not
\* be blamed.
LEMMA NegativeType ==
  ASSUME NEW e \in BankEntry, NEW k \in Nat
  PROVE  /\ NegativeEvents(e, k) \in BankEntry
         /\ ~Blamable(e) => NegativeEvents(e, k) = e
         /\ NegativeEvents(e, k).amount = e.amount
         /\ NegativeEvents(e, k).myForwardingCount = e.myForwardingCount
         /\ NegativeEvents(e, k).theirForwardingCount = e.theirForwardingCount
BY BankConstants
   DEF BankEntry, NegativeEvents, decRating, AtLeast, MIN_CHIPCOUNT,
       DECREASE_RATING_AMOUNT

\* A grant adds at most one chip and touches nothing else.
LEMMA GrantType ==
  ASSUME NEW e \in BankEntry
  PROVE  /\ Grant(e) \in BankEntry
         /\ Grant(e).rating = e.rating
         /\ Grant(e).amount >= e.amount
         /\ Grant(e).amount <= e.amount + BANK_TIMER_AMOUNT
         /\ Grant(e).myForwardingCount = e.myForwardingCount
         /\ Grant(e).theirForwardingCount = e.theirForwardingCount
BY BankConstants DEF BankEntry, Grant, MIN_CHIPCOUNT, BANK_TIMER_AMOUNT

\* The rating of a second chance touches nothing else.
LEMMA SetRatingType ==
  ASSUME NEW e \in BankEntry
  PROVE  /\ setRating(e, SEC_CHANCE_NEW_RATING) \in BankEntry
         /\ setRating(e, SEC_CHANCE_NEW_RATING).rating = SEC_CHANCE_NEW_RATING
         /\ setRating(e, SEC_CHANCE_NEW_RATING).amount = e.amount
         /\ setRating(e, SEC_CHANCE_NEW_RATING).myForwardingCount
              = e.myForwardingCount
         /\ setRating(e, SEC_CHANCE_NEW_RATING).theirForwardingCount
              = e.theirForwardingCount
BY BankConstants DEF BankEntry, setRating

-----------------------------------------------------------------------------

\* Two entries with the same fields are one entry.
LEMMA SameEntry ==
  ASSUME NEW e \in BankEntry, NEW f \in BankEntry,
         e.amount = f.amount, e.rating = f.rating,
         e.myForwardingCount = f.myForwardingCount,
         e.theirForwardingCount = f.theirForwardingCount
  PROVE  e = f
BY DEF BankEntry

\* One packet more in handleTap's loop is one more in PositiveEvents: the caps
\* on chips and rating bite at the same packet, whatever came before it.
THEOREM TapLoop ==
  ASSUME NEW e \in BankEntry, NEW k \in Nat
  PROVE  /\ PositiveEvents(e, 0) = e
         /\ PositiveEvents(e, k + 1)
              = registerPositiveEvent(incChipAmount(PositiveEvents(e, k)))
<1>1. /\ e.amount \in Int
      /\ e.amount <= MAX_CHIPCOUNT
      /\ e.rating \in Int
      /\ e.rating <= GOOD_RATING_THRESHOLD
      /\ e.theirForwardingCount \in Nat
  BY BankConstants DEF BankEntry, MIN_CHIPCOUNT
<1>2. ASSUME NEW n \in Nat
      PROVE  /\ PositiveEvents(e, n) \in BankEntry
             /\ PositiveEvents(e, n).amount = AtMost(e.amount + n, MAX_CHIPCOUNT)
             /\ PositiveEvents(e, n).rating
                  = AtMost(e.rating + n, GOOD_RATING_THRESHOLD)
             /\ PositiveEvents(e, n).myForwardingCount = e.myForwardingCount
             /\ PositiveEvents(e, n).theirForwardingCount
                  = e.theirForwardingCount + n
  <2>1. /\ incChipCount(e, n) \in BankEntry
        /\ incChipCount(e, n).rating = e.rating
    BY IncChipType
  <2>2. PositiveEvents(e, n).rating = AtMost(e.rating + n, GOOD_RATING_THRESHOLD)
    BY <2>1, <1>1 DEF BankEntry, PositiveEvents, incRating, INCREASE_RATING_AMOUNT
  <2>3. QED
    BY <2>2, PositiveType
<1>3. PositiveEvents(e, 0) = e
  BY <1>1, <1>2, BankConstants, SameEntry DEF AtMost
<1>4. PositiveEvents(e, k + 1)
        = registerPositiveEvent(incChipAmount(PositiveEvents(e, k)))
  <2> DEFINE p == PositiveEvents(e, k)
             q == PositiveEvents(e, k + 1)
             c == incChipAmount(p)
             r == incOneRating(c)
             s == registerPositiveEvent(c)
  <2>1. p \in BankEntry /\ q \in BankEntry
    BY <1>2
  <2>2. /\ q.amount = AtMost(e.amount + (k + 1), MAX_CHIPCOUNT)
        /\ q.rating = AtMost(e.rating + (k + 1), GOOD_RATING_THRESHOLD)
        /\ q.myForwardingCount = e.myForwardingCount
        /\ q.theirForwardingCount = e.theirForwardingCount + (k + 1)
    BY <1>2
  <2>3. /\ p.amount = AtMost(e.amount + k, MAX_CHIPCOUNT)
        /\ p.rating = AtMost(e.rating + k, GOOD_RATING_THRESHOLD)
        /\ p.myForwardingCount = e.myForwardingCount
        /\ p.theirForwardingCount = e.theirForwardingCount + k
    BY <1>2
  <2> HIDE DEF p, q
  <2>4. /\ c \in BankEntry
        /\ c.amount = AtMost(p.amount + 1, MAX_CHIPCOUNT)
        /\ c.rating = p.rating
        /\ c.myForwardingCount = p.myForwardingCount
        /\ c.theirForwardingCount = p.theirForwardingCount
    BY <2>1, BankConstants DEF BankEntry, incChipAmount, AtMost,
       INCREMENT_AMOUNT, MIN_CHIPCOUNT
  <2> HIDE DEF c
  <2>5. /\ r \in BankEntry
        /\ r.amount = c.amount
        /\ r.rating = AtMost(c.rating + 1, GOOD_RATING_THRESHOLD)
        /\ r.myForwardingCount = c.myForwardingCount
        /\ r.theirForwardingCount = c.theirForwardingCount
    BY <2>4, BankConstants DEF BankEntry, incOneRating, AtMost,
       INCREASE_RATING_AMOUNT
  <2>6. s = [r EXCEPT !.theirForwardingCount = @ + 1]
    BY DEF registerPositiveEvent
  <2> HIDE DEF r, s
  <2>7. /\ s \in BankEntry
        /\ s.amount = r.amount
        /\ s.rating = r.rating
        /\ s.myForwardingCount = r.myForwardingCount
        /\ s.theirForwardingCount = r.theirForwardingCount + 1
    BY <2>5, <2>6 DEF BankEntry
  <2>8. s.amount = q.amount
    BY <1>1, <2>2, <2>3, <2>4, <2>5, <2>7, BankConstants DEF AtMost
  <2>9. s.rating = q.rating
    BY <1>1, <2>2, <2>3, <2>4, <2>5, <2>7, BankConstants DEF AtMost
  <2>10. /\ s.myForwardingCount = q.myForwardingCount
         /\ s.theirForwardingCount = q.theirForwardingCount
    BY <1>1, <2>2, <2>3, <2>4, <2>5, <2>7
  <2>11. q = s
    BY <2>1, <2>7, <2>8, <2>9, <2>10, SameEntry
  <2>12. QED
    BY <2>11 DEF q, s, c, p
<1>5. QED
  BY <1>3, <1>4

\* One packet more in checkPacketCache's loop is one more in NegativeEvents, and
\* no later packet takes a node back off the faulty rating: whether the loop
\* lists the node shows in the rating at its end.
THEOREM BlameLoop ==
  ASSUME NEW e \in BankEntry, NEW k \in Nat
  PROVE  /\ NegativeEvents(e, 0) = e
         /\ NegativeEvents(e, k + 1)
              = registerNegativeEvent(NegativeEvents(e, k))
         /\ NegativeEvents(e, k).rating = FAULTY_RATING_THRESHOLD
              => NegativeEvents(e, k + 1).rating = FAULTY_RATING_THRESHOLD
<1>1. /\ e.rating \in Int
      /\ e.rating >= FAULTY_RATING_THRESHOLD
  BY BankConstants DEF BankEntry
<1>2. ASSUME NEW n \in Nat
      PROVE  /\ NegativeEvents(e, n) \in BankEntry
             /\ NegativeEvents(e, n).rating =
                  IF Blamable(e)
                  THEN AtLeast(e.rating - n * 2, FAULTY_RATING_THRESHOLD)
                  ELSE e.rating
             /\ NegativeEvents(e, n).amount = e.amount
             /\ NegativeEvents(e, n).myForwardingCount = e.myForwardingCount
             /\ NegativeEvents(e, n).theirForwardingCount
                  = e.theirForwardingCount
  <2>1. NegativeEvents(e, n).rating =
          IF Blamable(e) THEN AtLeast(e.rating - n * 2, FAULTY_RATING_THRESHOLD)
          ELSE e.rating
    BY DEF BankEntry, NegativeEvents, decRating, DECREASE_RATING_AMOUNT
  <2>2. QED
    BY <2>1, NegativeType
<1>3. NegativeEvents(e, 0) = e
  BY <1>1, <1>2, BankConstants, SameEntry DEF AtLeast
<1> DEFINE p == NegativeEvents(e, k)
           q == NegativeEvents(e, k + 1)
           s == registerNegativeEvent(p)
<1>4. p \in BankEntry /\ q \in BankEntry
  BY <1>2
<1>5. /\ q.amount = p.amount
      /\ q.myForwardingCount = p.myForwardingCount
      /\ q.theirForwardingCount = p.theirForwardingCount
      /\ p.myForwardingCount = e.myForwardingCount
      /\ p.theirForwardingCount = e.theirForwardingCount
      /\ p.rating = IF Blamable(e)
                    THEN AtLeast(e.rating - k * 2, FAULTY_RATING_THRESHOLD)
                    ELSE e.rating
      /\ q.rating = IF Blamable(e)
                    THEN AtLeast(e.rating - (k + 1) * 2, FAULTY_RATING_THRESHOLD)
                    ELSE e.rating
  BY <1>2
<1> HIDE DEF p, q
<1>6. Blamable(p) <=> Blamable(e)
  BY <1>5 DEF Blamable
<1>7. q.rating = IF Blamable(p) /\ p.rating > FAULTY_RATING_THRESHOLD
                 THEN AtLeast(p.rating - 2, FAULTY_RATING_THRESHOLD)
                 ELSE p.rating
  BY <1>1, <1>5, <1>6, BankConstants DEF AtLeast
<1>8. /\ s \in BankEntry
      /\ s.amount = p.amount
      /\ s.myForwardingCount = p.myForwardingCount
      /\ s.theirForwardingCount = p.theirForwardingCount
      /\ s.rating = IF Blamable(p) /\ p.rating > FAULTY_RATING_THRESHOLD
                    THEN AtLeast(p.rating - 2, FAULTY_RATING_THRESHOLD)
                    ELSE p.rating
  BY <1>4, BankConstants DEF BankEntry, registerNegativeEvent, decOneRating,
     AtLeast, DECREASE_RATING_AMOUNT
<1> HIDE DEF s
<1>9. q = s
  BY <1>4, <1>5, <1>7, <1>8, SameEntry
<1>10. p.rating = FAULTY_RATING_THRESHOLD => q.rating = FAULTY_RATING_THRESHOLD
  BY <1>7, BankConstants
<1>11. QED
  BY <1>3, <1>9, <1>10 DEF p, q, s

=============================================================================
