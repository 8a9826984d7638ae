---------------------------- MODULE TimerProofs -----------------------------
(***************************************************************************)
(* Theorems about the two modules that timers of the agent drive.  About   *)
(* SendBuffer, for every buffer size, every timeout and every period of    *)
(* the backoff: its types, that packets wait no longer than they should,   *)
(* that none waits beside a route the agent asked for, that each is asked  *)
(* for in time, and that the oldest goes first.  About FaultyTimer, for    *)
(* every schedule: its types, and that the node is faulty by the schedule. *)
(***************************************************************************)
EXTENDS SendBuffer, FaultyTimer, SequenceTheorems, WellFoundedInduction, TLAPS

\* The assumptions about the constants, in the form the provers need them.
LEMMA BufferConstants ==
  /\ BufSize \in Nat /\ BufSize > 0
  /\ SendTimeout \in Nat /\ Period \in Nat /\ MaxPeriod \in Nat
  /\ MaxOutstanding \in Nat /\ MaxRequests \in Nat
  /\ 0 < Period /\ Period <= MaxPeriod /\ MaxPeriod < SendTimeout
  /\ 0 < MaxOutstanding /\ MaxOutstanding <= 15
  /\ Empty \notin Packet
BY SendBufferAssumption, EmptyAssumption

-----------------------------------------------------------------------------
(* The inductive invariants *)

\* The buffer check of this tick has passed slot c.
Swept(c) == checked \/ (loop = "check" /\ c < cursor)

\* A packet that the check of this tick has passed is not too old, and every
\* other packet is so by a tick at most.
Timely ==
  \A c \in Slot : sendBuf[c] # Empty =>
    sendBuf[c].age <= IF Swept(c) THEN SendTimeout ELSE SendTimeout + 1

\* How long a packet has waited for a request, less an interval for each that
\* was lost.
Unpaid(p) == p.quiet - MaxPeriod * p.lost

\* A request for a packet is due now, or the last one is as long ago as the wait.
Awaited(p, e) == Due(e) \/ Lower(Unpaid(p), MaxPeriod) <= e.since

\* The wait is no longer than the longest interval, and shorter once the check has
\* passed the packet; it began when the packet came, or later.
Asked ==
  \A c \in Slot : sendBuf[c] # Empty =>
    /\ Awaited(sendBuf[c], rq[sendBuf[c].dest])
    /\ Unpaid(sendBuf[c]) <= IF Swept(c) THEN MaxPeriod - 1 ELSE MaxPeriod
    /\ sendBuf[c].quiet <= sendBuf[c].age

\* Nothing has waited for longer than the agent runs: a route reply that puts
\* last_rt_req back to 0.0 does not put it before a packet's arrival then.
Early ==
  now < Period => \A c \in Slot : sendBuf[c] # Empty => sendBuf[c].age <= now

\* The slots that the running loop has passed hold no packet with a route.
Emptied ==
  loop \in {"check", "accept"} =>
    \A c \in Slot : c < cursor /\ sendBuf[c] # Empty => sendBuf[c].dest \notin routes

IInv == TypeOK /\ Timely /\ Asked /\ Early /\ Emptied /\ RoutedMeansOverheard

-----------------------------------------------------------------------------
(* The operators *)

\* An interval of the backoff is a number and no longer than the longest one;
\* the first interval is the period.
LEMMA IntervalBounded ==
  ASSUME NEW e \in Entry
  PROVE  /\ Interval(e) \in Nat
         /\ Interval(e) <= MaxPeriod
         /\ e.outstanding = 0 => Interval(e) <= Period
<1>1. e.outstanding \in 0 .. 15
  BY BufferConstants DEF Entry
<1>2. 4 ^ e.outstanding \in Nat
  BY <1>1, PowersOfFour
<1>3. e.outstanding = 0 => 4 ^ e.outstanding = 1
  BY PowersOfFour
<1> DEFINE f == 4 ^ e.outstanding
<1>4. Interval(e) = Lower(f * Period, MaxPeriod)
  BY DEF Interval
<1> HIDE DEF f
<1>5. f \in Nat /\ (e.outstanding = 0 => f = 1)
  BY <1>2, <1>3 DEF f
<1>6. f * Period \in Nat /\ (e.outstanding = 0 => f * Period = Period)
  BY <1>5, BufferConstants
<1>7. QED
  BY <1>4, <1>6, BufferConstants DEF Lower

\* An attempt starts the next interval of the entry.
LEMMA AttemptType ==
  ASSUME NEW e \in Entry
  PROVE  Attempt(e) \in Entry /\ Attempt(e).since = 0
BY BufferConstants DEF Entry, Attempt, Lower

\* A new entry is an entry, and its first request is due.
LEMMA NewEntryType == NewEntry \in Entry /\ Due(NewEntry)
<1>1. NewEntry \in Entry /\ NewEntry.outstanding = 0 /\ NewEntry.since = Period
  BY BufferConstants DEF NewEntry, Entry
<1>2. QED
  BY <1>1, IntervalBounded DEF Due

\* A request that is sent, or lost, leaves all but the history of the packets for
\* its destination alone.
LEMMA TurnSlots ==
  ASSUME NEW b \in [Slot -> Packet \cup {Empty}], NEW d,
         NEW t \in {Sent(b, d), Lost(b, d)}, NEW c \in Slot
  PROVE  /\ t[c] \in Packet \cup {Empty}
         /\ t[c] = Empty <=> b[c] = Empty
         /\ b[c] # Empty => /\ t[c].dest = b[c].dest /\ t[c].age = b[c].age
                            /\ b[c].dest # d => t[c] = b[c]
                            /\ b[c].dest = d /\ t = Sent(b, d) =>
                                 t[c].quiet = 0 /\ t[c].lost = 0
                            /\ b[c].dest = d /\ t = Lost(b, d) =>
                                 t[c].quiet = b[c].quiet /\ t[c].lost = b[c].lost + 1
<1>1. CASE ~ForDest(b, c, d)
  <2>1. t[c] = b[c]
    BY <1>1 DEF Sent, Lost
  <2>2. QED
    BY <1>1, <2>1 DEF ForDest
<1>2. CASE ForDest(b, c, d)
  <2> DEFINE x == b[c]
             y == [x EXCEPT !.quiet = 0]
             u == [y EXCEPT !.lost = 0]
             v == [x EXCEPT !.lost = @ + 1]
  <2>1. x \in Packet /\ x # Empty /\ x.dest = d
    BY <1>2 DEF ForDest
  <2>2. y \in Packet /\ y.dest = x.dest /\ y.age = x.age /\ y.quiet = 0
    BY <2>1 DEF Packet
  <2>3. u = [x EXCEPT !.quiet = 0, !.lost = 0]
    OBVIOUS
  <2> HIDE DEF y
  <2>4. u \in Packet /\ u.dest = x.dest /\ u.age = x.age /\ u.quiet = 0 /\ u.lost = 0
    BY <2>2 DEF Packet
  <2>5. /\ v \in Packet /\ v.dest = x.dest /\ v.age = x.age
        /\ v.quiet = x.quiet /\ v.lost = x.lost + 1
    BY <2>1 DEF Packet
  <2> HIDE DEF u, v
  <2>6. Sent(b, d)[c] = u /\ Lost(b, d)[c] = v
    BY <1>2, <2>3 DEF Sent, Lost, v
  <2>7. u # Empty /\ v # Empty
    BY <2>4, <2>5, BufferConstants
  <2>8. CASE t = Sent(b, d)
    <3>1. t[c] = u
      BY <2>6, <2>8
    <3>2. t = Lost(b, d) => u = v
      BY <2>6, <2>8
    <3>3. QED
      BY <2>1, <2>4, <2>5, <2>7, <3>1, <3>2
  <2>9. CASE t = Lost(b, d)
    <3>1. t[c] = v
      BY <2>6, <2>9
    <3>2. t = Sent(b, d) => u = v
      BY <2>6, <2>9
    <3>3. QED
      BY <2>1, <2>4, <2>5, <2>7, <3>1, <3>2
  <2>10. QED
    BY <2>8, <2>9
<1>3. QED
  BY <1>1, <1>2

\* The buffer stays a buffer.
LEMMA TurnType ==
  ASSUME NEW b \in [Slot -> Packet \cup {Empty}], NEW d,
         NEW t \in {Sent(b, d), Lost(b, d)}
  PROVE  t \in [Slot -> Packet \cup {Empty}]
<1>1. \A c \in Slot : t[c] \in Packet \cup {Empty}
  BY TurnSlots
<1>2. t = [c \in Slot |-> t[c]]
  BY DEF Sent, Lost
<1>3. QED
  BY <1>1, <1>2

\* A packet that has just come, or for whose destination a request has just been
\* sent or lost, is owed none.  A tick adds one to what a packet has waited.
LEMMA UnpaidSteps ==
  /\ \A p \in Packet : Unpaid(p) \in Int /\ Unpaid(p) <= p.quiet
  /\ \A p, q \in Packet :
       /\ q.quiet = p.quiet /\ q.lost = p.lost + 1 => Unpaid(q) = Unpaid(p) - MaxPeriod
       /\ q.quiet = p.quiet /\ q.lost = p.lost => Unpaid(q) = Unpaid(p)
       /\ q.quiet = p.quiet + 1 /\ q.lost = p.lost => Unpaid(q) = Unpaid(p) + 1
<1>1. ASSUME NEW m \in Nat, NEW k \in Nat
      PROVE  m * k \in Nat /\ m * (k + 1) = m * k + m
  BY <1>1
<1>2. ASSUME NEW p \in Packet
      PROVE  p.quiet \in Nat /\ p.lost \in Nat /\ MaxPeriod * p.lost \in Nat
               /\ MaxPeriod * (p.lost + 1) = MaxPeriod * p.lost + MaxPeriod
  <2>1. p.quiet \in Nat /\ p.lost \in Nat
    BY DEF Packet
  <2>2. QED
    BY <1>1, <2>1, BufferConstants
<1>3. ASSUME NEW p \in Packet
      PROVE  Unpaid(p) \in Int /\ Unpaid(p) <= p.quiet
  <2> DEFINE x == MaxPeriod * p.lost
  <2>1. x \in Nat /\ p.quiet \in Nat /\ Unpaid(p) = p.quiet - x
    BY <1>2 DEF Unpaid
  <2> HIDE DEF x
  <2>2. QED
    BY <2>1
<1>4. ASSUME NEW p \in Packet, NEW q \in Packet
      PROVE  /\ q.quiet = p.quiet /\ q.lost = p.lost + 1 => Unpaid(q) = Unpaid(p) - MaxPeriod
             /\ q.quiet = p.quiet /\ q.lost = p.lost => Unpaid(q) = Unpaid(p)
             /\ q.quiet = p.quiet + 1 /\ q.lost = p.lost => Unpaid(q) = Unpaid(p) + 1
  <2> DEFINE x == MaxPeriod * p.lost
             y == MaxPeriod * q.lost
  <2>1. /\ x \in Nat /\ y \in Nat /\ p.quiet \in Nat /\ q.quiet \in Nat
        /\ q.lost = p.lost => y = x
        /\ q.lost = p.lost + 1 => y = x + MaxPeriod
        /\ Unpaid(p) = p.quiet - x /\ Unpaid(q) = q.quiet - y
    BY <1>2 DEF Unpaid
  <2> HIDE DEF x, y
  <2>2. QED
    BY <2>1, BufferConstants
<1>5. QED
  BY <1>3, <1>4

\* A packet that is put in the buffer leaves it a buffer.
LEMMA StickType ==
  ASSUME NEW b \in [Slot -> Packet \cup {Empty}], NEW d \in Dest, NEW own \in BOOLEAN
  PROVE  Stick(b, d, own) \in [Slot -> Packet \cup {Empty}]
<1>1. [dest |-> d, own |-> own, age |-> 0, quiet |-> 0, lost |-> 0] \in Packet
  BY DEF Packet
<1>2. QED
  BY <1>1 DEF Stick

-----------------------------------------------------------------------------
(* Types *)

\* A request, sent or refused, keeps the entries entries.
LEMMA RequestType ==
  ASSUME TypeOK, NEW d \in Dest, NEW own, Request(d, own) \/ Refuse(d, own)
  PROVE  rq' \in [Dest -> Entry]
<1>1. rq \in [Dest -> Entry]
  BY DEF TypeOK
<1>2. [rq[d] EXCEPT !.typed = TRUE] \in Entry
  BY <1>1 DEF Entry
<1>3. QED
  BY <1>1, <1>2, AttemptType DEF Request, Refuse

\* What a tick makes of a packet is a packet, older by one.
LEMMA OlderPacket ==
  ASSUME NEW p \in Packet
  PROVE  /\ [p EXCEPT !.age = @ + 1, !.quiet = @ + 1] \in Packet
         /\ [p EXCEPT !.age = @ + 1, !.quiet = @ + 1].age = p.age + 1
         /\ [p EXCEPT !.age = @ + 1, !.quiet = @ + 1].quiet = p.quiet + 1
         /\ [p EXCEPT !.age = @ + 1, !.quiet = @ + 1].lost = p.lost
         /\ [p EXCEPT !.age = @ + 1, !.quiet = @ + 1].dest = p.dest
<1> DEFINE y == [p EXCEPT !.age = @ + 1]
           z == [y EXCEPT !.quiet = @ + 1]
<1>1. y \in Packet /\ y.age = p.age + 1 /\ y.quiet = p.quiet /\ y.lost = p.lost
        /\ y.dest = p.dest
  BY DEF Packet
<1>2. [p EXCEPT !.age = @ + 1, !.quiet = @ + 1] = z
  BY DEF Packet
<1> HIDE DEF y
<1>3. z \in Packet /\ z.age = y.age /\ z.quiet = y.quiet + 1 /\ z.lost = y.lost
        /\ z.dest = y.dest
  BY <1>1 DEF Packet
<1> HIDE DEF z
<1>4. QED
  BY <1>1, <1>2, <1>3

\* A tick makes every packet and every entry older.
LEMMA TickType ==
  ASSUME TypeOK, Tick
  PROVE  /\ sendBuf' \in [Slot -> Packet \cup {Empty}]
         /\ rq' \in [Dest -> Entry]
         /\ now' \in 0 .. Period
<1>1. sendBuf \in [Slot -> Packet \cup {Empty}] /\ rq \in [Dest -> Entry] /\ now \in 0 .. Period
  BY DEF TypeOK
<1>2. ASSUME NEW c \in Slot
      PROVE  (IF sendBuf[c] = Empty THEN Empty
              ELSE [sendBuf[c] EXCEPT !.age = @ + 1, !.quiet = @ + 1]) \in Packet \cup {Empty}
  BY <1>1, OlderPacket
<1>3. ASSUME NEW d \in Dest
      PROVE  [rq[d] EXCEPT !.since = Lower(@ + 1, MaxPeriod)] \in Entry
  BY <1>1, BufferConstants DEF Entry, Lower
<1>4. QED
  <2>1. sendBuf' \in [Slot -> Packet \cup {Empty}]
    BY <1>2 DEF Tick
  <2>2. rq' \in [Dest -> Entry]
    BY <1>3 DEF Tick
  <2>3. now' = Lower(now + 1, Period)
    BY DEF Tick
  <2>4. now' \in 0 .. Period
    BY <1>1, <2>3, BufferConstants DEF Lower
  <2>5. QED
    BY <2>1, <2>2, <2>4

\* Every step keeps the types.
LEMMA TypeNext == TypeOK /\ [Next]_vars => TypeOK'
<1> SUFFICES ASSUME TypeOK, [Next]_vars
             PROVE  TypeOK'
  OBVIOUS
<1>1. /\ sendBuf \in [Slot -> Packet \cup {Empty}]
      /\ rq \in [Dest -> Entry]
      /\ routes \subseteq Dest
      /\ loop \in {"none", "check", "accept", "done"}
      /\ cursor \in 1 .. BufSize + 1
      /\ checked \in BOOLEAN
      /\ now \in 0 .. Period
      /\ overheard \subseteq Dest
  BY DEF TypeOK
<1>2. ASSUME NEW d \in Dest, SendAtOnce(d)
      PROVE  TypeOK'
  BY <1>1, <1>2 DEF SendAtOnce, UseRoute, TypeOK
<1>3. ASSUME NEW d \in Dest, DropForeign(d)
      PROVE  TypeOK'
  BY <1>1, <1>3, RequestType, TurnType DEF DropForeign, TypeOK
<1>4. ASSUME NEW d \in Dest, Evict(d)
      PROVE  TypeOK'
  BY <1>1, <1>4, NewEntryType DEF Evict, TypeOK
<1>5. ASSUME NEW d \in Dest, NEW own \in BOOLEAN, AskAndStick(d, own)
      PROVE  TypeOK'
  BY <1>1, <1>5, RequestType, TurnType, StickType DEF AskAndStick, TypeOK
<1>6. ASSUME NEW d \in Dest, NEW own \in BOOLEAN, StickOnly(d, own)
      PROVE  TypeOK'
  BY <1>1, <1>6, StickType DEF StickOnly, TypeOK
<1>7. ASSUME NEW d \in Dest, NEW R \in SUBSET Dest, StartAccept(d, R)
      PROVE  TypeOK'
  <2>1. rq' \in [Dest -> Entry]
    <3>1. [[rq[d] EXCEPT !.outstanding = 0] EXCEPT !.since = now] \in Entry
      <4>1. [rq[d] EXCEPT !.outstanding = 0] \in Entry
        BY <1>1, BufferConstants DEF Entry
      <4>2. now \in 0 .. MaxPeriod
        BY <1>1, BufferConstants
      <4>3. QED
        BY <4>1, <4>2 DEF Entry
    <3>2. rq' = [rq EXCEPT ![d] = [[rq[d] EXCEPT !.outstanding = 0] EXCEPT !.since = now]]
      BY <1>1, <1>7 DEF StartAccept
    <3>3. QED
      BY <1>1, <3>1, <3>2
  <2>2. QED
    BY <1>1, <1>7, <2>1, BufferConstants DEF StartAccept, TypeOK
<1>8. ASSUME NEW R \in SUBSET Dest, Overhear(R) \/ LoseRoutes(R)
      PROVE  TypeOK'
  BY <1>1, <1>8 DEF Overhear, LoseRoutes, TypeOK
<1>9. CASE Check
  <2>1. ASSUME At # Empty, cursor \in Slot
        PROVE  At.dest \in Dest
    BY <1>1, <2>1 DEF At, Packet
  <2>2. ASSUME NEW b \in [Slot -> Packet \cup {Empty}]
        PROVE  Free(b) \in [Slot -> Packet \cup {Empty}]
    BY DEF Free
  <2>3. ASSUME AtSlot("check") \/ AtSlot("accept") \/ AtSlot(loop)
        PROVE  cursor \in Slot /\ cursor' \in 1 .. BufSize + 1
    BY <2>3, BufferConstants DEF AtSlot, Slot
  <2>4. CASE StartCheck
    BY <1>1, <2>4, BufferConstants DEF StartCheck, TypeOK
  <2>5. CASE SkipEmpty
    BY <1>1, <2>3, <2>5 DEF SkipEmpty, TypeOK
  <2>6. CASE CheckTimeout
    BY <1>1, <2>2, <2>3, <2>6 DEF CheckTimeout, TypeOK
  <2>7. CASE CheckSend
    BY <1>1, <2>2, <2>3, <2>7 DEF CheckSend, UseRoute, TypeOK
  <2>8. CASE CheckAsk
    BY <1>1, <2>1, <2>3, <2>8, RequestType, TurnType DEF CheckAsk, TypeOK
  <2>9. CASE CheckDropForeign
    BY <1>1, <2>1, <2>2, <2>3, <2>9, RequestType, TurnType DEF CheckDropForeign, TypeOK
  <2>10. CASE CheckWait
    BY <1>1, <2>3, <2>10 DEF CheckWait, TypeOK
  <2>11. QED
    BY <1>9, <2>4, <2>5, <2>6, <2>7, <2>8, <2>9, <2>10 DEF Check
<1>10. CASE Accept
  <2>1. CASE AcceptSend
    BY <1>1, <2>1, BufferConstants DEF AcceptSend, AtSlot, Slot, UseRoute, Free, TypeOK
  <2>2. CASE AcceptWait
    BY <1>1, <2>2, BufferConstants DEF AcceptWait, AtSlot, Slot, TypeOK
  <2>3. CASE EndLoop
    BY <1>1, <2>3, BufferConstants DEF EndLoop, TypeOK
  <2>4. QED
    BY <1>10, <2>1, <2>2, <2>3 DEF Accept
<1>11. CASE Terminate
  BY <1>1, <1>11 DEF Terminate, TypeOK
<1>12. CASE Tick
  BY <1>1, <1>12, TickType DEF Tick, TypeOK
<1>13. CASE UNCHANGED vars
  BY <1>1, <1>13 DEF vars, TypeOK
<1>14. QED
  BY <1>2, <1>3, <1>4, <1>5, <1>6, <1>7, <1>8, <1>9, <1>10, <1>11, <1>12, <1>13 DEF Next

\* The initial state has its types.
LEMMA TypeInit == Init => TypeOK
<1>1. ASSUME Init
      PROVE  rq \in [Dest -> Entry] /\ sendBuf \in [Slot -> Packet \cup {Empty}]
  BY <1>1, NewEntryType DEF Init
<1>2. 1 \in 1 .. BufSize + 1 /\ 0 \in 0 .. Period
  BY BufferConstants
<1>3. QED
  BY <1>1, <1>2 DEF Init, TypeOK

\* The state keeps its types: the buffer its slots, the backoff its bounds.
THEOREM TypeCorrect == Spec => []TypeOK
BY TypeInit, TypeNext, PTL DEF Spec

-----------------------------------------------------------------------------
(* What a step does to one slot *)

\* The entry of a reply's destination, its backoff begun again.
Restarted(e) == [e EXCEPT !.outstanding = 0, !.since = now]

\* A request for the packet in slot c has been sent, or lost.
Relieved(c) ==
  \/ sendBuf'[c].quiet = 0
  \/ sendBuf'[c].quiet = sendBuf[c].quiet /\ sendBuf'[c].lost = sendBuf[c].lost + 1

\* The packet in slot c stays, and its destination's entry changes by a request
\* only if the packet's history says so.
Kept(c) ==
  /\ sendBuf[c] # Empty
  /\ sendBuf'[c].dest = sendBuf[c].dest
  /\ sendBuf'[c].age = sendBuf[c].age
  /\ now' = now
  /\ \/ Relieved(c)
     \/ /\ sendBuf'[c].quiet = sendBuf[c].quiet
        /\ sendBuf'[c].lost = sendBuf[c].lost
        /\ rq'[sendBuf[c].dest] \in
             {rq[sendBuf[c].dest], NewEntry, Restarted(rq[sendBuf[c].dest])}

\* A packet without a route comes to the slot that is given up, c.
Arrived(c) ==
  /\ c = Victim
  /\ sendBuf'[c].age = 0
  /\ sendBuf'[c].quiet = 0
  /\ sendBuf'[c].dest \notin routes
  /\ loop = "none"
  /\ UNCHANGED <<routes, loop, cursor, checked, now, overheard>>

\* The packet in slot c gets older.
Aged(c) ==
  /\ Tick
  /\ sendBuf[c] # Empty
  /\ sendBuf'[c] = [sendBuf[c] EXCEPT !.age = @ + 1, !.quiet = @ + 1]

\* A request, sent or refused, changes the entry of d only.
LEMMA RequestOther ==
  ASSUME TypeOK, NEW d \in Dest, NEW own, Request(d, own) \/ Refuse(d, own),
         NEW e \in Dest, e # d
  PROVE  rq'[e] = rq[e]
<1>1. rq \in [Dest -> Entry]
  BY DEF TypeOK
<1>2. QED
  BY <1>1 DEF Request, Refuse

\* A request that is sent or lost keeps the packets.
LEMMA TurnKept ==
  ASSUME TypeOK, NEW d \in Dest, NEW own, Request(d, own) \/ Refuse(d, own), now' = now,
         NEW t \in {Sent(sendBuf, d), Lost(sendBuf, d)},
         NEW c \in Slot, sendBuf'[c] = t[c], sendBuf'[c] # Empty
  PROVE  Kept(c)
<1>1. sendBuf \in [Slot -> Packet \cup {Empty}]
  BY DEF TypeOK
<1>2. /\ sendBuf[c] # Empty
      /\ sendBuf'[c].dest = sendBuf[c].dest
      /\ sendBuf'[c].age = sendBuf[c].age
      /\ sendBuf[c].dest # d => sendBuf'[c] = sendBuf[c]
  BY <1>1, TurnSlots
<1>3. sendBuf[c].dest \in Dest
  BY <1>1, <1>2 DEF Packet
<1>4. CASE sendBuf[c].dest = d
  <2>1. Relieved(c)
    BY <1>1, <1>2, <1>4, TurnSlots DEF Relieved
  <2>2. QED
    BY <1>2, <2>1 DEF Kept
<1>5. CASE sendBuf[c].dest # d
  BY <1>2, <1>3, <1>5, RequestOther DEF Kept
<1>6. QED
  BY <1>4, <1>5

\* After any step a packet was in its slot before, or has just come.
LEMMA SlotStep ==
  ASSUME TypeOK, [Next]_vars, NEW c \in Slot, sendBuf'[c] # Empty
  PROVE  Kept(c) \/ Arrived(c) \/ Aged(c)
<1>1. /\ sendBuf \in [Slot -> Packet \cup {Empty}]
      /\ rq \in [Dest -> Entry]
      /\ cursor \in 1 .. BufSize + 1
  BY DEF TypeOK
<1>2. ASSUME sendBuf'[c] = sendBuf[c], now' = now, rq' = rq
      PROVE  Kept(c)
  BY <1>2 DEF Kept
<1>3. ASSUME sendBuf[c] # Empty
      PROVE  sendBuf[c].dest \in Dest
  BY <1>1, <1>3 DEF Packet
<1>4. ASSUME NEW d \in Dest, SendAtOnce(d)
      PROVE  Kept(c)
  BY <1>2, <1>4 DEF SendAtOnce
<1>5. ASSUME NEW d \in Dest, DropForeign(d)
      PROVE  Kept(c)
  BY <1>5, TurnKept DEF DropForeign
<1>6. ASSUME NEW d \in Dest, Evict(d)
      PROVE  Kept(c)
  BY <1>1, <1>3, <1>6 DEF Evict, Kept
<1>7. ASSUME NEW d \in Dest, NEW own \in BOOLEAN, AskAndStick(d, own)
      PROVE  Kept(c) \/ Arrived(c)
  <2>1. sendBuf'[c] = IF c = Victim
                      THEN [dest |-> d, own |-> own, age |-> 0, quiet |-> 0, lost |-> 0]
                      ELSE Sent(sendBuf, d)[c]
    <3>1. Sent(sendBuf, d) \in [Slot -> Packet \cup {Empty}]
      BY <1>1, TurnType
    <3>2. QED
      BY <1>7, <3>1 DEF AskAndStick, Stick
  <2>2. CASE c = Victim
    <3>1. sendBuf'[c].age = 0 /\ sendBuf'[c].quiet = 0 /\ sendBuf'[c].dest = d
      BY <2>1, <2>2
    <3>2. QED
      BY <1>7, <2>2, <3>1 DEF AskAndStick, Arrived
  <2>3. CASE c # Victim
    BY <1>7, <2>1, <2>3, TurnKept DEF AskAndStick
  <2>4. QED
    BY <2>2, <2>3
<1>8. ASSUME NEW d \in Dest, NEW own \in BOOLEAN, StickOnly(d, own)
      PROVE  Kept(c) \/ Arrived(c)
  <2>1. sendBuf'[c] = IF c = Victim
                      THEN [dest |-> d, own |-> own, age |-> 0, quiet |-> 0, lost |-> 0]
                      ELSE sendBuf[c]
    BY <1>1, <1>8 DEF StickOnly, Stick
  <2>2. CASE c = Victim
    <3>1. sendBuf'[c].age = 0 /\ sendBuf'[c].quiet = 0 /\ sendBuf'[c].dest = d
      BY <2>1, <2>2
    <3>2. QED
      BY <1>8, <2>2, <3>1 DEF StickOnly, Arrived
  <2>3. CASE c # Victim
    BY <1>2, <1>8, <2>1, <2>3 DEF StickOnly
  <2>4. QED
    BY <2>2, <2>3
<1>9. ASSUME NEW d \in Dest, NEW R \in SUBSET Dest, StartAccept(d, R)
      PROVE  Kept(c)
  <2>1. sendBuf'[c] = sendBuf[c] /\ now' = now
    BY <1>9 DEF StartAccept
  <2>2. rq' = [rq EXCEPT ![d] = Restarted(rq[d])]
    BY <1>1, <1>9 DEF StartAccept, Restarted
  <2>3. QED
    BY <1>1, <1>3, <2>1, <2>2 DEF Kept
<1>10. ASSUME NEW R \in SUBSET Dest, Overhear(R) \/ LoseRoutes(R)
      PROVE  Kept(c)
  BY <1>2, <1>10 DEF Overhear, LoseRoutes
<1>11. CASE Check
  <2>1. CASE StartCheck \/ SkipEmpty \/ CheckWait
    BY <1>2, <2>1 DEF StartCheck, SkipEmpty, CheckWait
  <2>2. CASE CheckTimeout \/ CheckSend
    <3>1. sendBuf'[c] = sendBuf[c] /\ now' = now /\ rq' = rq
      BY <1>1, <2>2 DEF CheckTimeout, CheckSend, Free
    <3>2. QED
      BY <1>2, <3>1
  <2>3. ASSUME At # Empty, cursor \in Slot
        PROVE  At.dest \in Dest
    BY <1>1, <2>3 DEF At, Packet
  <2>4. CASE CheckAsk
    BY <2>3, <2>4, TurnKept DEF CheckAsk, AtSlot
  <2>5. CASE CheckDropForeign
    <3>1. sendBuf'[c] = Lost(sendBuf, At.dest)[c]
      BY <1>1, <2>5, TurnType DEF CheckDropForeign, Free
    <3>2. QED
      BY <2>3, <2>5, <3>1, TurnKept DEF CheckDropForeign, AtSlot
  <2>6. QED
    BY <1>11, <2>1, <2>2, <2>4, <2>5 DEF Check
<1>12. CASE Accept
  <2>1. sendBuf'[c] = sendBuf[c] /\ now' = now /\ rq' = rq
    BY <1>1, <1>12 DEF Accept, AcceptSend, AcceptWait, EndLoop, Free
  <2>2. QED
    BY <1>2, <2>1
<1>13. CASE Terminate
  BY <1>13 DEF Terminate
<1>14. CASE Tick
  BY <1>14 DEF Tick, Aged
<1>15. CASE UNCHANGED vars
  BY <1>2, <1>15 DEF vars
<1>16. QED
  BY <1>4, <1>5, <1>6, <1>7, <1>8, <1>9, <1>10, <1>11, <1>12, <1>13, <1>14, <1>15 DEF Next

-----------------------------------------------------------------------------
(* Age *)

\* What has been swept is so until the tick.
LEMMA SweptStays ==
  ASSUME TypeOK, [Next]_vars, ~Tick, NEW c \in Slot, Swept(c)
  PROVE  Swept(c)'
<1>1. cursor \in 1 .. BufSize + 1 /\ checked \in BOOLEAN /\ c \in 1 .. BufSize
  BY DEF TypeOK, Slot
<1>2. CASE Check
  BY <1>1, <1>2, BufferConstants
     DEF Check, StartCheck, SkipEmpty, CheckTimeout, CheckSend, CheckAsk,
         CheckDropForeign, CheckWait, AtSlot, Swept
<1>3. CASE Accept
  BY <1>1, <1>3, BufferConstants DEF Accept, AcceptSend, AcceptWait, EndLoop, AtSlot, Swept
<1>4. CASE UNCHANGED <<loop, cursor, checked>> \/ (loop = "none" /\ checked' = checked)
  BY <1>4 DEF Swept
<1>5. QED
  BY <1>2, <1>3, <1>4
     DEF Next, SendAtOnce, DropForeign, Evict, AskAndStick, StickOnly, StartAccept,
         Overhear, LoseRoutes, Terminate, vars

\* A packet that the check has just passed is not too old, and a request for it
\* is not due or has just been made.
LEMMA SweptStep ==
  ASSUME TypeOK, [Next]_vars, NEW c \in Slot, sendBuf'[c] # Empty, ~Swept(c), Swept(c)'
  PROVE  /\ sendBuf[c] # Empty
         /\ sendBuf[c].age <= SendTimeout
         /\ sendBuf'[c].age = sendBuf[c].age
         /\ sendBuf'[c].quiet = 0 \/ ~Due(rq[sendBuf[c].dest])
<1>1. /\ sendBuf \in [Slot -> Packet \cup {Empty}]
      /\ cursor \in 1 .. BufSize + 1
      /\ checked \in BOOLEAN
      /\ c \in 1 .. BufSize
  BY DEF TypeOK, Slot
<1>2. CASE Check
  <2>1. AtSlot("check") /\ c = cursor
    BY <1>1, <1>2, BufferConstants
       DEF Check, StartCheck, SkipEmpty, CheckTimeout, CheckSend, CheckAsk,
           CheckDropForeign, CheckWait, AtSlot, Swept
  <2>2. ~SkipEmpty
    BY <2>1 DEF SkipEmpty, At
  <2>3. ASSUME NEW b \in [Slot -> Packet \cup {Empty}], sendBuf' = Free(b)
        PROVE  FALSE
    BY <2>1, <2>3 DEF Free
  <2>4. ~CheckTimeout /\ ~CheckSend /\ ~CheckDropForeign
    BY <1>1, <2>3, TurnType DEF CheckTimeout, CheckSend, CheckDropForeign
  <2>5. CASE CheckAsk
    <3>1. /\ sendBuf[c] # Empty /\ ~TimedOut(sendBuf[c])
          /\ sendBuf' = Sent(sendBuf, sendBuf[c].dest)
      BY <2>1, <2>5 DEF CheckAsk, At
    <3>2. sendBuf'[c].age = sendBuf[c].age /\ sendBuf'[c].quiet = 0
      BY <1>1, <3>1, TurnSlots
    <3>3. sendBuf[c].age \in Nat
      BY <1>1, <3>1 DEF Packet
    <3>4. QED
      BY <3>1, <3>2, <3>3, BufferConstants DEF TimedOut
  <2>6. CASE CheckWait
    <3>1. sendBuf[c] # Empty => sendBuf[c].age \in Nat
      BY <1>1 DEF Packet
    <3>2. QED
      BY <2>1, <2>6, <3>1, BufferConstants DEF CheckWait, TimedOut, At
  <2>7. CASE StartCheck
    BY <1>1, <2>1, <2>7 DEF StartCheck, AtSlot
  <2>8. QED
    BY <1>2, <2>2, <2>4, <2>5, <2>6, <2>7 DEF Check
<1>3. ~Accept
  BY <1>1, BufferConstants DEF Accept, AcceptSend, AcceptWait, EndLoop, AtSlot, Swept
<1>4. ~(loop' # "check" /\ (checked' = checked \/ ~checked'))
  BY <1>1 DEF Swept
<1>5. ~UNCHANGED <<loop, cursor, checked>>
  BY DEF Swept
<1>6. QED
  BY <1>2, <1>3, <1>4, <1>5
     DEF Next, SendAtOnce, DropForeign, Evict, AskAndStick, StickOnly, StartAccept,
         Overhear, LoseRoutes, Terminate, Tick, vars

\* Every step keeps packets in time.
LEMMA TimelyNext == TypeOK /\ Timely /\ [Next]_vars => Timely'
<1> SUFFICES ASSUME TypeOK, Timely, [Next]_vars, NEW c \in Slot, sendBuf'[c] # Empty
             PROVE  sendBuf'[c].age <= IF Swept(c)' THEN SendTimeout ELSE SendTimeout + 1
  BY DEF Timely
<1>1. sendBuf[c] # Empty => sendBuf[c].age \in Nat
  BY DEF TypeOK, Packet
<1>2. CASE Kept(c)
  BY <1>1, <1>2, SweptStep, BufferConstants DEF Timely, Kept
<1>3. CASE Arrived(c)
  BY <1>3, BufferConstants DEF Arrived
<1>4. CASE Aged(c)
  <2>1. Swept(c) /\ ~Swept(c)'
    BY <1>4 DEF Aged, Tick, Swept
  <2>2. sendBuf[c].age <= SendTimeout /\ sendBuf'[c].age = sendBuf[c].age + 1
    <3>1. sendBuf[c] \in Packet
      BY <1>4 DEF Aged, TypeOK
    <3>2. QED
      BY <1>4, <2>1, <3>1 DEF Aged, Timely, Packet
  <2>3. QED
    BY <1>1, <1>4, <2>1, <2>2, BufferConstants DEF Aged
<1>5. QED
  BY <1>2, <1>3, <1>4, SlotStep

\* A packet leaves the buffer at the first check after its time is up.
THEOREM WaitIsBounded == Spec => []WaitBounded
<1>1. Init => Timely
  BY DEF Init, Timely
<1>2. TypeOK /\ Timely => WaitBounded
  <2> SUFFICES ASSUME TypeOK, Timely, NEW c \in Slot, sendBuf[c] # Empty
               PROVE  sendBuf[c].age <= SendTimeout + 1
    BY DEF WaitBounded
  <2>1. sendBuf[c].age \in Nat
    BY DEF TypeOK, Packet
  <2>2. QED
    BY <2>1, BufferConstants DEF Timely
<1>3. QED
  BY <1>1, <1>2, TimelyNext, TypeCorrect, PTL DEF Spec

-----------------------------------------------------------------------------
(* Requests *)

\* Every step keeps packets younger than the run, while the run is young.
LEMMA EarlyNext == TypeOK /\ Early /\ [Next]_vars => Early'
<1> SUFFICES ASSUME TypeOK, Early, [Next]_vars, now' < Period,
                    NEW c \in Slot, sendBuf'[c] # Empty
             PROVE  sendBuf'[c].age <= now'
  BY DEF Early
<1>1. now \in 0 .. Period
  BY DEF TypeOK
<1>2. sendBuf[c] # Empty => sendBuf[c] \in Packet
  BY DEF TypeOK
<1>3. CASE Kept(c)
  BY <1>3 DEF Kept, Early
<1>4. CASE Arrived(c)
  BY <1>1, <1>4 DEF Arrived
<1>5. CASE Aged(c)
  <2>1. sendBuf[c].age \in Nat /\ sendBuf'[c].age = sendBuf[c].age + 1
    BY <1>2, <1>5, OlderPacket DEF Aged, Packet
  <2>2. now' = now + 1 /\ now < Period
    <3>1. now' = Lower(now + 1, Period)
      BY <1>5 DEF Aged, Tick
    <3>2. QED
      BY <1>1, <3>1, BufferConstants DEF Lower
  <2>3. sendBuf[c].age <= now
    BY <1>5, <2>2 DEF Early, Aged
  <2>4. QED
    BY <1>1, <2>1, <2>2, <2>3
<1>6. QED
  BY <1>3, <1>4, <1>5, SlotStep

\* The interval of an entry whose backoff begins again is over at once, once
\* the agent has run for a period.
LEMMA RestartedDue ==
  ASSUME TypeOK, NEW e \in Entry
  PROVE  /\ Restarted(e) \in Entry
         /\ Restarted(e).since = now
         /\ now = Period => Due(Restarted(e))
<1>1. now \in 0 .. MaxPeriod
  BY BufferConstants DEF TypeOK
<1> DEFINE z == [e EXCEPT !.outstanding = 0]
<1>2. z \in Entry /\ z.outstanding = 0
  BY BufferConstants DEF Entry
<1>3. Restarted(e) = [z EXCEPT !.since = now]
  BY DEF Restarted, Entry
<1> HIDE DEF z
<1>4. /\ Restarted(e) \in Entry
      /\ Restarted(e).since = now
      /\ Restarted(e).outstanding = 0
  BY <1>1, <1>2, <1>3 DEF Entry
<1>5. QED
  BY <1>4, IntervalBounded, BufferConstants DEF Due

\* Every step leaves a request for every packet due, or waited for.
LEMMA AskedNext == TypeOK /\ Early /\ Asked /\ [Next]_vars /\ TypeOK' => Asked'
<1> SUFFICES ASSUME TypeOK, Early, Asked, [Next]_vars, TypeOK',
                    NEW c \in Slot, sendBuf'[c] # Empty
             PROVE  /\ Awaited(sendBuf'[c], rq'[sendBuf'[c].dest])
                    /\ Unpaid(sendBuf'[c]) <= IF Swept(c)' THEN MaxPeriod - 1 ELSE MaxPeriod
                    /\ sendBuf'[c].quiet <= sendBuf'[c].age
  BY DEF Asked, Awaited, Due, Interval, Unpaid
<1> DEFINE p == sendBuf[c]
           q == sendBuf'[c]
           d == p.dest
<1>1. now \in 0 .. Period /\ rq \in [Dest -> Entry] /\ rq' \in [Dest -> Entry]
  BY DEF TypeOK
<1>2. /\ q \in Packet /\ q.quiet \in Nat /\ q.age \in Nat /\ q.dest \in Dest
      /\ Unpaid(q) \in Int /\ Unpaid(q) <= q.quiet
      /\ rq'[q.dest].since \in Nat
  <2>1. q \in Packet
    BY DEF TypeOK
  <2>2. q.quiet \in Nat /\ q.age \in Nat /\ q.dest \in Dest
    BY <2>1 DEF Packet
  <2>3. Unpaid(q) \in Int /\ Unpaid(q) <= q.quiet
    BY <2>1, UnpaidSteps
  <2>4. QED
    BY <1>1, <2>1, <2>2, <2>3 DEF Entry
<1>3. p # Empty =>
        /\ p \in Packet /\ p.quiet \in Nat /\ p.age \in Nat /\ d \in Dest
        /\ Unpaid(p) \in Int /\ Unpaid(p) <= p.quiet
        /\ rq[d] \in Entry /\ rq[d].since \in Nat /\ rq[d].since <= MaxPeriod
        /\ Awaited(p, rq[d])
        /\ Unpaid(p) <= (IF Swept(c) THEN MaxPeriod - 1 ELSE MaxPeriod)
        /\ Unpaid(p) <= MaxPeriod
        /\ p.quiet <= p.age
  <2> SUFFICES ASSUME p # Empty
               PROVE  /\ p \in Packet /\ p.quiet \in Nat /\ p.age \in Nat /\ d \in Dest
                      /\ Unpaid(p) \in Int /\ Unpaid(p) <= p.quiet
                      /\ rq[d] \in Entry /\ rq[d].since \in Nat /\ rq[d].since <= MaxPeriod
                      /\ Awaited(p, rq[d])
                      /\ Unpaid(p) <= (IF Swept(c) THEN MaxPeriod - 1 ELSE MaxPeriod)
                      /\ Unpaid(p) <= MaxPeriod
                      /\ p.quiet <= p.age
    OBVIOUS
  <2>1. p \in Packet
    BY DEF TypeOK
  <2>2. p.quiet \in Nat /\ p.age \in Nat /\ d \in Dest
    BY <2>1 DEF Packet
  <2>3. Unpaid(p) \in Int /\ Unpaid(p) <= p.quiet
    BY <2>1, UnpaidSteps
  <2>4. rq[d] \in Entry /\ rq[d].since \in Nat /\ rq[d].since <= MaxPeriod
    BY <1>1, <2>2, BufferConstants DEF Entry
  <2>5. /\ Awaited(p, rq[d])
        /\ Unpaid(p) <= (IF Swept(c) THEN MaxPeriod - 1 ELSE MaxPeriod)
        /\ p.quiet <= p.age
    BY DEF Asked
  <2> DEFINE x == Unpaid(p)
  <2>6. x \in Int /\ x <= (IF Swept(c) THEN MaxPeriod - 1 ELSE MaxPeriod)
    BY <2>3, <2>5
  <2> HIDE DEF x
  <2>7. x <= MaxPeriod
    BY <2>6, BufferConstants
  <2>8. QED
    BY <2>1, <2>2, <2>3, <2>4, <2>5, <2>7 DEF x
<1>4. ASSUME Unpaid(q) <= 0
      PROVE  /\ Awaited(q, rq'[q.dest])
             /\ Unpaid(q) <= IF Swept(c)' THEN MaxPeriod - 1 ELSE MaxPeriod
  <2> DEFINE x == Unpaid(q)
             y == rq'[q.dest].since
  <2>1. x \in Int /\ x <= 0 /\ y \in Nat
    BY <1>2, <1>4
  <2>2. Awaited(q, rq'[q.dest]) <=> Due(rq'[q.dest]) \/ Lower(x, MaxPeriod) <= y
    BY DEF Awaited
  <2> HIDE DEF x, y
  <2>3. /\ Lower(x, MaxPeriod) <= y
        /\ x <= IF Swept(c)' THEN MaxPeriod - 1 ELSE MaxPeriod
    BY <2>1, BufferConstants DEF Lower
  <2>4. QED
    BY <2>2, <2>3 DEF x
<1>5. CASE Kept(c) /\ Relieved(c)
  <2>1. p # Empty /\ q.age = p.age
    BY <1>5 DEF Kept
  <2>2. Unpaid(q) <= 0 /\ q.quiet <= q.age
    <3>1. CASE q.quiet = 0
      BY <1>2, <3>1
    <3>2. CASE q.quiet = p.quiet /\ q.lost = p.lost + 1
      <4> DEFINE x == Unpaid(p)
                 y == Unpaid(q)
      <4>1. x \in Int /\ x <= MaxPeriod /\ y = x - MaxPeriod
        BY <1>2, <1>3, <2>1, <3>2, UnpaidSteps
      <4> HIDE DEF x, y
      <4>2. y <= 0
        BY <4>1, BufferConstants
      <4>3. QED
        BY <1>3, <2>1, <3>2, <4>2 DEF y
    <3>3. QED
      BY <1>5, <3>1, <3>2 DEF Relieved
  <2>3. QED
    BY <1>4, <2>2
<1>6. CASE Kept(c) /\ ~Relieved(c)
  <2> DEFINE a == Unpaid(p)
             e == rq[d]
  <2>1. /\ p # Empty
        /\ q.dest = d /\ q.age = p.age /\ q.quiet = p.quiet /\ q.lost = p.lost
        /\ rq'[d] \in {e, NewEntry, Restarted(e)}
    BY <1>6 DEF Kept
  <2>2. Unpaid(q) = a
    BY <1>2, <1>3, <2>1, UnpaidSteps
  <2>3. Awaited(q, rq'[d])
    <3>1. CASE rq'[d] = e
      BY <1>3, <2>1, <2>2, <3>1 DEF Awaited
    <3>2. CASE rq'[d] = NewEntry
      BY <3>2, NewEntryType DEF Awaited
    <3>3. CASE rq'[d] = Restarted(e)
      <4>1. CASE now = Period
        BY <1>3, <2>1, <3>3, <4>1, RestartedDue DEF Awaited
      <4>2. CASE now < Period
        <5>1. p.age <= now
          BY <2>1, <4>2 DEF Early
        <5>2. rq'[d].since = now
          BY <1>3, <2>1, <3>3, RestartedDue
        <5>3. a \in Int /\ a <= now
          BY <1>1, <1>3, <2>1, <5>1
        <5> HIDE DEF a
        <5>4. Lower(a, MaxPeriod) <= now
          BY <1>1, <5>3, BufferConstants DEF Lower
        <5>5. QED
          BY <2>2, <5>2, <5>4 DEF Awaited
      <4>3. QED
        BY <1>1, <4>1, <4>2, BufferConstants
    <3>4. QED
      BY <2>1, <3>1, <3>2, <3>3
  <2>4. a <= IF Swept(c)' THEN MaxPeriod - 1 ELSE MaxPeriod
    <3>1. CASE Swept(c)' /\ ~Swept(c)
      <4>1. ~Due(e)
        BY <1>6, <2>1, <3>1, SweptStep DEF Relieved
      <4>2. a \in Int /\ a <= MaxPeriod /\ Lower(a, MaxPeriod) <= e.since
        BY <1>3, <2>1, <4>1 DEF Awaited
      <4>3. e.since \in Nat /\ e.since < MaxPeriod
        <5>1. e \in Entry /\ e.since \in Nat
          BY <1>3, <2>1
        <5>2. Interval(e) \in Nat /\ Interval(e) <= MaxPeriod
          BY <5>1, IntervalBounded
        <5>3. ~(Interval(e) <= e.since)
          BY <4>1 DEF Due
        <5> HIDE DEF e
        <5>4. QED
          BY <5>1, <5>2, <5>3, BufferConstants
      <4> HIDE DEF a, e
      <4>4. a <= MaxPeriod - 1
        BY <4>2, <4>3, BufferConstants DEF Lower
      <4>5. QED
        BY <3>1, <4>4
    <3>2. CASE ~(Swept(c)' /\ ~Swept(c))
      BY <1>3, <2>1, <3>2
    <3>3. QED
      BY <3>1, <3>2
  <2>5. q.quiet <= q.age
    BY <1>3, <2>1
  <2>6. QED
    BY <2>1, <2>2, <2>3, <2>4, <2>5
<1>7. CASE Arrived(c)
  <2>1. q.age = 0 /\ q.quiet = 0
    BY <1>7 DEF Arrived
  <2>2. Unpaid(q) <= 0
    BY <1>2, <2>1
  <2>3. QED
    BY <1>4, <2>1, <2>2
<1>8. CASE Aged(c)
  <2> DEFINE a == Unpaid(p)
             e == rq[d]
             f == rq'[d]
  <2>1. Swept(c) /\ ~Swept(c)'
    BY <1>8 DEF Aged, Tick, Swept
  <2>2. p # Empty /\ q = [p EXCEPT !.age = @ + 1, !.quiet = @ + 1]
    BY <1>8 DEF Aged
  <2>3. q.dest = d /\ q.age = p.age + 1 /\ q.quiet = p.quiet + 1 /\ q.lost = p.lost
    BY <1>3, <2>2 DEF Packet
  <2>4. Unpaid(q) = a + 1 /\ a \in Int
    BY <1>2, <1>3, <2>2, <2>3, UnpaidSteps
  <2>5. f = [e EXCEPT !.since = Lower(@ + 1, MaxPeriod)]
    BY <1>3, <1>8, <2>2 DEF Aged, Tick
  <2>6. f.outstanding = e.outstanding /\ f.since = Lower(e.since + 1, MaxPeriod)
    BY <1>3, <2>2, <2>5 DEF Entry
  <2>7. /\ Interval(f) = Interval(e) /\ Interval(e) \in Nat /\ Interval(e) <= MaxPeriod
        /\ e.since \in Nat /\ e.since <= MaxPeriod
    BY <1>3, <2>2, <2>6, IntervalBounded DEF Interval
  <2>8. Awaited(p, e) /\ a <= MaxPeriod - 1 /\ p.quiet <= p.age
    BY <1>3, <2>1, <2>2
  <2>9. Due(f) \/ Lower(a + 1, MaxPeriod) <= f.since
    <3>1. CASE Due(e)
      <4>1. Interval(e) <= e.since
        BY <3>1 DEF Due
      <4>2. Interval(e) <= Lower(e.since + 1, MaxPeriod)
        BY <2>7, <4>1, BufferConstants DEF Lower
      <4>3. QED
        BY <2>6, <2>7, <4>2 DEF Due
    <3>2. CASE Lower(a, MaxPeriod) <= e.since
      <4> DEFINE s == e.since
      <4>1. a \in Int /\ s \in Nat /\ s <= MaxPeriod /\ Lower(a, MaxPeriod) <= s
        BY <2>4, <2>7, <3>2
      <4> HIDE DEF a, s
      <4>2. Lower(a + 1, MaxPeriod) <= Lower(s + 1, MaxPeriod)
        BY <4>1, BufferConstants DEF Lower
      <4>3. QED
        BY <2>6, <4>2 DEF s
    <3>3. QED
      BY <2>8, <3>1, <3>2 DEF Awaited
  <2>10. Awaited(q, f)
    BY <2>4, <2>9 DEF Awaited
  <2>11. a + 1 <= MaxPeriod
    <3> HIDE DEF a
    <3>1. QED
      BY <2>4, <2>8, BufferConstants
  <2>12. q.quiet <= q.age
    BY <1>3, <2>2, <2>3, <2>8
  <2>13. QED
    BY <2>1, <2>3, <2>4, <2>10, <2>11, <2>12
<1>9. QED
  BY <1>5, <1>6, <1>7, <1>8, SlotStep

\* A packet never waits for longer than the longest interval without a request for
\* its destination being sent, but for an interval more for each request that was
\* lost on a packet that is refused.
THEOREM NobodyIsForgotten == Spec => []NobodyForgotten
<1>1. Init => Early /\ Asked
  BY DEF Init, Early, Asked
<1>2. TypeOK /\ Asked => NobodyForgotten
  <2> SUFFICES ASSUME TypeOK, Asked, NEW c \in Slot, sendBuf[c] # Empty
               PROVE  sendBuf[c].quiet <= MaxPeriod * (sendBuf[c].lost + 1)
    BY DEF NobodyForgotten
  <2> DEFINE p == sendBuf[c]
             x == MaxPeriod * p.lost
  <2>1. p.quiet \in Nat /\ p.lost \in Nat
    BY DEF TypeOK, Packet
  <2>2. x \in Nat /\ MaxPeriod * (p.lost + 1) = x + MaxPeriod
    BY <2>1, BufferConstants
  <2>3. p.quiet - x <= MaxPeriod - 1 \/ p.quiet - x <= MaxPeriod
    BY DEF Asked, Unpaid
  <2> HIDE DEF x, p
  <2>4. p.quiet <= x + MaxPeriod
    BY <2>1, <2>2, <2>3, BufferConstants
  <2>5. QED
    BY <2>2, <2>4 DEF p
<1>3. QED
  BY <1>1, <1>2, EarlyNext, AskedNext, TypeCorrect, PTL DEF Spec

-----------------------------------------------------------------------------
(* Routes *)

\* Every step keeps packets that have a route in front of the running loop or,
\* when none runs, among those whose route was overheard.
LEMMA EmptiedNext ==
  TypeOK /\ Emptied /\ RoutedMeansOverheard /\ [Next]_vars => Emptied' /\ RoutedMeansOverheard'
<1> SUFFICES ASSUME TypeOK, Emptied, RoutedMeansOverheard, [Next]_vars,
                    NEW c \in Slot, sendBuf'[c] # Empty, sendBuf'[c].dest \in routes'
             PROVE  /\ loop' \in {"check", "accept"} => ~(c < cursor')
                    /\ loop' = "none" => sendBuf'[c].dest \in overheard'
  BY DEF Emptied, RoutedMeansOverheard
<1> DEFINE Goal == /\ loop' \in {"check", "accept"} => ~(c < cursor')
                   /\ loop' = "none" => sendBuf'[c].dest \in overheard'
<1>1. /\ cursor \in 1 .. BufSize + 1
      /\ c \in 1 .. BufSize
      /\ sendBuf \in [Slot -> Packet \cup {Empty}]
  BY DEF TypeOK, Slot
<1>2. CASE Arrived(c)
  BY <1>2 DEF Arrived
<1>3. ASSUME sendBuf[c] # Empty, sendBuf'[c].dest = sendBuf[c].dest
      PROVE  Goal
  <2>1. CASE loop = "none" /\ loop' = "none" /\ routes' \subseteq routes
               /\ overheard' = overheard
    BY <1>3, <2>1 DEF RoutedMeansOverheard
  <2>2. ASSUME NEW R \in SUBSET Dest, Overhear(R)
        PROVE  Goal
    BY <1>3, <2>2 DEF Overhear, RoutedMeansOverheard
  <2>3. CASE loop' \in {"check", "accept"} /\ cursor' = 1
    BY <1>1, <2>3
  <2>4. CASE EndLoop
    BY <1>1, <1>3, <2>4, BufferConstants DEF EndLoop, Emptied
  <2>5. CASE /\ AtSlot(loop) /\ loop' = loop /\ loop \in {"check", "accept"}
             /\ routes' \subseteq routes
    <3>1. CASE c # cursor
      BY <1>1, <1>3, <2>5, <3>1 DEF Emptied, AtSlot
    <3>2. CASE c = cursor
      <4>1. At # Empty /\ At.dest \in routes' /\ At.dest \in routes
        BY <1>3, <2>5, <3>2 DEF At
      <4>2. ASSUME NEW b \in [Slot -> Packet \cup {Empty}], sendBuf' = Free(b)
            PROVE  FALSE
        BY <3>2, <4>2 DEF Free
      <4>3. ~(CheckTimeout \/ CheckSend \/ CheckDropForeign \/ AcceptSend)
        BY <1>1, <4>2, TurnType
           DEF CheckTimeout, CheckSend, CheckDropForeign, AcceptSend
      <4>4. ~(SkipEmpty \/ CheckAsk \/ CheckWait \/ AcceptWait)
        BY <4>1 DEF SkipEmpty, CheckAsk, CheckWait, AcceptWait
      <4>5. CASE StartCheck
        BY <2>5, <4>5 DEF StartCheck
      <4>6. CASE loop = "none"
        BY <2>5, <4>6
      <4>7. CASE UNCHANGED vars
        BY <1>1, <2>5, <4>7 DEF AtSlot, vars
      <4>8. QED
        BY <2>4, <2>5, <4>3, <4>4, <4>5, <4>6, <4>7
           DEF Next, SendAtOnce, DropForeign, Evict, AskAndStick, StickOnly, StartAccept,
               Overhear, LoseRoutes, Terminate, Tick, Check, Accept
    <3>3. QED
      BY <3>1, <3>2
  <2>6. CASE UNCHANGED vars
    BY <1>3, <2>6 DEF vars, Emptied, RoutedMeansOverheard
  <2>7. CASE Check
    BY <2>3, <2>5, <2>7
       DEF Check, StartCheck, SkipEmpty, CheckTimeout, CheckSend, CheckAsk,
           CheckDropForeign, CheckWait, AtSlot, UseRoute
  <2>8. CASE Accept
    BY <2>4, <2>5, <2>8 DEF Accept, AcceptSend, AcceptWait, AtSlot, UseRoute
  <2>9. QED
    BY <2>1, <2>2, <2>3, <2>6, <2>7, <2>8
       DEF Next, SendAtOnce, DropForeign, Evict, AskAndStick, StickOnly, StartAccept,
           LoseRoutes, Terminate, Tick, UseRoute
<1>4. Kept(c) => sendBuf[c] # Empty /\ sendBuf'[c].dest = sendBuf[c].dest
  BY DEF Kept
<1>5. Aged(c) => sendBuf[c] # Empty /\ sendBuf'[c].dest = sendBuf[c].dest
  <2> SUFFICES ASSUME Aged(c)
               PROVE  sendBuf[c] # Empty /\ sendBuf'[c].dest = sendBuf[c].dest
    OBVIOUS
  <2>1. sendBuf[c] \in Packet
    BY <1>1 DEF Aged, Slot
  <2>2. QED
    BY <2>1 DEF Aged, Packet
<1>6. QED
  BY <1>2, <1>3, <1>4, <1>5, SlotStep

\* Between two events no packet waits for a destination that has a route, unless
\* the route was overheard since the buffer was last gone through.
THEOREM RoutedIsOverheard == Spec => []RoutedMeansOverheard
<1>1. Init => Emptied /\ RoutedMeansOverheard
  BY DEF Init, Emptied, RoutedMeansOverheard
<1>2. QED
  BY <1>1, EmptiedNext, TypeCorrect, PTL DEF Spec

-----------------------------------------------------------------------------
(* The oldest packet *)

\* A set of numbers has a least one.
LEMMA LeastNumber ==
  ASSUME NEW S, S \subseteq Nat, S # {}
  PROVE  \E x \in S : \A y \in S : x <= y
<1>1. IsWellFoundedOn(OpToRel(<, Nat), Nat)
  BY NatLessThanWellFounded
<1>2. PICK x \in S : \A y \in S : ~ (<<y, x>> \in OpToRel(<, Nat))
  BY <1>1, WFMin
<1>3. \A y \in S : ~(y < x)
  BY <1>2 DEF OpToRel
<1>4. QED
  BY <1>3

\* The first slot of a set of slots is one of them.
LEMMA FirstSlot ==
  ASSUME NEW S, S \subseteq Slot, S # {}
  PROVE  First(S) \in S
<1>1. S \subseteq Nat
  BY DEF Slot
<1>2. \E c \in S : \A k \in S : c <= k
  BY <1>1, LeastNumber
<1>3. QED
  BY <1>2 DEF First

\* One step of the scan of a full buffer, from a function f of the steps before.
ScanStep(f, c) ==
  IF c = 1 THEN 1 ELSE IF Earlier(c, f[c - 1]) THEN c ELSE f[c - 1]

\* The scan of the slots up to n has a result.
LEMMA ScanExists ==
  ASSUME NEW n \in Nat
  PROVE  \E f : f = [c \in 1 .. n |-> ScanStep(f, c)]
<1> DEFINE Fails == {m \in Nat : ~ \E f : f = [c \in 1 .. m |-> ScanStep(f, c)]}
<1>1. SUFFICES ASSUME Fails # {}
               PROVE  FALSE
  BY <1>1
<1>2. PICK m \in Fails : \A k \in Fails : m <= k
  BY <1>1, LeastNumber
<1>3. CASE m = 0
  <2> DEFINE g == [c \in 1 .. 0 |-> 1]
  <2>1. g = [c \in 1 .. 0 |-> ScanStep(g, c)]
    OBVIOUS
  <2>2. QED
    BY <1>2, <1>3, <2>1
<1>4. CASE m # 0
  <2>1. m \in Nat /\ m - 1 \in Nat /\ m - 1 \notin Fails
    BY <1>2, <1>4
  <2>2. PICK f : f = [c \in 1 .. m - 1 |-> ScanStep(f, c)]
    BY <2>1
  <2> DEFINE g == [c \in 1 .. m |-> IF c = m THEN ScanStep(f, m) ELSE f[c]]
  <2>3. ASSUME NEW c \in 1 .. m
        PROVE  g[c] = ScanStep(g, c)
    <3>1. c # 1 => c - 1 \in 1 .. m /\ c - 1 # m
      BY <2>1
    <3>2. c # 1 => g[c - 1] = f[c - 1]
      BY <3>1
    <3>3. ScanStep(g, c) = ScanStep(f, c)
      BY <3>2 DEF ScanStep
    <3>4. CASE c = m
      BY <3>3, <3>4
    <3>5. CASE c # m
      <4>1. c \in 1 .. m - 1
        BY <2>1, <3>5
      <4>2. f[c] = ScanStep(f, c)
        BY <2>2, <4>1
      <4>3. g[c] = f[c]
        BY <3>5
      <4>4. QED
        BY <3>3, <4>2, <4>3
    <3>6. QED
      BY <3>4, <3>5
  <2>4. g = [c \in 1 .. m |-> g[c]]
    OBVIOUS
  <2>5. g = [c \in 1 .. m |-> ScanStep(g, c)]
    <3> HIDE DEF g
    <3>1. QED
      BY <2>3, <2>4
  <2>6. QED
    BY <1>2, <2>5
<1>5. QED
  BY <1>3, <1>4

\* What the scan holds after slot c is its step from what it held before.
LEMMA ScanSteps ==
  ASSUME NEW c \in Slot
  PROVE  min_index[c] = ScanStep(min_index, c)
<1> DEFINE Scan(f) == f = [i \in Slot |-> ScanStep(f, i)]
<1>1. \E f : Scan(f)
  BY ScanExists, BufferConstants DEF Slot
<1>2. min_index = CHOOSE f : Scan(f)
  BY DEF min_index, ScanStep
<1>3. Scan(min_index)
  BY <1>1, <1>2
<1>4. QED
  BY <1>3

\* When the scan of a full buffer has passed slot c, it holds one of the oldest of
\* the packets up to there.
LEMMA ScanFindsOldest ==
  ASSUME TypeOK, FreeSlots = {}, NEW c \in Slot
  PROVE  /\ min_index[c] \in 1 .. c
         /\ \A k \in 1 .. c : sendBuf[k].age <= sendBuf[min_index[c]].age
<1> DEFINE Good(i) == /\ min_index[i] \in 1 .. i
                      /\ \A k \in 1 .. i : sendBuf[k].age <= sendBuf[min_index[i]].age
           Bad == {i \in Slot : ~Good(i)}
<1>1. ASSUME NEW i \in Slot
      PROVE  sendBuf[i].age \in Nat
  BY DEF TypeOK, FreeSlots, Packet
<1>2. SUFFICES ASSUME Bad # {}
               PROVE  FALSE
  BY <1>2
<1>3. PICK m \in Bad : \A i \in Bad : m <= i
  <2>1. Bad \subseteq Nat
    BY DEF Slot
  <2>2. QED
    BY <1>2, <2>1, LeastNumber
<1>4. m \in 1 .. BufSize /\ m \in Slot /\ ~Good(m)
  BY <1>3 DEF Slot
<1>5. CASE m = 1
  <2>1. min_index[1] = 1
    BY <1>4, <1>5, ScanSteps DEF ScanStep
  <2>2. QED
    BY <1>1, <1>4, <1>5, <2>1
<1>6. CASE m # 1
  <2> DEFINE j == min_index[m - 1]
  <2>1. m - 1 \in Slot /\ m - 1 \in Nat /\ m - 1 < m
    BY <1>4, <1>6, BufferConstants DEF Slot
  <2>2. Good(m - 1)
    BY <1>3, <1>4, <2>1
  <2>3. j \in 1 .. m - 1 /\ j \in Slot
    BY <1>4, <2>1, <2>2, BufferConstants DEF Slot
  <2>4. min_index[m] = IF Earlier(m, j) THEN m ELSE j
    BY <1>4, <1>6, ScanSteps DEF ScanStep
  <2>5. \A k \in 1 .. m : k = m \/ k \in 1 .. m - 1
    BY <1>4
  <2>6. \A k \in 1 .. m - 1 : k \in Slot /\ sendBuf[k].age <= sendBuf[j].age
    BY <1>4, <2>2, BufferConstants DEF Slot
  <2> HIDE DEF j
  <2>7. CASE Earlier(m, j)
    <3>1. min_index[m] = m /\ sendBuf[m].age > sendBuf[j].age
      BY <2>4, <2>7 DEF Earlier
    <3>2. \A k \in 1 .. m : sendBuf[k].age <= sendBuf[m].age
      BY <1>1, <1>4, <2>3, <2>5, <2>6, <3>1
    <3>3. QED
      BY <1>4, <3>1, <3>2
  <2>8. CASE ~Earlier(m, j)
    <3>1. min_index[m] = j /\ ~(sendBuf[m].age > sendBuf[j].age)
      BY <2>4, <2>8 DEF Earlier
    <3>2. \A k \in 1 .. m : sendBuf[k].age <= sendBuf[j].age
      BY <1>1, <1>4, <2>3, <2>5, <2>6, <3>1
    <3>3. j \in 1 .. m
      BY <1>4, <2>3
    <3>4. QED
      BY <1>4, <3>1, <3>2, <3>3
  <2>9. QED
    BY <2>7, <2>8
<1>7. QED
  BY <1>5, <1>6

\* The slot that a packet is put in is a slot, and a packet that it displaces is
\* one of the oldest in a full buffer.
LEMMA VictimOldest ==
  ASSUME TypeOK
  PROVE  /\ Victim \in Slot
         /\ sendBuf[Victim] # Empty =>
              \A k \in Slot : sendBuf[k] # Empty /\ sendBuf[k].age <= sendBuf[Victim].age
<1>1. CASE FreeSlots # {}
  <2>1. Victim \in FreeSlots
    BY <1>1, FirstSlot DEF Victim, FreeSlots
  <2>2. QED
    BY <2>1 DEF FreeSlots
<1>2. CASE FreeSlots = {}
  <2>1. BufSize \in Slot /\ Victim = min_index[BufSize]
    BY <1>2, BufferConstants DEF Slot, Victim
  <2>2. QED
    BY <1>2, <2>1, ScanFindsOldest DEF Slot, FreeSlots
<1>3. QED
  BY <1>1, <1>2

\* A full buffer gives up its oldest packet.
THEOREM OldestIsDisplaced == Spec => OldestDisplaced
<1>1. TypeOK /\ [Next]_vars =>
        [\A c \in Slot :
           sendBuf[c] # Empty /\ sendBuf'[c] # Empty /\ sendBuf'[c].age < sendBuf[c].age
             => \A k \in Slot : sendBuf[k] # Empty /\ sendBuf[k].age <= sendBuf[c].age]_vars
  <2> SUFFICES ASSUME TypeOK, [Next]_vars,
                      NEW c \in Slot, sendBuf[c] # Empty, sendBuf'[c] # Empty,
                      sendBuf'[c].age < sendBuf[c].age
               PROVE  c = Victim
    BY VictimOldest
  <2>1. sendBuf[c].age \in Nat
    BY DEF TypeOK, Packet
  <2>2. ~Kept(c)
    BY <2>1 DEF Kept
  <2>3. ~Aged(c)
    <3>1. sendBuf[c] \in Packet
      BY DEF TypeOK
    <3>2. QED
      <4>1. Aged(c) => sendBuf'[c].age = sendBuf[c].age + 1
        BY <3>1, OlderPacket DEF Aged
      <4>2. QED
        BY <2>1, <4>1
  <2>4. QED
    BY <2>2, <2>3, SlotStep DEF Arrived
<1>2. QED
  BY <1>1, TypeCorrect, PTL DEF Spec, OldestDisplaced

-----------------------------------------------------------------------------
(* The faulty timer *)

\* How many periods of the schedule have left the queue.
Over == Len(schedule) - Len(faultyTimeQueue)

\* The queue is what is left of the schedule.  The node is faulty from a period's
\* start to its end; with the periods apart, the next one has not begun while the
\* node is well, and those that left the queue are over.
OnSchedule ==
  /\ schedule \in Seq(FaultyPeriod) /\ Len(schedule) \in 1 .. MaxPeriods
  /\ faultyTimeQueue \in Seq(FaultyPeriod) /\ Over \in 0 .. Len(schedule)
  /\ \A j \in 1 .. Len(faultyTimeQueue) : faultyTimeQueue[j] = schedule[Over + j]
  /\ time \in Nat /\ isFaulty \in BOOLEAN
  /\ running = (faultyTimeQueue # <<>>)
  /\ isFaulty => running /\ Front.start < time /\ time <= Front.end
  /\ Apart => /\ running /\ ~isFaulty => time <= Front.start
              /\ \A i \in 1 .. Over : schedule[i].end < time

\* A period begins before it ends.
LEMMA PeriodFields ==
  ASSUME NEW p \in FaultyPeriod
  PROVE  p.start \in Nat /\ p.end \in Nat /\ p.start < p.end
BY TimerAssumption DEF FaultyPeriod

\* The front of the queue is the first period that has not left it.
LEMMA FrontPeriod ==
  ASSUME OnSchedule, running
  PROVE  /\ Front \in FaultyPeriod /\ Front = schedule[Over + 1]
         /\ Over \in Nat /\ Over + 1 \in 1 .. Len(schedule) /\ Len(faultyTimeQueue) >= 1
<1>1. faultyTimeQueue \in Seq(FaultyPeriod) /\ faultyTimeQueue # <<>>
  BY DEF OnSchedule
<1>2. Len(faultyTimeQueue) \in Nat /\ Len(faultyTimeQueue) # 0
  BY <1>1, EmptySeq
<1>3. 1 \in 1 .. Len(faultyTimeQueue)
  BY <1>2
<1>4. Front = faultyTimeQueue[1] /\ Front \in FaultyPeriod
  BY <1>1, <1>3, ElementOfSeq DEF Front
<1>5. Len(schedule) \in Nat /\ Over \in Nat /\ Over + 1 \in 1 .. Len(schedule)
  BY <1>2 DEF OnSchedule, Over
<1>6. faultyTimeQueue[1] = schedule[Over + 1]
  BY <1>3 DEF OnSchedule
<1>7. QED
  BY <1>2, <1>4, <1>5, <1>6

\* Periods that are apart from their neighbours are apart from all others.
LEMMA ApartAll ==
  ASSUME schedule \in Seq(FaultyPeriod), Apart,
         NEW i \in 1 .. Len(schedule), NEW j \in 1 .. Len(schedule), i < j
  PROVE  schedule[i].end < schedule[j].start
<1> DEFINE S == {k \in 1 .. Len(schedule) : i < k /\ ~(schedule[i].end < schedule[k].start)}
<1>1. Len(schedule) \in Nat
  OBVIOUS
<1>2. \A k \in 1 .. Len(schedule) :
        schedule[k].start \in Nat /\ schedule[k].end \in Nat
        /\ schedule[k].start < schedule[k].end
  BY PeriodFields, ElementOfSeq
<1>3. ASSUME S # {}
      PROVE  FALSE
  <2>1. PICK k \in S : \A l \in S : k <= l
    <3>1. S \subseteq Nat
      BY <1>1
    <3> HIDE DEF S
    <3>2. QED
      BY <1>3, <3>1, LeastNumber
  <2>2. k \in 1 .. Len(schedule) /\ i < k /\ ~(schedule[i].end < schedule[k].start)
    OBVIOUS
  <2>3. k - 1 \in 1 .. Len(schedule) - 1 /\ k - 1 \in 1 .. Len(schedule) /\ (k - 1) + 1 = k
    BY <2>2
  <2>4. schedule[k - 1].end < schedule[k].start
    BY <2>3 DEF Apart
  <2>5. CASE k - 1 = i
    BY <2>2, <2>4, <2>5
  <2>6. CASE k - 1 # i
    <3>1. i < k - 1
      BY <2>2, <2>6
    <3>2. k - 1 \notin S
      BY <2>1, <2>3
    <3>3. schedule[i].end < schedule[k - 1].start
      BY <2>3, <3>1, <3>2
    <3>4. schedule[i].end < schedule[k].start
      <4> DEFINE a == schedule[i].end
                 b == schedule[k - 1].start
                 c == schedule[k - 1].end
                 d == schedule[k].start
      <4>1. a \in Nat /\ b \in Nat /\ c \in Nat /\ d \in Nat /\ a < b /\ b < c /\ c < d
        BY <1>2, <2>2, <2>3, <2>4, <3>3
      <4> HIDE DEF a, b, c, d
      <4>2. a < d
        BY <4>1
      <4>3. QED
        BY <4>2 DEF a, d
    <3>5. QED
      BY <2>2, <3>4
  <2>7. QED
    BY <2>5, <2>6
<1>4. QED
  BY <1>3

\* Schedules are sequences of periods, and the other way round.
LEMMA SchedulesAre ==
  /\ \A s \in Schedules : s \in Seq(FaultyPeriod) /\ Len(s) \in 1 .. MaxPeriods
  /\ \A s \in Seq(FaultyPeriod) : Len(s) \in 1 .. MaxPeriods => s \in Schedules
<1>1. \A n \in Nat : \A s \in [1 .. n -> FaultyPeriod] : s \in Seq(FaultyPeriod) /\ Len(s) = n
  OBVIOUS
<1>2. \A s \in Seq(FaultyPeriod) : s \in [1 .. Len(s) -> FaultyPeriod]
  BY LenProperties, ElementOfSeq
<1>3. QED
  BY <1>1, <1>2, TimerAssumption DEF Schedules

\* The invariant holds at first.
LEMMA TimerInitInv == TimerInit => OnSchedule
<1> SUFFICES ASSUME TimerInit
             PROVE  OnSchedule
  OBVIOUS
<1>1. schedule \in Seq(FaultyPeriod) /\ Len(schedule) \in 1 .. MaxPeriods
  BY SchedulesAre DEF TimerInit
<1>2. Over = 0 /\ faultyTimeQueue = schedule
  BY <1>1 DEF TimerInit, Over
<1>3. schedule # <<>> /\ 1 \in 1 .. Len(schedule)
  BY <1>1
<1>4. Front = schedule[1] /\ Front.start \in Nat
  BY <1>1, <1>2, <1>3, ElementOfSeq, PeriodFields DEF Front
<1>5. time = 0 /\ isFaulty = FALSE /\ running = TRUE
  BY DEF TimerInit
<1>6. \A j \in 1 .. Len(faultyTimeQueue) : faultyTimeQueue[j] = schedule[Over + j]
  BY <1>1, <1>2
<1>7. Over \in 0 .. Len(schedule) /\ \A i \in 1 .. Over : schedule[i].end < time
  BY <1>1, <1>2
<1>8. time \in Nat /\ time <= Front.start
  BY <1>4, <1>5
<1>9. QED
  BY <1>1, <1>2, <1>3, <1>5, <1>6, <1>7, <1>8 DEF OnSchedule

\* Every expiry preserves it.
LEMMA TimerNextInv == OnSchedule /\ [expire]_timerVars => OnSchedule'
<1> SUFFICES ASSUME OnSchedule, [expire]_timerVars
             PROVE  OnSchedule'
  OBVIOUS
<1>1. CASE UNCHANGED timerVars
  BY <1>1 DEF timerVars, OnSchedule, Over, Front, Apart
<1>2. ASSUME expire
      PROVE  OnSchedule'
  <2>1. /\ running /\ time' = time + 1 /\ schedule' = schedule
        /\ running' = (faultyTimeQueue' # <<>>)
    BY <1>2 DEF expire, Recover, Fail, Wait, Resched
  <2>2. /\ schedule \in Seq(FaultyPeriod) /\ Len(schedule) \in 1 .. MaxPeriods
        /\ faultyTimeQueue \in Seq(FaultyPeriod) /\ Over \in 0 .. Len(schedule)
        /\ \A j \in 1 .. Len(faultyTimeQueue) : faultyTimeQueue[j] = schedule[Over + j]
        /\ time \in Nat /\ isFaulty \in BOOLEAN
        /\ isFaulty => Front.start < time /\ time <= Front.end
        /\ Apart => /\ ~isFaulty => time <= Front.start
                    /\ \A i \in 1 .. Over : schedule[i].end < time
    BY <2>1 DEF OnSchedule
  <2>3. /\ Front \in FaultyPeriod /\ Front = schedule[Over + 1]
        /\ Over \in Nat /\ Over + 1 \in 1 .. Len(schedule) /\ Len(faultyTimeQueue) >= 1
    BY <2>1, FrontPeriod
  <2>4. Front.start \in Nat /\ Front.end \in Nat /\ Front.start < Front.end
    BY <2>3, PeriodFields
  <2>5. \A k \in 1 .. Len(schedule) : schedule[k].end \in Nat
    BY <2>2, PeriodFields, ElementOfSeq
  <2>6. Apart' = Apart
    BY <2>1 DEF Apart
  <2>7. CASE Fail \/ Wait
    <3>1. /\ faultyTimeQueue' = faultyTimeQueue /\ Over' = Over /\ Front' = Front
      BY <2>1, <2>7 DEF Fail, Wait, Over, Front
    <3>2. /\ isFaulty' \in BOOLEAN
          /\ isFaulty' => Front.start < time + 1 /\ time + 1 <= Front.end
      <4>1. CASE Fail
        <5>1. isFaulty' = TRUE /\ time = Front.start
          BY <4>1 DEF Fail
        <5>2. QED
          BY <2>4, <5>1
      <4>2. CASE Wait
        <5>1. isFaulty' = isFaulty /\ (isFaulty => time # Front.end)
          BY <4>2 DEF Wait
        <5>2. isFaulty => Front.start < time /\ time <= Front.end /\ time \in Nat
          BY <2>2
        <5>3. QED
          BY <2>2, <2>4, <5>1, <5>2
      <4>3. QED
        BY <2>7, <4>1, <4>2
    <3>3. ASSUME Apart, ~isFaulty'
          PROVE  time + 1 <= Front.start
      <4>1. ~isFaulty /\ time # Front.start
        BY <2>7, <3>3 DEF Fail, Wait
      <4>2. time \in Nat /\ time <= Front.start
        BY <2>2, <3>3, <4>1
      <4>3. QED
        BY <2>4, <4>1, <4>2
    <3>4. Apart => \A i \in 1 .. Over : schedule[i].end < time + 1
      <4>1. \A i \in 1 .. Over : i \in 1 .. Len(schedule)
        BY <2>3
      <4>2. QED
        BY <2>2, <2>5, <4>1
    <3>5. time + 1 \in Nat
      BY <2>2
    <3>6. QED
      BY <2>1, <2>2, <2>6, <3>1, <3>2, <3>3, <3>4, <3>5 DEF OnSchedule
  <2>8. CASE Recover
    <3>1. /\ isFaulty /\ time = Front.end /\ isFaulty' = FALSE
          /\ faultyTimeQueue' = Tail(faultyTimeQueue)
      BY <2>8 DEF Recover
    <3>2. /\ faultyTimeQueue' \in Seq(FaultyPeriod)
          /\ Len(faultyTimeQueue') = Len(faultyTimeQueue) - 1
          /\ \A j \in 1 .. Len(faultyTimeQueue') : faultyTimeQueue'[j] = faultyTimeQueue[j + 1]
      <4>1. faultyTimeQueue # <<>>
        BY <2>1 DEF OnSchedule
      <4>2. QED
        BY <2>2, <3>1, <4>1, HeadTailProperties
    <3>3. Over' = Over + 1 /\ Over' \in 0 .. Len(schedule)
      BY <2>1, <2>2, <2>3, <3>2 DEF Over
    <3>4. \A j \in 1 .. Len(faultyTimeQueue') : faultyTimeQueue'[j] = schedule[Over' + j]
      <4> SUFFICES ASSUME NEW j \in 1 .. Len(faultyTimeQueue')
                   PROVE  faultyTimeQueue'[j] = schedule[Over' + j]
        OBVIOUS
      <4>1. j + 1 \in 1 .. Len(faultyTimeQueue) /\ Over + (j + 1) = Over' + j
        BY <2>2, <2>3, <3>2, <3>3
      <4>2. faultyTimeQueue[j + 1] = schedule[Over + (j + 1)]
        BY <2>2, <4>1
      <4>3. QED
        BY <3>2, <4>1, <4>2
    <3>5. time + 1 \in Nat
      BY <2>2
    <3>6. ASSUME Apart, NEW i \in 1 .. Over'
          PROVE  schedule[i].end < time + 1
      <4>1. CASE i = Over + 1
        BY <2>3, <2>4, <3>1, <4>1
      <4>2. CASE i # Over + 1
        <5>1. i \in 1 .. Over /\ i \in 1 .. Len(schedule)
          BY <2>3, <3>3, <4>2
        <5>2. schedule[i].end < time /\ schedule[i].end \in Nat
          BY <2>2, <2>5, <3>6, <5>1
        <5>3. QED
          BY <2>2, <5>2
      <4>3. QED
        BY <4>1, <4>2
    <3>7. ASSUME Apart, running'
          PROVE  time + 1 <= Front'.start
      <4>1. 1 \in 1 .. Len(faultyTimeQueue')
        <5>1. faultyTimeQueue' # <<>>
          BY <2>1, <3>7
        <5>2. Len(faultyTimeQueue') \in Nat /\ Len(faultyTimeQueue') # 0
          BY <3>2, <5>1, EmptySeq
        <5>3. QED
          BY <5>2
      <4>2. Front' = schedule[Over + 1 + 1]
        BY <3>2, <3>3, <3>4, <4>1 DEF Front
      <4>3. Over + 1 \in 1 .. Len(schedule) - 1 /\ Over + 1 + 1 \in 1 .. Len(schedule)
        <5>1. Len(schedule) \in Nat /\ Len(faultyTimeQueue) \in Nat
          BY <2>2
        <5>2. Len(faultyTimeQueue) >= 2
          BY <3>2, <4>1, <5>1
        <5>3. QED
          BY <2>3, <5>1, <5>2 DEF Over
      <4>4. schedule[Over + 1].end < schedule[Over + 1 + 1].start
        BY <3>7, <4>3 DEF Apart
      <4>5. schedule[Over + 1 + 1].start \in Nat
        BY <2>2, <4>3, PeriodFields, ElementOfSeq
      <4>6. QED
        BY <2>2, <2>3, <3>1, <4>2, <4>4, <4>5
    <3>8. QED
      BY <2>1, <2>2, <2>6, <3>1, <3>2, <3>3, <3>4, <3>5, <3>6, <3>7 DEF OnSchedule
  <2>9. QED
    BY <1>2, <2>7, <2>8 DEF expire
<1>3. QED
  BY <1>1, <1>2

\* The faulty timer keeps its types: it runs exactly while a period is left, and a
\* node whose timer has deleted itself is well.
THEOREM FaultyTimerTypes == TimerSpec => []TimerTypeOK
<1>1. OnSchedule => TimerTypeOK
  <2> SUFFICES ASSUME OnSchedule
               PROVE  TimerTypeOK
    OBVIOUS
  <2>1. schedule \in Schedules
    BY SchedulesAre DEF OnSchedule
  <2>2. faultyTimeQueue \in Schedules \cup {<<>>}
    <3>1. CASE faultyTimeQueue = <<>>
      BY <3>1
    <3>2. CASE faultyTimeQueue # <<>>
      <4>1. /\ Len(faultyTimeQueue) >= 1 /\ Over \in Nat
            /\ faultyTimeQueue \in Seq(FaultyPeriod)
        BY <3>2, FrontPeriod DEF OnSchedule
      <4>2. Len(schedule) \in 1 .. MaxPeriods /\ Len(faultyTimeQueue) \in Nat
        BY DEF OnSchedule
      <4>3. Len(faultyTimeQueue) \in 1 .. MaxPeriods
        BY <4>1, <4>2, TimerAssumption DEF Over
      <4>4. QED
        BY <4>1, <4>3, SchedulesAre
    <3>3. QED
      BY <3>1, <3>2
  <2>3. QED
    BY <2>1, <2>2 DEF OnSchedule, TimerTypeOK
<1>2. QED
  BY <1>1, TimerInitInv, TimerNextInv, PTL DEF TimerSpec

\* After each expiry the node is faulty only in a period of its schedule, and in
\* every one of them if they are apart.
THEOREM FaultsFollowSchedule == TimerSpec => []FaultyAsScheduled
<1>1. OnSchedule => FaultyAsScheduled
  <2> SUFFICES ASSUME OnSchedule
               PROVE  FaultyAsScheduled
    OBVIOUS
  <2> DEFINE In(i) == schedule[i].start < time /\ time <= schedule[i].end
  <2>1. schedule \in Seq(FaultyPeriod) /\ time \in Nat /\ Len(schedule) \in Nat
    BY DEF OnSchedule
  <2>2. \A k \in 1 .. Len(schedule) :
          schedule[k].start \in Nat /\ schedule[k].end \in Nat
          /\ schedule[k].start < schedule[k].end
    BY <2>1, PeriodFields, ElementOfSeq
  <2>3. isFaulty => \E i \in 1 .. Len(schedule) : In(i)
    <3> SUFFICES ASSUME isFaulty
                 PROVE  \E i \in 1 .. Len(schedule) : In(i)
      OBVIOUS
    <3>1. running /\ Front.start < time /\ time <= Front.end
      BY DEF OnSchedule
    <3>2. Front = schedule[Over + 1] /\ Over + 1 \in 1 .. Len(schedule)
      BY <3>1, FrontPeriod
    <3>3. QED
      BY <3>1, <3>2
  <2>4. ASSUME Apart, ~isFaulty, NEW i \in 1 .. Len(schedule), In(i)
        PROVE  FALSE
    <3>1. Over \in Nat /\ Over <= Len(schedule)
      BY <2>1 DEF OnSchedule
    <3>2. CASE i <= Over
      <4>1. i \in 1 .. Over
        BY <3>1, <3>2
      <4>2. schedule[i].end < time
        BY <2>4, <4>1 DEF OnSchedule
      <4>3. QED
        BY <2>1, <2>2, <2>4, <4>2
    <3>3. CASE Over < i
      <4>1. running
        <5>1. faultyTimeQueue # <<>>
          BY <2>1, <3>3 DEF Over
        <5>2. QED
          BY <5>1 DEF OnSchedule
      <4>2. Front = schedule[Over + 1] /\ Over + 1 \in 1 .. Len(schedule)
        BY <4>1, FrontPeriod
      <4>3. time <= schedule[Over + 1].start
        BY <2>4, <4>1, <4>2 DEF OnSchedule
      <4>4. CASE i = Over + 1
        BY <2>1, <2>2, <2>4, <4>3, <4>4
      <4>5. CASE Over + 1 < i
        <5>1. schedule[Over + 1].end < schedule[i].start
          BY <2>1, <2>4, <4>2, <4>5, ApartAll
        <5> DEFINE a == schedule[Over + 1].start
                   b == schedule[Over + 1].end
                   c == schedule[i].start
        <5>2. a \in Nat /\ b \in Nat /\ c \in Nat /\ a < b /\ b < c /\ time <= a /\ c < time
          BY <2>2, <2>4, <4>2, <4>3, <5>1
        <5> HIDE DEF a, b, c
        <5>3. QED
          BY <2>1, <5>2
      <4>6. QED
        BY <3>1, <3>3, <4>4, <4>5
    <3>4. QED
      BY <3>1, <3>2, <3>3
  <2> HIDE DEF In
  <2>5. /\ isFaulty => \E i \in 1 .. Len(schedule) : In(i)
        /\ Apart /\ (\E i \in 1 .. Len(schedule) : In(i)) => isFaulty
    BY <2>3, <2>4
  <2>6. QED
    BY <2>5, Zenon DEF FaultyAsScheduled, In
<1>2. QED
  BY <1>1, TimerInitInv, TimerNextInv, PTL DEF TimerSpec

=============================================================================
