----------------------------- MODULE SendBuffer -----------------------------
(***************************************************************************)
(* The send buffer of an agent and the backoff of its route requests       *)
(* (dsragent.cc, with the times that a request table entry keeps).  A      *)
(* packet without a route waits in the buffer until a route reply or the   *)
(* next buffer check finds one, or until it has waited too long.           *)
(*                                                                         *)
(* Time goes in ticks of one backoff period or less.  The buffer timer     *)
(* runs several times in a tick, so a tick ends only after a check.        *)
(* Salvaging is switched off, so a packet of another node gets here only   *)
(* through an agent that is a gateway (own = FALSE).                       *)
(***************************************************************************)
EXTENDS Integers

CONSTANTS
  Dest,             \* destinations
  BufSize,          \* SEND_BUF_SIZE (64)
  SendTimeout,      \* send_timeout (30 s)
  Period,           \* rt_rq_period (0.5 s)
  MaxPeriod,        \* rt_rq_max_period (10 s)
  MaxOutstanding,   \* where rt_reqs_outstanding stops (15)
  MaxRequests,      \* dsr_salvage_max_requests (1)
  Empty             \* a slot whose p.pkt is NULL

\* What 0x1 << (2 * outstanding) is.  The prover knows nothing of
\* exponents; TLC evaluates this.
ASSUME PowersOfFour == 4 ^ 0 = 1 /\ \A k \in 0 .. 15 : 4 ^ k \in Nat

ASSUME SendBufferAssumption ==
  /\ BufSize \in Nat \ {0}
  /\ Period \in Nat \ {0}
  /\ MaxPeriod \in Nat /\ Period <= MaxPeriod
  /\ SendTimeout \in Nat /\ MaxPeriod < SendTimeout
  /\ MaxOutstanding \in 1 .. 15
  /\ MaxRequests \in Nat

Slot == 1 .. BufSize

\* SendBufEntry: p.dest, whether p.src is this agent, the age that t gives.
\* History: quiet is the ticks since the packet came, or since a request for dest
\* was sent, if that was later; lost is how many requests that were due since
\* then went to packets that were refused, and were not sent.
Packet == [dest : Dest, own : BOOLEAN, age : Nat, quiet : Nat, lost : Nat]

ASSUME EmptyAssumption == Empty \notin Packet

\* The part of a request table entry that the backoff uses; since is the time
\* since last_rt_req, typed says that last_type has been assigned.
Entry == [outstanding : 0 .. MaxOutstanding, since : 0 .. MaxPeriod, typed : BOOLEAN]

VARIABLES
  sendBuf,    \* send_buf
  rq,         \* the request table's entries of the destinations
  routes,     \* destinations the route cache has a route to
  loop,       \* the loop over the buffer that is running: "none", "check" or
              \*   "accept"; "done" after Terminate
  cursor,     \* c, the slot that loop has reached
  checked,    \* the buffer timer has run in this tick
  now,        \* the clock, up to the first period
  overheard   \* history: routes learned from other nodes since the last loop

vars == <<sendBuf, rq, routes, loop, cursor, checked, now, overheard>>

TypeOK ==
  /\ sendBuf \in [Slot -> Packet \cup {Empty}]
  /\ rq \in [Dest -> Entry]
  /\ routes \subseteq Dest
  /\ loop \in {"none", "check", "accept", "done"}
  /\ cursor \in 1 .. BufSize + 1
  /\ checked \in BOOLEAN
  /\ now \in 0 .. Period
  /\ overheard \subseteq Dest

\* getEntry and insert fill a new entry so that its first request is due.
NewEntry == [outstanding |-> 0, since |-> Period, typed |-> FALSE]

Init ==
  /\ sendBuf = [c \in Slot |-> Empty]
  /\ rq = [d \in Dest |-> NewEntry]
  /\ routes = {}
  /\ loop = "none"
  /\ cursor = 1
  /\ checked = FALSE
  /\ now = 0
  /\ overheard = {}

-----------------------------------------------------------------------------
(* Backoff *)

Lower(a, b) == IF a < b THEN a ELSE b

\* Mutant of Interval: the doubling is not held to the maximum.
IntervalUncapped(e) == 4 ^ e.outstanding * Period

Interval(e) == Lower(4 ^ e.outstanding * Period, MaxPeriod)

\* BackOffTest answers true and counts the attempt.
Due(e) == Interval(e) <= e.since

\* Mutant of Attempt: rt_reqs_outstanding is not stopped.
AttemptUnbounded(e) ==
  [outstanding |-> e.outstanding + 1, since |-> 0, typed |-> TRUE]

Attempt(e) == [outstanding |-> Lower(e.outstanding + 1, MaxOutstanding),
               since |-> 0, typed |-> TRUE]

\* last_type is read before it is assigned: it may be LIMIT0, whose retry needs
\* only arp_timeout, and becomes UNLIMIT by it.
StrayRetry(e) == ~Due(e) /\ ~e.typed

Refused(e, own) == ~own /\ Attempt(e).outstanding > MaxRequests

\* A route request for d is sent: it is due, or a stray retry.
Request(d, own) ==
  \/ /\ Due(rq[d]) /\ ~Refused(rq[d], own)
     /\ rq' = [rq EXCEPT ![d] = Attempt(@)]
  \/ /\ StrayRetry(rq[d]) /\ own
     /\ rq' = [rq EXCEPT ![d].typed = TRUE]

\* A packet of another node is dropped once a request has gone unanswered.  No
\* request is sent for it, but BackOffTest has counted the attempt.
Refuse(d, own) ==
  /\ Due(rq[d]) /\ Refused(rq[d], own)
  /\ rq' = [rq EXCEPT ![d] = Attempt(@)]

ForDest(b, c, d) == b[c] # Empty /\ b[c].dest = d

\* The history of the packets for d when a request is sent, and when one is lost.
Sent(b, d) ==
  [c \in Slot |-> IF ForDest(b, c, d) THEN [b[c] EXCEPT !.quiet = 0, !.lost = 0]
                                     ELSE b[c]]

Lost(b, d) ==
  [c \in Slot |-> IF ForDest(b, c, d) THEN [b[c] EXCEPT !.lost = @ + 1] ELSE b[c]]

-----------------------------------------------------------------------------
(* Packets without a route *)

\* Sending looks the route up for use: a promotion may displace other routes.
UseRoute(d) ==
  /\ d \in routes
  /\ routes' \in {R \in SUBSET routes : d \in R}

FreeSlots == {c \in Slot : sendBuf[c] = Empty}

First(S) == CHOOSE c \in S : \A k \in S : c <= k

\* Mutant of Earlier: the comparison is the wrong way round.
EarlierReversed(c, i) == sendBuf[c].age < sendBuf[i].age

\* send_buf[c].t is less than min, the t of slot i.
Earlier(c, i) == sendBuf[c].age > sendBuf[i].age

\* min_index when the scan of a full buffer has passed slot c.
min_index[c \in Slot] ==
  IF c = 1 THEN 1
  ELSE IF Earlier(c, min_index[c - 1]) THEN c ELSE min_index[c - 1]

\* The slot a packet is put in: the first that is free, or else the scan's.
Victim == IF FreeSlots # {} THEN First(FreeSlots) ELSE min_index[BufSize]

Stick(b, d, own) ==
  [b EXCEPT ![Victim] = [dest |-> d, own |-> own, age |-> 0, quiet |-> 0,
                                lost |-> 0]]

\* handlePktWithoutSR(p, false) with a route: an application's packet, one that
\* came back undeliverable, or the rest of a nested route error.
SendAtOnce(d) ==
  /\ loop = "none"
  /\ UseRoute(d)
  /\ UNCHANGED <<sendBuf, rq, loop, cursor, checked, now, overheard>>

\* The same without a route, when a request is due or sent by a stray retry.
AskAndStick(d, own) ==
  /\ loop = "none"
  /\ d \notin routes
  /\ Request(d, own)
  /\ sendBuf' = Stick(Sent(sendBuf, d), d, own)
  /\ UNCHANGED <<routes, loop, cursor, checked, now, overheard>>

StickOnly(d, own) ==
  /\ loop = "none"
  /\ d \notin routes
  /\ ~Due(rq[d])
  /\ sendBuf' = Stick(sendBuf, d, own)
  /\ UNCHANGED <<rq, routes, loop, cursor, checked, now, overheard>>

DropForeign(d) ==
  /\ loop = "none"
  /\ d \notin routes
  /\ Refuse(d, FALSE)
  /\ sendBuf' = Lost(sendBuf, d)
  /\ UNCHANGED <<routes, loop, cursor, checked, now, overheard>>

-----------------------------------------------------------------------------
(* SendBufferTimer::expire and sendBufferCheck, one slot in each step *)

StartCheck ==
  /\ loop = "none"
  /\ loop' = "check"
  /\ cursor' = 1
  /\ UNCHANGED <<sendBuf, rq, routes, checked, now, overheard>>

At == sendBuf[cursor]

AtSlot(which) == loop = which /\ cursor \in Slot /\ cursor' = cursor + 1

Free(b) == [b EXCEPT ![cursor] = Empty]

SkipEmpty ==
  /\ loop \in {"check", "accept"}
  /\ AtSlot(loop)
  /\ At = Empty
  /\ UNCHANGED <<sendBuf, rq, routes, loop, checked, now, overheard>>

\* Mutant of TimedOut: a packet may stay a tick too long.
TimedOutLate(p) == p.age > SendTimeout + 1

TimedOut(p) == p.age > SendTimeout

CheckTimeout ==
  /\ AtSlot("check")
  /\ At # Empty /\ TimedOut(At)
  /\ sendBuf' = Free(sendBuf)
  /\ UNCHANGED <<rq, routes, loop, checked, now, overheard>>

CheckSend ==
  /\ AtSlot("check")
  /\ At # Empty /\ ~TimedOut(At)
  /\ UseRoute(At.dest)
  /\ sendBuf' = Free(sendBuf)
  /\ UNCHANGED <<rq, loop, checked, now, overheard>>

CheckAsk ==
  /\ AtSlot("check")
  /\ At # Empty /\ ~TimedOut(At) /\ At.dest \notin routes
  /\ Request(At.dest, At.own)
  /\ sendBuf' = Sent(sendBuf, At.dest)
  /\ UNCHANGED <<routes, loop, checked, now, overheard>>

CheckDropForeign ==
  /\ AtSlot("check")
  /\ At # Empty /\ ~TimedOut(At) /\ At.dest \notin routes
  /\ Refuse(At.dest, At.own)
  /\ sendBuf' = Free(Lost(sendBuf, At.dest))
  /\ UNCHANGED <<routes, loop, checked, now, overheard>>

CheckWait ==
  /\ AtSlot("check")
  /\ At # Empty /\ ~TimedOut(At) /\ At.dest \notin routes
  /\ ~Due(rq[At.dest])
  /\ UNCHANGED <<sendBuf, rq, routes, loop, checked, now, overheard>>

-----------------------------------------------------------------------------
(* acceptRouteReply, once it has found no listed node in the reply *)

\* The reply's route leads to d and, through its prefixes, to the rest of R;
\* other routes may be displaced.  last_rt_req becomes 0.0, not the time.
StartAccept(d, R) ==
  /\ loop = "none"
  /\ d \in R
  /\ \E kept \in SUBSET routes : routes' = kept \cup R
  /\ rq' = [rq EXCEPT ![d].outstanding = 0, ![d].since = now]
  /\ loop' = "accept"
  /\ cursor' = 1
  /\ UNCHANGED <<sendBuf, checked, now, overheard>>

\* Mutant of AcceptSend: one packet is sent and the loop is left.
AcceptSendOne ==
  /\ loop = "accept" /\ cursor \in Slot
  /\ At # Empty
  /\ UseRoute(At.dest)
  /\ sendBuf' = Free(sendBuf)
  /\ cursor' = BufSize + 1
  /\ UNCHANGED <<rq, loop, checked, now, overheard>>

AcceptSend ==
  /\ AtSlot("accept")
  /\ At # Empty
  /\ UseRoute(At.dest)
  /\ sendBuf' = Free(sendBuf)
  /\ UNCHANGED <<rq, loop, checked, now, overheard>>

AcceptWait ==
  /\ AtSlot("accept")
  /\ At # Empty /\ At.dest \notin routes
  /\ UNCHANGED <<sendBuf, rq, routes, loop, checked, now, overheard>>

EndLoop ==
  /\ loop \in {"check", "accept"}
  /\ cursor = BufSize + 1
  /\ checked' = (checked \/ loop = "check")
  /\ loop' = "none"
  /\ cursor' = 1
  /\ overheard' = {}
  /\ UNCHANGED <<sendBuf, rq, routes, now>>

-----------------------------------------------------------------------------
(* The rest of the agent, and the clock *)

\* tap and returnSrcRouteToRequestor add routes and leave the buffer alone.
Overhear(R) ==
  /\ loop = "none"
  /\ \E kept \in SUBSET routes : routes' = kept \cup R
  /\ overheard' = overheard \cup R
  /\ UNCHANGED <<sendBuf, rq, loop, cursor, checked, now>>

\* noticeDeadLink and deleteRoute.
LoseRoutes(R) ==
  /\ loop = "none"
  /\ routes' = routes \ R
  /\ UNCHANGED <<sendBuf, rq, loop, cursor, checked, now, overheard>>

\* The request table gives the slot of d's entry to another node.  What
\* last_type holds in the slot that d gets next is whatever was left there.
Evict(d) ==
  /\ loop = "none"
  /\ rq' = [rq EXCEPT ![d] = NewEntry]
  /\ UNCHANGED <<sendBuf, routes, loop, cursor, checked, now, overheard>>

Terminate ==
  /\ loop = "none"
  /\ sendBuf' = [c \in Slot |-> Empty]
  /\ loop' = "done"
  /\ UNCHANGED <<rq, routes, cursor, checked, now, overheard>>

Tick ==
  /\ loop = "none" /\ checked
  /\ sendBuf' = [c \in Slot |-> IF sendBuf[c] = Empty THEN Empty
                                ELSE [sendBuf[c] EXCEPT !.age = @ + 1,
                                                        !.quiet = @ + 1]]
  /\ rq' = [d \in Dest |-> [rq[d] EXCEPT !.since = Lower(@ + 1, MaxPeriod)]]
  /\ now' = Lower(now + 1, Period)
  /\ checked' = FALSE
  /\ UNCHANGED <<routes, loop, cursor, overheard>>

Check == \/ StartCheck \/ SkipEmpty \/ CheckTimeout \/ CheckSend \/ CheckAsk
         \/ CheckDropForeign \/ CheckWait

Accept == AcceptSend \/ AcceptWait \/ EndLoop

Next ==
  \/ \E d \in Dest : SendAtOnce(d) \/ DropForeign(d) \/ Evict(d)
  \/ \E d \in Dest, own \in BOOLEAN : AskAndStick(d, own) \/ StickOnly(d, own)
  \/ \E d \in Dest, R \in SUBSET Dest : StartAccept(d, R)
  \/ \E R \in SUBSET Dest : Overhear(R) \/ LoseRoutes(R)
  \/ Check \/ Accept \/ Terminate \/ Tick

Spec == Init /\ [][Next]_vars

-----------------------------------------------------------------------------
(* Properties *)

\* A packet never waits for longer than the longest interval without a request
\* for its destination being sent, whatever the backoff of earlier searches, the
\* buffer's order, replies and evictions do.  What can delay it further is only
\* packets of other nodes that are refused, each by one interval: BackOffTest has
\* counted an attempt when getRouteForPacket drops the packet and sends nothing.
NobodyForgotten ==
  \A c \in Slot :
    sendBuf[c] # Empty => sendBuf[c].quiet <= MaxPeriod * (sendBuf[c].lost + 1)

\* A packet leaves the buffer at the first check after its time is up.
WaitBounded == \A c \in Slot : sendBuf[c] # Empty => sendBuf[c].age <= SendTimeout + 1

\* Between two events no packet waits for a destination that has a route,
\* unless the route was overheard since the buffer was last gone through.
RoutedMeansOverheard ==
  loop = "none" =>
    \A c \in Slot : sendBuf[c] # Empty /\ sendBuf[c].dest \in routes
                      => sendBuf[c].dest \in overheard

\* A full buffer gives up its oldest packet: no packet that stays is older than
\* one that a newcomer displaced.
OldestDisplaced ==
  [][\A c \in Slot :
       sendBuf[c] # Empty /\ sendBuf'[c] # Empty /\ sendBuf'[c].age < sendBuf[c].age
         => \A k \in Slot : sendBuf[k] # Empty /\ sendBuf[k].age <= sendBuf[c].age]_vars

=============================================================================
