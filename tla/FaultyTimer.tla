---------------------------- MODULE FaultyTimer -----------------------------
(***************************************************************************)
(* The FaultyTimer of an agent (dsragent.cc), which makes the node faulty  *)
(* and well again by the periods that nodes.info lists for it.  The timer  *)
(* first fires when the agent starts and then once a second, and compares  *)
(* the clock, cut to whole seconds, with the period at the queue's front.  *)
(* Its specification's names carry the timer's, so that TimerProofs can    *)
(* extend it together with SendBuffer.                                     *)
(***************************************************************************)
EXTENDS Naturals, Sequences

CONSTANTS
  MaxPeriods,  \* bound: periods in nodes.info
  MaxTime      \* bound: the latest second a period may name

ASSUME TimerAssumption ==
  /\ MaxPeriods \in Nat \ {0}
  /\ MaxTime \in Nat

FaultyPeriod == {p \in [start : 0 .. MaxTime, end : 0 .. MaxTime] : p.start < p.end}

VARIABLES
  schedule,         \* the periods that nodes.info lists for the node
  faultyTimeQueue,  \* those that are not over
  time,             \* the second of the next expiry
  isFaulty,
  running           \* the timer has not deleted itself

timerVars == <<schedule, faultyTimeQueue, time, isFaulty, running>>

Schedules == UNION {[1 .. n -> FaultyPeriod] : n \in 1 .. MaxPeriods}

TimerTypeOK ==
  /\ schedule \in Schedules
  /\ faultyTimeQueue \in Schedules \cup {<<>>}
  /\ time \in Nat
  /\ isFaulty \in BOOLEAN
  /\ running = (faultyTimeQueue # <<>>)
  /\ isFaulty => running

\* The agent is given its periods and starts the timer at once.
TimerInit ==
  /\ schedule \in Schedules
  /\ faultyTimeQueue = schedule
  /\ time = 0
  /\ isFaulty = FALSE
  /\ running = TRUE

-----------------------------------------------------------------------------

Front == Head(faultyTimeQueue)

\* Mutant of Resched: the queue is not looked at.
ReschedAlways ==
  /\ time' = time + 1
  /\ UNCHANGED <<running, schedule>>

\* The timer fires once more unless the queue is empty now.
Resched ==
  /\ time' = time + 1
  /\ running' = (faultyTimeQueue' # <<>>)
  /\ UNCHANGED schedule

\* Mutant of Recover: the period stays at the front of the queue.
RecoverUnpopped ==
  /\ running
  /\ isFaulty
  /\ time = Front.end
  /\ isFaulty' = FALSE
  /\ UNCHANGED faultyTimeQueue
  /\ Resched

Recover ==
  /\ running
  /\ isFaulty
  /\ time = Front.end
  /\ isFaulty' = FALSE
  /\ faultyTimeQueue' = Tail(faultyTimeQueue)
  /\ Resched

Fail ==
  /\ running
  /\ ~isFaulty
  /\ time = Front.start
  /\ isFaulty' = TRUE
  /\ UNCHANGED faultyTimeQueue
  /\ Resched

\* The front period neither starts nor ends in this second.  The bound on
\* the time leaves a timer that will never match running for ever.
Wait ==
  /\ running
  /\ time <= MaxTime
  /\ time # IF isFaulty THEN Front.end ELSE Front.start
  /\ UNCHANGED <<faultyTimeQueue, isFaulty>>
  /\ Resched

expire == Recover \/ Fail \/ Wait

TimerSpec == TimerInit /\ [][expire]_timerVars

\* A scheduled timer fires.
TimerFairSpec == TimerSpec /\ WF_timerVars(expire)

-----------------------------------------------------------------------------

\* The periods are in order, with at least a second between two of them.  One
\* that starts in or before the second in which the one ahead of it ends is
\* never entered, and neither are those behind it.
Apart ==
  \A i \in 1 .. Len(schedule) - 1 : schedule[i].end < schedule[i + 1].start

\* README:20 (dsr), a faulty node has a begin and an end time: after the
\* expiry of each second the node is faulty only if a period has begun and is
\* not over, and always then if the periods are apart.
FaultyAsScheduled ==
  time > 0 =>
    LET current == \E i \in 1 .. Len(schedule) :
                     schedule[i].start < time /\ time <= schedule[i].end
    IN /\ isFaulty => current
       /\ Apart /\ current => isFaulty

\* The timer honours every period and then deletes itself.
TimerEnds ==
  Apart => <>(~running /\ ~isFaulty /\ faultyTimeQueue = <<>>)

=============================================================================
