---------------------------- MODULE RequestTable ----------------------------
(***************************************************************************)
(* The table in which an agent keeps, per node, the number of the route    *)
(* request it heard from it (requesttable.cc), and the handlers that use   *)
(* it to answer and to forward a flooded request no more than they should. *)
(*                                                                         *)
(* Copies of a request reach the agent along every path of the flood: any  *)
(* number of them, in any order, also after later requests.  A copy whose  *)
(* route is full, or has this agent or a node of the faulty list on it, is *)
(* dropped and not recorded, as are all copies that a selfish or faulty    *)
(* agent drops: they change nothing and are no step of this module.        *)
(* The backoff fields of an entry are left out.                            *)
(***************************************************************************)
EXTENDS Naturals, Sequences, FiniteSets

CONSTANTS
  Node,      \* the other nodes
  Size,      \* slots of the table (128)
  Targets,   \* whom requests look for: subset of {"me", "other"}
  MaxReq,    \* bound: requests of one node
  Free       \* an empty slot

ASSUME TableAssumption ==
  /\ Size \in Nat \ {0}
  /\ Targets \subseteq {"me", "other"}
  /\ MaxReq \in Nat

Slots == 1 .. Size

Entry == [net_id : Node, req_num : 0 .. MaxReq]

ASSUME FreeAssumption == Free \notin Entry

VARIABLES
  table,       \* the slots
  ptr,         \* the slot that the next new entry takes
  requests,    \* history: target of each request a node has started
  forwarded,   \* history: times that this agent forwarded each request
  lowered      \* history: the number kept of a node has gone down

vars == <<table, ptr, requests, forwarded, lowered>>

TypeOK ==
  /\ table \in [Slots -> Entry \cup {Free}]
  /\ ptr \in Slots
  /\ requests \in [Node -> UNION {[1 .. n -> Targets] : n \in 0 .. MaxReq}]
  /\ forwarded \in [Node -> [1 .. MaxReq -> 0 .. 2]]
  /\ lowered \in [Node -> BOOLEAN]

Init ==
  /\ table = [i \in Slots |-> Free]
  /\ ptr = 1
  /\ requests = [n \in Node |-> <<>>]
  /\ forwarded = [n \in Node |-> [q \in 1 .. MaxReq |-> 0]]
  /\ lowered = [n \in Node |-> FALSE]

-----------------------------------------------------------------------------

Found(n) == {i \in Slots : table[i] # Free /\ table[i].net_id = n}

\* The request number heard from n, or 0.
get(n) ==
  IF Found(n) = {} THEN 0 ELSE table[CHOOSE i \in Found(n) : TRUE].req_num

\* Mutant of NewSlot: the pointer wraps to the wrong slot.
NewSlotZero(n, q) ==
  /\ table' = [table EXCEPT ![ptr] = [net_id |-> n, req_num |-> q]]
  /\ ptr' = (ptr + 1) % Size

\* An entry for n that has none, in the slot at ptr, whoever held it.
NewSlot(n, q) ==
  /\ table' = [table EXCEPT ![ptr] = [net_id |-> n, req_num |-> q]]
  /\ ptr' = (ptr % Size) + 1

\* Mutant of insert: the entry for n is not looked for.
insertNew(n, q) == NewSlot(n, q)

\* The number of n's entry becomes q, whatever it was.
insert(n, q) ==
  IF Found(n) = {}
  THEN NewSlot(n, q)
  ELSE /\ table' = [i \in Slots |->
                      IF i \in Found(n) THEN [table[i] EXCEPT !.req_num = q]
                      ELSE table[i]]
       /\ ptr' = ptr

\* Nodes whose number a step lowers, by an older request or by an eviction.
Remember ==
  lowered' = [n \in Node |-> lowered[n] \/ get(n)' < get(n)]

-----------------------------------------------------------------------------

\* Node n starts its next request (route_request_num++).
StartRequest(n, target) ==
  /\ Len(requests[n]) < MaxReq
  /\ requests' = [requests EXCEPT ![n] = Append(@, target)]
  /\ UNCHANGED <<table, ptr, forwarded, lowered>>

\* handlePacketReceipt: a copy that looks for this agent.  Every copy is
\* answered, as dsragent_reply_only_to_first_rtreq is off, and recorded.
AnswerRequest(n, q) ==
  /\ requests[n][q] = "me"
  /\ insert(n, q)
  /\ Remember
  /\ UNCHANGED <<requests, forwarded>>

\* Mutant of handleRouteRequest: the table is not consulted.
handleEveryRequest(n, q) ==
  /\ requests[n][q] = "other"
  /\ insert(n, q)
  /\ Remember
  /\ forwarded' = [forwarded EXCEPT ![n][q] = IF @ < 2 THEN @ + 1 ELSE 2]
  /\ UNCHANGED requests

\* A copy that looks for another node: ignored when ignoreRouteRequestp says
\* it was processed, otherwise recorded and rebroadcast.
handleRouteRequest(n, q) ==
  /\ requests[n][q] = "other"
  /\ get(n) < q
  /\ insert(n, q)
  /\ Remember
  /\ forwarded' = [forwarded EXCEPT ![n][q] = IF @ < 2 THEN @ + 1 ELSE 2]
  /\ UNCHANGED requests

\* getRouteForPacket and acceptRouteReply want the entry of a destination.
getEntry(n) ==
  /\ Found(n) = {}
  /\ NewSlot(n, 0)
  /\ Remember
  /\ UNCHANGED <<requests, forwarded>>

Next ==
  \E n \in Node :
    \/ \E t \in Targets : StartRequest(n, t)
    \/ \E q \in 1 .. Len(requests[n]) :
         AnswerRequest(n, q) \/ handleRouteRequest(n, q)
    \/ getEntry(n)

Spec == Init /\ [][Next]_vars

-----------------------------------------------------------------------------

\* A node has at most one entry, so that what a handler records is what the
\* next one reads (find and the creations by insert and getEntry agree).
OneEntryPerNode == \A n \in Node : Cardinality(Found(n)) <= 1

\* dsragent.cc:1395, "we've already processed a copy of this reqest so we
\* should drop the request silently": however late and in whatever order its
\* copies arrive, a request is forwarded once, unless the table has forgotten
\* its source, or gone back to an older number by answering an old copy.
ForwardedOnce ==
  \A n \in Node : ~lowered[n] => \A q \in 1 .. MaxReq : forwarded[n][q] <= 1

=============================================================================
