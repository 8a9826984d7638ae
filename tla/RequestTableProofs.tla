------------------------- MODULE RequestTableProofs -------------------------
(***************************************************************************)
(* Theorems about RequestTable, for every set of nodes, every size of the  *)
(* table and every number of requests: its types, that a node has one      *)
(* entry at most, and that a request is forwarded once.                    *)
(***************************************************************************)
EXTENDS RequestTable, FiniteSetTheorems, SequenceTheorems, TLAPS

\* The assumptions about the constants, in the form the provers need them.
LEMMA TableConstants ==
  /\ Size \in Nat \ {0}
  /\ MaxReq \in Nat
  /\ Free \notin Entry
BY TableAssumption, FreeAssumption

-----------------------------------------------------------------------------
(* Types *)

\* The next request of a node is one more of its requests.
LEMMA AppendRequest ==
  ASSUME NEW r \in UNION {[1 .. n -> Targets] : n \in 0 .. MaxReq}, Len(r) < MaxReq,
         NEW t \in Targets
  PROVE  Append(r, t) \in UNION {[1 .. n -> Targets] : n \in 0 .. MaxReq}
<1>1. PICK k \in 0 .. MaxReq : r \in [1 .. k -> Targets]
  OBVIOUS
<1>2. r \in Seq(Targets) /\ Len(r) = k
  BY <1>1
<1>3. Append(r, t) \in Seq(Targets) /\ Len(Append(r, t)) = k + 1
  BY <1>2, AppendProperties
<1>4. Append(r, t) \in [1 .. k + 1 -> Targets]
  BY <1>3, LenProperties
<1>5. k + 1 \in 0 .. MaxReq
  BY <1>2, TableConstants
<1>6. QED
  BY <1>4, <1>5

\* A new entry keeps the types, whichever slot it takes.
LEMMA NewSlotType ==
  ASSUME TypeOK, NEW n \in Node, NEW q \in 0 .. MaxReq, NewSlot(n, q)
  PROVE  table' \in [Slots -> Entry \cup {Free}] /\ ptr' \in Slots
BY TableConstants DEF TypeOK, NewSlot, Slots, Entry

\* A record of a request changes the node's entries alone, if it has one.
LEMMA InsertFound ==
  ASSUME TypeOK, NEW n \in Node, NEW q \in 0 .. MaxReq, insert(n, q), Found(n) # {},
         NEW i \in Slots
  PROVE  table'[i] = IF i \in Found(n) THEN [net_id |-> n, req_num |-> q] ELSE table[i]
<1>1. table'[i] = IF i \in Found(n) THEN [table[i] EXCEPT !.req_num = q] ELSE table[i]
  BY DEF insert
<1>2. ASSUME i \in Found(n)
      PROVE  table[i] \in Entry /\ table[i].net_id = n
  BY <1>2 DEF Found, TypeOK
<1>3. QED
  BY <1>1, <1>2 DEF Entry

\* A record of a request keeps the types too.
LEMMA InsertType ==
  ASSUME TypeOK, NEW n \in Node, NEW q \in 0 .. MaxReq, insert(n, q)
  PROVE  table' \in [Slots -> Entry \cup {Free}] /\ ptr' \in Slots
<1>1. CASE Found(n) = {}
  BY <1>1, NewSlotType DEF insert
<1>2. CASE Found(n) # {}
  <2>1. table \in [Slots -> Entry \cup {Free}] /\ ptr \in Slots
    BY DEF TypeOK
  <2>2. ptr' = ptr /\ table' = [i \in Slots |-> table'[i]]
    BY <1>2 DEF insert
  <2>3. ASSUME NEW i \in Slots
        PROVE  table'[i] \in Entry \cup {Free}
    <3>1. [net_id |-> n, req_num |-> q] \in Entry
      BY DEF Entry
    <3>2. table'[i] = [net_id |-> n, req_num |-> q] \/ table'[i] = table[i]
      BY <1>2, InsertFound
    <3>3. QED
      BY <2>1, <3>1, <3>2
  <2>4. QED
    BY <2>1, <2>2, <2>3
<1>3. QED
  BY <1>1, <1>2

\* A node's requests are numbered up to MaxReq.
LEMMA RequestNumbers ==
  ASSUME TypeOK, NEW n \in Node
  PROVE  Len(requests[n]) \in 0 .. MaxReq
<1> DEFINE H == UNION {[1 .. k -> Targets] : k \in 0 .. MaxReq}
<1> HIDE DEF H
<1>1. requests[n] \in H
  <2>1. requests \in [Node -> H]
    BY DEF TypeOK, H
  <2>2. QED
    BY <2>1
<1>2. PICK k \in 0 .. MaxReq : requests[n] \in [1 .. k -> Targets]
  BY <1>1 DEF H
<1>3. Len(requests[n]) = k
  BY <1>2
<1>4. QED
  BY <1>3

\* Every step keeps the types.
LEMMA TypeNext == TypeOK /\ [Next]_vars => TypeOK'
<1> SUFFICES ASSUME TypeOK, [Next]_vars
             PROVE  TypeOK'
  OBVIOUS
<1>1. ASSUME NEW n \in Node, NEW t \in Targets, StartRequest(n, t)
      PROVE  TypeOK'
  BY <1>1, AppendRequest DEF TypeOK, StartRequest
<1>2. ASSUME Remember
      PROVE  lowered' \in [Node -> BOOLEAN]
  BY <1>2 DEF Remember
<1>3. ASSUME NEW n \in Node, NEW q \in 1 .. Len(requests[n]), AnswerRequest(n, q)
      PROVE  TypeOK'
  <2>1. q \in 0 .. MaxReq
    BY RequestNumbers, TableConstants
  <2>2. QED
    BY <1>2, <1>3, <2>1, InsertType DEF TypeOK, AnswerRequest
<1>4. ASSUME NEW n \in Node, NEW q \in 1 .. Len(requests[n]), handleRouteRequest(n, q)
      PROVE  TypeOK'
  <2>1. q \in 0 .. MaxReq /\ q \in 1 .. MaxReq
    BY RequestNumbers, TableConstants
  <2>2. forwarded' \in [Node -> [1 .. MaxReq -> 0 .. 2]]
    <3>1. forwarded \in [Node -> [1 .. MaxReq -> 0 .. 2]]
      BY DEF TypeOK
    <3>2. forwarded[n][q] \in 0 .. 2
      BY <2>1, <3>1
    <3>3. (IF forwarded[n][q] < 2 THEN forwarded[n][q] + 1 ELSE 2) \in 0 .. 2
      BY <3>2
    <3>4. QED
      BY <1>4, <2>1, <3>1, <3>3 DEF handleRouteRequest
  <2>3. QED
    BY <1>2, <1>4, <2>1, <2>2, InsertType DEF TypeOK, handleRouteRequest
<1>5. ASSUME NEW n \in Node, getEntry(n)
      PROVE  TypeOK'
  BY <1>2, <1>5, NewSlotType, TableConstants DEF TypeOK, getEntry
<1>6. CASE UNCHANGED vars
  BY <1>6 DEF TypeOK, vars
<1>7. QED
  BY <1>1, <1>3, <1>4, <1>5, <1>6 DEF Next

\* The initial state has its types.
LEMMA TypeInit == Init => TypeOK
<1> SUFFICES ASSUME Init
             PROVE  TypeOK
  OBVIOUS
<1>1. table \in [Slots -> Entry \cup {Free}] /\ ptr \in Slots
  BY TableConstants DEF Init, Slots
<1>2. requests \in [Node -> UNION {[1 .. n -> Targets] : n \in 0 .. MaxReq}]
  <2>1. <<>> \in [1 .. 0 -> Targets] /\ 0 \in 0 .. MaxReq
    BY TableConstants
  <2> DEFINE H == UNION {[1 .. n -> Targets] : n \in 0 .. MaxReq}
  <2>2. <<>> \in H
    BY <2>1
  <2> HIDE DEF H
  <2>3. requests \in [Node -> H]
    BY <2>2 DEF Init
  <2>4. QED
    BY <2>3 DEF H
<1>3. /\ forwarded \in [Node -> [1 .. MaxReq -> 0 .. 2]]
      /\ lowered \in [Node -> BOOLEAN]
  BY DEF Init
<1>4. QED
  BY <1>1, <1>2, <1>3 DEF TypeOK

\* Slots, pointer and histories keep their types in every reachable state.
THEOREM TypeCorrect == Spec => []TypeOK
BY TypeInit, TypeNext, PTL DEF Spec

-----------------------------------------------------------------------------
(* One entry per node *)

\* Two slots of one node are one slot.
Unique ==
  \A i, j \in Slots :
    table[i] # Free /\ table[j] # Free /\ table[i].net_id = table[j].net_id => i = j

\* A new entry of a node that has none leaves the slots unique.
LEMMA NewSlotUnique ==
  ASSUME TypeOK, Unique, NEW n \in Node, NEW q, NewSlot(n, q), Found(n) = {}
  PROVE  Unique'
BY DEF TypeOK, Unique, NewSlot, Found

\* A record of a request keeps the slots unique: the entry is looked for.
LEMMA InsertUnique ==
  ASSUME TypeOK, Unique, NEW n \in Node, NEW q \in 0 .. MaxReq, insert(n, q)
  PROVE  Unique'
<1>1. CASE Found(n) = {}
  BY <1>1, NewSlotUnique DEF insert
<1>2. CASE Found(n) # {}
  <2>1. \A i \in Slots :
          /\ table'[i] # Free <=> table[i] # Free
          /\ table[i] # Free => table'[i].net_id = table[i].net_id
    <3> TAKE i \in Slots
    <3>1. i \in Found(n) => table[i] # Free /\ table[i].net_id = n
      BY DEF Found
    <3>2. [net_id |-> n, req_num |-> q] # Free
      BY TableConstants DEF Entry
    <3>3. table'[i] = IF i \in Found(n) THEN [net_id |-> n, req_num |-> q] ELSE table[i]
      BY <1>2, InsertFound
    <3>4. QED
      BY <3>1, <3>2, <3>3
  <2>2. QED
    BY <2>1 DEF Unique
<1>3. QED
  BY <1>1, <1>2

\* Every step keeps the slots unique.
LEMMA UniqueNext == TypeOK /\ Unique /\ [Next]_vars => Unique'
<1> SUFFICES ASSUME TypeOK, Unique, [Next]_vars
             PROVE  Unique'
  OBVIOUS
<1>1. ASSUME NEW n \in Node, NEW q \in 1 .. Len(requests[n]),
             AnswerRequest(n, q) \/ handleRouteRequest(n, q)
      PROVE  Unique'
  <2>1. q \in 0 .. MaxReq
    BY RequestNumbers, TableConstants
  <2>2. QED
    BY <1>1, <2>1, InsertUnique DEF AnswerRequest, handleRouteRequest
<1>2. ASSUME NEW n \in Node, getEntry(n)
      PROVE  Unique'
  BY <1>2, NewSlotUnique DEF getEntry
<1>3. CASE UNCHANGED table
  BY <1>3 DEF Unique
<1>4. QED
  BY <1>1, <1>2, <1>3 DEF Next, StartRequest, vars

\* Unique slots are at most one slot.
LEMMA UniqueOne == TypeOK /\ Unique => OneEntryPerNode
<1> SUFFICES ASSUME TypeOK, Unique, NEW n \in Node
             PROVE  Cardinality(Found(n)) <= 1
  BY DEF OneEntryPerNode
<1>1. CASE Found(n) = {}
  BY <1>1, FS_EmptySet
<1>2. CASE Found(n) # {}
  <2>1. PICK i \in Found(n) : TRUE
    BY <1>2
  <2>2. Found(n) = {i}
    BY <2>1 DEF Found, Unique
  <2>3. Cardinality({i}) = 1
    BY FS_Singleton
  <2>4. QED
    BY <2>2, <2>3
<1>3. QED
  BY <1>1, <1>2

\* A node has at most one entry, whatever find, insert and getEntry make of the
\* table and whomever its pointer evicts.
THEOREM OneEntry == Spec => []OneEntryPerNode
<1>1. Init => Unique
  BY DEF Init, Unique
<1>2. QED
  BY <1>1, TypeCorrect, UniqueNext, UniqueOne, PTL DEF Spec

-----------------------------------------------------------------------------
(* A request is forwarded once *)

\* What was forwarded is recorded, while the record has not gone down.
Recorded ==
  \A n \in Node : ~lowered[n] =>
    \A q \in 1 .. MaxReq :
      forwarded[n][q] <= 1 /\ (forwarded[n][q] > 0 => q <= get(n))

\* What is read of a node is a request number.
GetOK == \A n \in Node : get(n) \in 0 .. MaxReq

\* The last entry of a node names a request of it, or none.
LEMMA GetType == TypeOK => GetOK
<1> SUFFICES ASSUME TypeOK, NEW n \in Node
             PROVE  get(n) \in 0 .. MaxReq
  BY DEF GetOK
<1>1. CASE Found(n) = {}
  BY <1>1, TableConstants DEF get
<1>2. CASE Found(n) # {}
  BY <1>2 DEF get, Found, TypeOK, Entry
<1>3. QED
  BY <1>1, <1>2

\* What is recorded of a node is what is read next.
LEMMA InsertGet ==
  ASSUME TypeOK, NEW n \in Node, NEW q \in 0 .. MaxReq, insert(n, q)
  PROVE  get(n)' = q
<1>1. CASE Found(n) = {}
  <2>1. Found(n)' = {ptr} /\ table'[ptr].req_num = q
    BY <1>1, TableConstants DEF insert, NewSlot, Found, TypeOK, Entry
  <2>2. QED
    BY <2>1 DEF get
<1>2. CASE Found(n) # {}
  <2>1. [net_id |-> n, req_num |-> q] # Free
    BY TableConstants DEF Entry
  <2>2. \A i \in Slots :
          table'[i] = IF i \in Found(n) THEN [net_id |-> n, req_num |-> q] ELSE table[i]
    BY <1>2, InsertFound
  <2>3. Found(n)' = Found(n)
    BY <2>1, <2>2 DEF Found
  <2>4. \A i \in Found(n)' : table'[i].req_num = q
    BY <2>2, <2>3 DEF Found
  <2>5. QED
    BY <1>2, <2>3, <2>4 DEF get
<1>3. QED
  BY <1>1, <1>2

\* Every step keeps the records.
LEMMA RecordedNext == TypeOK /\ GetOK /\ GetOK' /\ Recorded /\ [Next]_vars => Recorded'
<1> SUFFICES ASSUME TypeOK, GetOK, GetOK', Recorded, [Next]_vars,
                    NEW n \in Node, ~lowered'[n], NEW q \in 1 .. MaxReq
             PROVE  forwarded'[n][q] <= 1 /\ (forwarded'[n][q] > 0 => q <= get(n)')
  BY DEF Recorded
<1>1. get(n) \in Nat /\ get(n)' \in Nat
  BY TableConstants DEF GetOK
<1>2. ASSUME Remember
      PROVE  ~lowered[n] /\ get(n) <= get(n)'
  <2>1. lowered'[n] = (lowered[n] \/ get(n)' < get(n))
    BY <1>2 DEF Remember
  <2>2. ~lowered[n] /\ ~(get(n)' < get(n))
    BY <2>1
  <2>3. QED
    BY <1>1, <2>2
<1>3. forwarded[n][q] \in Nat
  <2>1. forwarded \in [Node -> [1 .. MaxReq -> 0 .. 2]]
    BY DEF TypeOK
  <2>2. forwarded[n][q] \in 0 .. 2
    BY <2>1
  <2>3. QED
    BY <2>2
<1>4. ASSUME Remember, forwarded'[n][q] = forwarded[n][q]
      PROVE  forwarded'[n][q] <= 1 /\ (forwarded'[n][q] > 0 => q <= get(n)')
  BY <1>1, <1>2, <1>3, <1>4 DEF Recorded
<1>5. ASSUME NEW m \in Node, NEW s \in 1 .. Len(requests[m]), handleRouteRequest(m, s)
      PROVE  forwarded'[n][q] <= 1 /\ (forwarded'[n][q] > 0 => q <= get(n)')
  <2>1. s \in 1 .. MaxReq
    BY RequestNumbers, TableConstants
  <2>2. CASE n = m /\ q = s
    <3>1. get(n) < q /\ get(n)' = q
      BY <1>5, <2>1, <2>2, InsertGet DEF handleRouteRequest
    <3>2. forwarded[n][q] = 0
      BY <1>1, <1>2, <1>3, <1>5, <3>1 DEF Recorded, handleRouteRequest
    <3>3. forwarded \in [Node -> [1 .. MaxReq -> 0 .. 2]]
      BY DEF TypeOK
    <3>4. forwarded' = [forwarded EXCEPT ![m][s] = IF @ < 2 THEN @ + 1 ELSE 2]
      BY <1>5 DEF handleRouteRequest
    <3>5. forwarded'[m][s] = IF forwarded[m][s] < 2 THEN forwarded[m][s] + 1 ELSE 2
      BY <2>1, <3>3, <3>4
    <3>6. forwarded'[n][q] = 1
      BY <2>2, <3>2, <3>5
    <3>7. QED
      BY <3>1, <3>6
  <2>3. CASE ~(n = m /\ q = s)
    <3>1. forwarded'[n][q] = forwarded[n][q]
      BY <1>5, <2>1, <2>3 DEF handleRouteRequest, TypeOK
    <3>2. QED
      BY <1>4, <1>5, <3>1 DEF handleRouteRequest
  <2>4. QED
    BY <2>2, <2>3
<1>6. CASE UNCHANGED <<table, forwarded, lowered>>
  BY <1>6 DEF Recorded, get, Found
<1>7. QED
  BY <1>4, <1>5, <1>6 DEF Next, StartRequest, AnswerRequest, getEntry, vars

\* A request is forwarded once, however late and in whatever order its copies
\* arrive, unless the number kept of its source went down.
THEOREM ForwardOnce == Spec => []ForwardedOnce
<1>1. Init => Recorded
  BY DEF Init, Recorded
<1>2. Recorded => ForwardedOnce
  BY DEF Recorded, ForwardedOnce
<1>3. QED
  BY <1>1, <1>2, TypeCorrect, GetType, RecordedNext, PTL DEF Spec

=============================================================================
