----------------------------- MODULE MobiCache ------------------------------
(***************************************************************************)
(* The route cache of an agent (mobicache.cc): a primary cache for the     *)
(* routes the agent asked for and a secondary one for those it overheard,  *)
(* each an array of slots with a round-robin pointer to the next victim.   *)
(* An empty slot holds the empty path.                                     *)
(***************************************************************************)
EXTENDS Paths

CONSTANTS
  Me,      \* net_id
  Node,    \* the other nodes
  Route,   \* the paths from Me that there are to learn: simple ones, as
           \*   RoutesSimple of module Network says
  Heard,   \* the source routes that are overheard
  PSize,   \* slots of the primary cache (30)
  SSize    \* slots of the secondary cache (64)

ASSUME CacheAssumption ==
  /\ Me \notin Node
  /\ \A p \in Route :
       /\ p \in Seq(Node \cup {Me}) /\ Len(p) >= 2 /\ p[1] = Me
       /\ \A i, j \in 1 .. Len(p) : p[i] = p[j] => i = j
  /\ PSize \in Nat \ {0}
  /\ SSize \in Nat \ {0}

VARIABLES
  primary,     \* the paths of the primary cache, by slot
  secondary,   \* the paths of the secondary cache, by slot
  pvictim,     \* victim_ptr of the primary cache
  svictim,     \* victim_ptr of the secondary cache
  known        \* history: links learned and not reported lost since

vars == <<primary, secondary, pvictim, svictim, known>>

TypeOK ==
  /\ primary \in [1 .. PSize -> Seq(Node \cup {Me})]
  /\ secondary \in [1 .. SSize -> Seq(Node \cup {Me})]
  /\ pvictim \in 1 .. PSize
  /\ svictim \in 1 .. SSize
  /\ known \subseteq (Node \cup {Me}) \X Node

Init ==
  /\ primary = [i \in 1 .. PSize |-> <<>>]
  /\ secondary = [i \in 1 .. SSize |-> <<>>]
  /\ pvictim = 1
  /\ svictim = 1
  /\ known = {}

-----------------------------------------------------------------------------
(* class Cache: one array c of slots with victim pointer v *)

Links(p) == {<<p[i], p[i + 1]>> : i \in 1 .. Len(p) - 1}

First(S) == CHOOSE i \in S : \A j \in S : i <= j

\* The slots whose path is a prefix of p, or that p is a prefix of.  An empty
\* slot always is one, so the victim pointer is used only in a full cache.
Fitting(c, p) == {i \in DOMAIN c : Extends(p, c[i]) \/ Extends(c[i], p)}

Slot(c, v, p) == IF Fitting(c, p) = {} THEN v ELSE First(Fitting(c, p))

\* Mutant of Added: the suffix is appended from the path's first node on.
AddedWhole(c, v, p) ==
  [c EXCEPT ![Slot(c, v, p)] =
     IF Extends(@, p) THEN @
     ELSE IF Extends(p, @) THEN @ \o p
     ELSE p]

\* Mutant of Added: a cached prefix absorbs the longer path.
AddedAbsorbed(c, v, p) ==
  [c EXCEPT ![Slot(c, v, p)] =
     IF Extends(@, p) \/ (@ # <<>> /\ Extends(p, @)) THEN @ ELSE p]

\* The array after Cache::addRoute(p).
Added(c, v, p) ==
  [c EXCEPT ![Slot(c, v, p)] = IF Extends(@, p) THEN @ ELSE p]

\* Mutant of NextVictim: the pointer wraps to the wrong slot.
NextVictimZero(c, v, p) ==
  IF Fitting(c, p) = {} THEN (v + 1) % Len(c) ELSE v

NextVictim(c, v, p) ==
  IF Fitting(c, p) = {} THEN (v % Len(c)) + 1 ELSE v

\* The array after Cache::deleteRoute(n): it does not look at last nodes.
Deleted(c, n) ==
  [i \in DOMAIN c |-> IF n \in Forwarders(c[i]) THEN <<>> ELSE c[i]]

\* Mutant of Truncated: a path whose first link is dead is cut like the others.
TruncatedToFirst(c, a, b) == [i \in DOMAIN c |-> Cut(c[i], a, b)]

\* The array after Cache::noticeDeadLink(a, b): paths are cut before the link.
Truncated(c, a, b) ==
  [i \in DOMAIN c |-> IF Len(Cut(c[i], a, b)) > 1 THEN Cut(c[i], a, b)
                      ELSE <<>>]

Holding(c, d) == {i \in DOMAIN c : \E n \in 1 .. Len(c[i]) : c[i][n] = d}

Position(p, d) == CHOOSE n \in 1 .. Len(p) : p[n] = d

\* The slot where findRoute's loop over searchRoute ends up: the nearest d,
\* the first such slot.
Nearest(c, d) ==
  First({i \in Holding(c, d) :
           \A j \in Holding(c, d) : Position(c[i], d) <= Position(c[j], d)})

-----------------------------------------------------------------------------
(* class MobiCache *)

\* Mutant of InSecondary: the secondary cache is searched only after a miss.
InSecondaryAfterMiss(d) ==
  Holding(secondary, d) # {} /\ Holding(primary, d) = {}

\* findRoute prefers the secondary cache only when it is strictly shorter.
InSecondary(d) ==
  /\ Holding(secondary, d) # {}
  /\ Holding(primary, d) # {} =>
       Position(secondary[Nearest(secondary, d)], d)
         < Position(primary[Nearest(primary, d)], d)

\* The path that holds the route to d which findRoute returns.
FoundIn(d) == IF InSecondary(d) THEN secondary[Nearest(secondary, d)]
              ELSE primary[Nearest(primary, d)]

Reached(d) == Holding(primary, d) # {} \/ Holding(secondary, d) # {}

\* Hops of the route to d that findRoute returns.
Hops(d) == Position(FoundIn(d), d) - 1

addRoute(p) ==
  /\ primary' = Added(primary, pvictim, p)
  /\ pvictim' = NextVictim(primary, pvictim, p)
  /\ known' = known \cup Links(p)
  /\ UNCHANGED <<secondary, svictim>>

\* pre_noticeRouteUsed: the part of an overheard route that starts at this
\* node; none when the route ends here.  Only route replies are snooped, and
\* the index of theirs is 0: one without this node on it is passed over.
Stubs(h) ==
  {SubSeq(h, c, Len(h)) : c \in {i \in 1 .. Len(h) - 1 : h[i] = Me}}

\* What is overheard is there to learn.
ASSUME HeardAssumption == \A h \in Heard : Stubs(h) \subseteq Route

noticeRouteUsed(h) ==
  \E p \in Stubs(h) :
    /\ secondary' = Added(secondary, svictim, p)
    /\ svictim' = NextVictim(secondary, svictim, p)
    /\ known' = known \cup Links(p)
    /\ UNCHANGED <<primary, pvictim>>

\* findRoute on behalf of this agent (for_me): a path found in the secondary
\* cache moves to the primary one, where another may have to go.  Every other
\* lookup leaves the caches alone.
findRoute(d) ==
  /\ InSecondary(d)
  /\ LET i == Nearest(secondary, d)
     IN /\ primary' = Added(primary, pvictim, secondary[i])
        /\ pvictim' = NextVictim(primary, pvictim, secondary[i])
        /\ secondary' = [secondary EXCEPT ![i] = <<>>]
  /\ UNCHANGED <<svictim, known>>

deleteRoute(n) ==
  /\ primary' = Deleted(primary, n)
  /\ secondary' = Deleted(secondary, n)
  /\ known' = {l \in known : l[1] # n}
  /\ UNCHANGED <<pvictim, svictim>>

\* Mutant of noticeDeadLink: the overheard routes are not looked at.
noticeDeadLinkPrimary(a, b) ==
  /\ primary' = Truncated(primary, a, b)
  /\ known' = known \ {<<a, b>>}
  /\ UNCHANGED <<secondary, pvictim, svictim>>

noticeDeadLink(a, b) ==
  /\ primary' = Truncated(primary, a, b)
  /\ secondary' = Truncated(secondary, a, b)
  /\ known' = known \ {<<a, b>>}
  /\ UNCHANGED <<pvictim, svictim>>

Next ==
  \/ \E p \in Route : addRoute(p)
  \/ \E h \in Heard : noticeRouteUsed(h)
  \/ \E d \in Node : findRoute(d)
  \/ \E n \in Node : deleteRoute(n)
  \/ \E a \in Node \cup {Me}, b \in Node : noticeDeadLink(a, b)

Spec == Init /\ [][Next]_vars

-----------------------------------------------------------------------------

Cached ==
  ({primary[i] : i \in 1 .. PSize} \cup {secondary[i] : i \in 1 .. SSize})
    \ {<<>>}

\* mobicache.cc:76, the invariants of the cache: "no path contains an id more
\* than once", "all paths start with the id of our node", whatever was
\* appended, cut, moved and evicted on the way.
PathsWellFormed ==
  \A p \in Cached :
    /\ Len(p) >= 2
    /\ p[1] = Me
    /\ \A i, j \in 1 .. Len(p) : p[i] = p[j] => i = j

\* No cached path uses a link that was reported dead, or that leaves a node
\* whose routes were deleted, unless the link was learned again since.
CachedLinksKnown == \A p \in Cached : Links(p) \subseteq known

\* findRoute returns a shortest of the cached routes.
FoundIsShortest ==
  \A d \in Node : Reached(d) =>
    \A p \in Cached : \A n \in 1 .. Len(p) : p[n] = d => Hops(d) <= n - 1

\* A route that was just added leads to each of its nodes in no more hops
\* than it has, whichever slot took or absorbed it.
AddedRouteFound ==
  [][\A p \in Route : addRoute(p) =>
       \A i \in 2 .. Len(p) : Reached(p[i])' /\ Hops(p[i])' <= i - 1]_vars

\* A search that promotes a path makes no node unreachable, or farther away, but
\* those that the primary cache's victim led to, and that only when it is full.
SearchLosesVictim ==
  [][\A d \in Node : findRoute(d) =>
       \A n \in Node : Reached(n) =>
         \/ Reached(n)' /\ Hops(n)' <= Hops(n)
         \/ /\ \A i \in 1 .. PSize : primary[i] # <<>>
            /\ \E k \in 1 .. Len(primary[pvictim]) : primary[pvictim][k] = n]_vars

Store == INSTANCE RouteStore WITH routes <- Cached

\* The two caches are a route store.
IsRouteStore == Store!Spec

=============================================================================
