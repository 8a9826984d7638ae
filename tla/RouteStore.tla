----------------------------- MODULE RouteStore -----------------------------
(***************************************************************************)
(* What a route cache promises its agent: a set of paths from the agent.   *)
(* Module Ocean keeps its routes this way; module MobiCache, with its two  *)
(* arrays of slots and its rules for filling them, implements it.          *)
(***************************************************************************)
EXTENDS Paths

CONSTANTS
  Me,     \* the agent that owns the cache
  Node,   \* the other nodes
  Route   \* the paths from Me

VARIABLE routes

Init == routes = {}

\* A path is learned; it may be absorbed, or take the place of another.
Learn(p) == routes' \in Insertions(routes, p)

\* A cached path is looked up for the agent's own use.
Use(p) == routes' \in Lookups(routes, p)

LoseLink(a, b) == routes' = WithoutLink(routes, a, b)

LoseNode(n) == routes' = WithoutNode(routes, n)

Next ==
  \/ \E p \in Route : Learn(p)
  \/ \E p \in routes : Use(p)
  \/ \E a, b \in Node \cup {Me} : LoseLink(a, b)
  \/ \E n \in Node : LoseNode(n)

Spec == Init /\ [][Next]_routes

=============================================================================
