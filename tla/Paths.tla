------------------------------- MODULE Paths --------------------------------
(***************************************************************************)
(* Source routes (path.h, path.cc) and sets of them, as pure operators.    *)
(* A path is a sequence of node addresses; a set of paths stands for what  *)
(* a route cache holds, whatever slots it keeps them in.                   *)
(***************************************************************************)
EXTENDS Naturals, Sequences

\* The nodes that a path asks to forward, its source included: all but the
\* last.
Forwarders(p) == {p[i] : i \in 1 .. Len(p) - 1}

\* p is q, or q and more nodes after it.
Extends(p, q) == Len(q) <= Len(p) /\ SubSeq(p, 1, Len(q)) = q

HasLink(p, a, b) == \E i \in 1 .. Len(p) - 1 : p[i] = a /\ p[i + 1] = b

\* Path p up to the link from a to b (no path repeats a node, so it has the
\* link at most once).
Cut(p, a, b) ==
  IF HasLink(p, a, b)
  THEN SubSeq(p, 1, CHOOSE i \in 1 .. Len(p) - 1 : p[i] = a /\ p[i + 1] = b)
  ELSE p

\* What is left of the paths P when the link is dead: a path of one node is
\* no path.
WithoutLink(P, a, b) == {q \in {Cut(p, a, b) : p \in P} : Len(q) > 1}

\* What is left of the paths P when node n is deleted (Cache::deleteRoute
\* does not look at the last node of a path).
WithoutNode(P, n) == {p \in P : n \notin Forwarders(p)}

\* The paths that a cache may hold after it is given path p: the longer of p
\* and a path that it extends or that extends it, or p in the place of one
\* that is evicted, or p in a free slot.
Insertions(P, p) ==
  {P \cup {p}} \cup {(P \ {q}) \cup {p} : q \in P}
    \cup {R \in {P} : \E q \in P : Extends(q, p)}

\* As Insertions, for a path that moves from the secondary cache to the
\* primary one and may be absorbed there.
Promotions(P, p) ==
  Insertions(P, p) \cup {R \in {P \ {p}} : \E q \in R : Extends(q, p)}

\* What a lookup that ends at p may do to the paths: nothing, or promote p.
Lookups(P, p) == {P} \cup Promotions(P, p)

\* The parts of P's paths that end at d.
ToDest(P, d) ==
  UNION {{SubSeq(p, 1, i) : i \in {j \in 2 .. Len(p) : p[j] = d}} : p \in P}

\* The routes to d that a lookup may return.
Shortest(P, d) == {q \in ToDest(P, d) : \A r \in ToDest(P, d) : Len(q) <= Len(r)}

\* Path p without its double backs: after each node comes what follows the last
\* place where p has it.
compressPath(p) ==
  LET last(i) ==
        CHOOSE j \in i .. Len(p) : p[j] = p[i] /\ \A k \in j + 1 .. Len(p) : p[k] # p[i]
      from[i \in 1 .. Len(p) + 1] ==
        IF i > Len(p) THEN <<>> ELSE <<p[i]>> \o from[last(i) + 1]
  IN from[1]

=============================================================================
