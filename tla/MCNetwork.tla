----------------------------- MODULE MCNetwork ------------------------------
(* A source S and a destination D, which only relay B hears; A is a relay   *)
(* between S and B, of any role, that may also be faulty or listed.         *)
EXTENDS Network

CONSTANTS S, A, B, D

MCLinks == {{S, A}, {A, B}, {S, B}, {B, D}}
MCStart == {{S, A}, {A, B}, {B, D}}
MCFlow == {<<S, D>>}
MCCanList == {<<S, A>>}
Roles(r) == [n \in Node |-> IF n = A THEN r ELSE "normal"]
MCSetups ==
  {<<Roles(r), {}>> : r \in {"normal", "selfish", "malicious"}}
    \cup {<<Roles("normal"), {"cache", "gratuitous"}>>}
MCMaxMoves == [s \in SUBSET {"cache", "gratuitous"} |-> IF s = {} THEN 3 ELSE 2]

=============================================================================
