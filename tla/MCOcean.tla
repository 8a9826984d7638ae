------------------------------ MODULE MCOcean -------------------------------
(* Small instances of Ocean for TLC. *)
EXTENDS Ocean

CONSTANTS n1, n2

\* Two blames list a node, one praise leads to the best rating.
MCFaultyThreshold == -3
MCSecChanceRating == -1

OneRelay  == {<<Me, n1>>, <<Me, n1, n2>>}
TwoRelays == {<<Me, n1>>, <<Me, n1, n2>>, <<Me, n2>>}

=============================================================================
