--------------------------- MODULE MCRequestTable ---------------------------
(* Small instances of RequestTable for TLC. *)
EXTENDS RequestTable, TLC

CONSTANTS n1, n2, n3

\* The nodes are interchangeable.
Symmetry == Permutations(Node)

=============================================================================
