---------------------------- MODULE MCOceanPair -----------------------------
(* Small instances of OceanPair for TLC. *)
EXTENDS OceanPair, TLC

CONSTANTS a, b

MCFaultyThreshold == -2
MCSecChanceRating == -1

\* The two agents are interchangeable.
Symmetry == Permutations(Agent)

=============================================================================
