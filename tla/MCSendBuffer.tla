---------------------------- MODULE MCSendBuffer ----------------------------
(* Two destinations and two slots: a slot for each, or both for one. *)
EXTENDS SendBuffer, TLC

Symmetry == Permutations(Dest)

=============================================================================
