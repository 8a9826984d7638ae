--------------------------- MODULE MCFaultyTimer ----------------------------
(* Small instances of FaultyTimer for TLC. *)
EXTENDS FaultyTimer

=============================================================================
