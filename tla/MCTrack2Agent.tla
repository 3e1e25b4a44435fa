--------------------------- MODULE MCTrack2Agent ---------------------------
(* Instances of Track2Agent for TLC. *)
EXTENDS Track2Agent

Seconds == {0}
=============================================================================
