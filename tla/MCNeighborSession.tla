-------------------------- MODULE MCNeighborSession --------------------------
(* Instances of NeighborSession for TLC. *)
EXTENDS NeighborSession

Msg(type, content) ==
  [type |-> type, hold_time |-> 90, content |-> content]

\* A peer that sets sessions up.
MCHandshake == {Msg("OpenMsg", "empty"), Msg("KeepAliveMsg", "empty")}

\* ... and one that then announces a route.
MCAnnouncing == MCHandshake \cup {Msg("UpdateMsg", "nlri")}

MCHoldTimes == {90}
MCEvents == GeneratedEvents
=============================================================================
