---------------------------- MODULE MCNeighborFSM ----------------------------
(* Instances of NeighborFSM for TLC. *)
EXTENDS NeighborFSM

\* The events some task of the program generates.
MCGeneratedEvents ==
  {"AutomaticStartWithPassiveTcpEstablishment", "ConnectRetryTimerExpires",
   "HoldTimerExpires", "KeepaliveTimerExpires", "TcpCRAcked",
   "TcpConnectionFails", "OpenMsg", "KeepAliveMsg", "UpdateMsg", "NotifMsg",
   "SendUpdateMsg"}

\* Every variant of Event.
MCAllEvents == AllEventTypes

\* None, the least legal one, ours and a longer one.
MCHoldTimes == {0, 3, 90, 180}
=============================================================================
