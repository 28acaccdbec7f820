----------------------------- MODULE MCKeepalives -----------------------------
(* Instances of Keepalives for TLC. *)
EXTENDS Keepalives

\* None, one shorter than the keepalive interval, and ours: with the largest the
\* peer hears us in time, however late the timers are looked at.
MCHoldTimes == {0, 1, 5}
MCReceivable ==
  [type : {"OpenMsg"}, hold_time : MCHoldTimes, content : {"empty"}]
    \cup {Plain("KeepAliveMsg"), Plain("NotifMsg"), Plain("SendUpdateMsg"),
          [Plain("UpdateMsg") EXCEPT !.content = "nlri"]}

MCEvents == GeneratedEvents
=============================================================================
