----------------------------- MODULE NeighborFSM -----------------------------
(***************************************************************************)
(* The finite state machine of one BGP neighbor: Neighbor::handle_event    *)
(* (neighbors.rs), the FSM struct (finite_state_machine.rs) and its timers *)
(* (timers.rs).                                                            *)
(*                                                                         *)
(* A handler runs to its end while its task holds the neighbor's mutex, so *)
(* Handle(e, w) is one step.  What the handler hands to others (a signal   *)
(* to the neighbor loop, a message to the process, bytes on the wire) is   *)
(* left in `out`; NeighborSession routes it.                               *)
(***************************************************************************)
EXTENDS Integers, Sequences

CONSTANTS DelayOpen,                \* fsm.delay_open
          PassiveTcpEstablishment,  \* fsm.passive_tcp_establishment
          InitialHoldTime,          \* FSM::default().hold_time
          OpenHoldTimes,            \* hold times a peer's Open may carry
          EventTypes                \* the events this instance may be given

States == {"Idle", "Connect", "Active", "OpenSent", "OpenConfirm",
           "Established"}

StartEvents == {"ManualStart", "AutomaticStart"}
PassiveStartEvents == {"ManualStartWithPassiveTcpEstablishment",
                       "AutomaticStartWithPassiveTcpEstablishment"}
DampStartEvents == {"AutomaticStartWithDampPeerOscillations",
      "AutomaticStartWithDampPeerOscillationsAndPassiveTcpEstablishment"}
TimerEvents == {"ConnectRetryTimerExpires", "HoldTimerExpires",
                "KeepaliveTimerExpires", "DelayOpenTimerExpires",
                "IdleHoldTimerExpires"}
TcpEstablishedEvents == {"TcpCRAcked", "TcpConnectionConfirmed"}
ErrorEvents == {"BGPHeaderErr", "BGPOpenMsgErr"}

AllEventTypes ==
  StartEvents \cup PassiveStartEvents \cup DampStartEvents \cup TimerEvents
    \cup TcpEstablishedEvents \cup ErrorEvents
    \cup {"ManualStop", "AutomaticStop", "TcpConnectionValid",
          "TcpCRInvalid", "TcpConnectionFails", "OpenMsg",
          "BGPOpenWithDelayOpenTimerRunning", "OpenCollisionDump",
          "NotifMsgVerErr", "NotifMsg", "KeepAliveMsg", "UpdateMsg",
          "RouteRefreshMsg", "UpdateMsgErr", "SendUpdateMsg"}

\* What an UpdateMsg carries, as far as the handler looks at it.  "invalid":
\* an NLRI without one of the three mandatory attributes.
UpdateContents == {"nlri", "withdrawn", "invalid", "empty"}

\* The payload of an event: only OpenMsg has a hold time and only UpdateMsg a
\* content; the other events carry InitialHoldTime and "empty" as filler.
Event ==
  {e \in [type : EventTypes, hold_time : OpenHoldTimes \cup {InitialHoldTime},
          content : UpdateContents] :
     /\ e.type = "OpenMsg" => e.hold_time \in OpenHoldTimes
     /\ e.type # "OpenMsg" => e.hold_time = InitialHoldTime
     /\ e.type # "UpdateMsg" => e.content = "empty"}

\* The outcome of a write on tcp_write_stream: there is none, it fails, or not.
WriteResults == {"ok", "none", "error"}

TimerNames == {"connect_retry", "hold", "keepalive", "delay_open", "idle_hold"}
TimerStates == {"off", "on", "due"}

Nothing == "nothing"
Outputs == {Nothing, "DropTCP", "Open", "Keepalive", "Update", "NeighborUp",
            "Route", "WithdrawRoute",
            "AutomaticStartWithPassiveTcpEstablishment"}

ASSUME FSMConstants ==
  /\ DelayOpen \in BOOLEAN /\ PassiveTcpEstablishment \in BOOLEAN
  /\ InitialHoldTime \in Nat /\ OpenHoldTimes \subseteq Nat
  /\ EventTypes \subseteq AllEventTypes

VARIABLES state,                  \* fsm.state
          connect_retry_counter,  \* fsm.connect_retry_counter
          hold_time,              \* fsm.hold_time
          timers,                 \* the five Timers of the FSM
          out                     \* what the last step handed to others

fsmVars == <<state, connect_retry_counter, hold_time, timers, out>>

-----------------------------------------------------------------------------
(* Timers.  A timer is off (current_time is None), on, or due (elapsed).   *)

Armed(secs) == IF secs = 0 THEN "due" ELSE "on"

Stop(names) == [t \in TimerNames |-> IF t \in names THEN "off" ELSE timers[t]]

\* Stops `off`, starts `on` for a positive time.
Restart(off, on) ==
  [t \in TimerNames |-> IF t \in on THEN "on"
                        ELSE IF t \in off THEN "off" ELSE timers[t]]

\* delay_open_timer.is_running(): Err when the timer was never started.
DelayOpenStarted == timers["delay_open"] # "off"
DelayOpenRunning == timers["delay_open"] = "on"

\* A running timer reaches its max_time.
Elapse(t) ==
  /\ timers[t] = "on"
  /\ timers' = [timers EXCEPT ![t] = "due"]
  /\ out' = Nothing
  /\ UNCHANGED <<state, connect_retry_counter, hold_time>>

-----------------------------------------------------------------------------
(* What the handlers have in common.                                       *)

Min2(a, b) == IF a <= b THEN a ELSE b

Drop == "DropTCP"

\* An event the state does not handle, or handles by doing nothing.
Ignore ==
  /\ out' = Nothing
  /\ UNCHANGED <<state, connect_retry_counter, hold_time, timers>>

GoIdle(counter, newTimers, sends) ==
  /\ state' = "Idle"
  /\ connect_retry_counter' = counter
  /\ timers' = newTimers
  /\ out' = sends
  /\ UNCHANGED hold_time

Goto(s, newTimers, sends) ==
  /\ state' = s
  /\ timers' = newTimers
  /\ out' = sends
  /\ UNCHANGED <<connect_retry_counter, hold_time>>

\* Mutant: a failure counts down (the u16 would wrap).
FailedDown == connect_retry_counter - 1

Failed == connect_retry_counter + 1

\* idle_hold_timer: started by some teardowns of a neighbor that is not passive.
OrIdleHold(newTimers) ==
  IF PassiveTcpEstablishment THEN newTimers
  ELSE [newTimers EXCEPT !["idle_hold"] = "on"]

\* hold_timer and keepalive_timer run unless the hold time is 0.
\* Mutant: the keepalive timer is forgotten.
SessionTimersHoldOnly(secs, off) ==
  IF secs = 0 THEN Stop(off \cup {"hold", "keepalive"})
  ELSE Restart(off, {"hold"})

SessionTimers(secs, off) ==
  IF secs = 0 THEN Stop(off \cup {"hold", "keepalive"})
  ELSE Restart(off, {"hold", "keepalive"})

-----------------------------------------------------------------------------
(* State::Idle                                                             *)

\* Mutant: the counter is not reset.
IdleStartKeepsCounter(e) ==
  /\ e.type \in StartEvents \cup PassiveStartEvents
  /\ Goto(IF e.type \in PassiveStartEvents THEN "Active" ELSE "Connect",
          Restart({}, {"connect_retry"}), Nothing)

IdleStart(e) ==
  /\ e.type \in StartEvents \cup PassiveStartEvents
  /\ state' = IF e.type \in PassiveStartEvents THEN "Active" ELSE "Connect"
  /\ connect_retry_counter' = 0
  /\ timers' = Restart({}, {"connect_retry"})
  /\ out' = Nothing
  /\ UNCHANGED hold_time

IdleHoldTimerExpires(e) ==
  /\ e.type = "IdleHoldTimerExpires"
  /\ Goto("Idle", Stop({"idle_hold"}),
          "AutomaticStartWithPassiveTcpEstablishment")

IdleIgnores(e) ==
  /\ e.type \notin StartEvents \cup PassiveStartEvents
                    \cup {"IdleHoldTimerExpires"}
  /\ Ignore

HandleIdle(e) == IdleStart(e) \/ IdleHoldTimerExpires(e) \/ IdleIgnores(e)

-----------------------------------------------------------------------------
(* State::Connect and State::Active                                        *)

\* Mutant: connect_retry_timer keeps running into OpenSent.
SendOpenKeepsRetryTimer(e, w) ==
  /\ e.type \in TcpEstablishedEvents
  /\ Goto("OpenSent", Restart({}, {"hold"}),
          IF w = "ok" THEN "Open" ELSE Nothing)

\* TcpCRAcked / TcpConnectionConfirmed.  A failed write returns early, after
\* connect_retry_timer was stopped; a missing stream is only logged.
SendOpen(e, w) ==
  /\ e.type \in TcpEstablishedEvents
  /\ IF DelayOpen
     THEN Goto(state, Restart({"connect_retry"}, {"delay_open"}), Nothing)
     ELSE IF w = "error" THEN Goto(state, Stop({"connect_retry"}), Nothing)
     ELSE Goto("OpenSent", Restart({"connect_retry"}, {"hold"}),
               IF w = "ok" THEN "Open" ELSE Nothing)

\* DelayOpenTimerExpires: on to OpenSent (no Open is sent).
DelayOpenExpires(e, stopped) ==
  /\ e.type = "DelayOpenTimerExpires"
  /\ Goto("OpenSent", Restart(stopped, {"hold"}), Nothing)

\* BGPOpenWithDelayOpenTimerRunning: the peer's Open before ours.
OpenBeforeDelay(e) ==
  /\ e.type = "BGPOpenWithDelayOpenTimerRunning"
  /\ Goto("OpenConfirm",
          SessionTimers(hold_time, {"connect_retry", "delay_open"}), Nothing)

\* NotifMsgVerErr; is_running()? returns early when the timer was never started.
VersionError(e) ==
  /\ e.type = "NotifMsgVerErr"
  /\ IF ~DelayOpenStarted THEN Ignore
     ELSE IF DelayOpenRunning
     THEN GoIdle(connect_retry_counter,
                 Stop({"connect_retry", "delay_open"}), Drop)
     ELSE GoIdle(Failed, Stop({"connect_retry"}), Nothing)

ConnectRetryExpires(e) ==
  /\ e.type = "ConnectRetryTimerExpires"
  /\ Goto("Connect", Restart({"delay_open"}, {"connect_retry"}), Drop)

ConnectTcpFails(e) ==
  /\ e.type = "TcpConnectionFails"
  /\ IF ~DelayOpenStarted THEN Ignore
     ELSE IF DelayOpenRunning
     THEN Goto("Active", Restart({"delay_open"}, {"connect_retry"}), Nothing)
     ELSE GoIdle(connect_retry_counter,
                 OrIdleHold(Stop({"connect_retry"})), Drop)

ConnectFailures == {"AutomaticStop", "HoldTimerExpires",
                    "KeepaliveTimerExpires", "IdleHoldTimerExpires", "OpenMsg"}

ConnectTeardown(e) ==
  \/ /\ e.type = "ManualStop"
     /\ GoIdle(0, Stop({"connect_retry"}), Drop)
  \/ /\ e.type \in ErrorEvents
     /\ GoIdle(Failed, Stop({"connect_retry"}), Drop)
  \/ /\ e.type = "TcpCRInvalid"
     /\ Goto("Connect", timers, Drop)
  \/ /\ e.type \in ConnectFailures
     /\ GoIdle(Failed, Stop({"connect_retry", "delay_open"}), Drop)

ConnectIgnores(e) ==
  /\ e.type \in StartEvents \cup PassiveStartEvents \cup DampStartEvents
                \cup {"TcpConnectionValid", "OpenCollisionDump", "NotifMsg",
                      "KeepAliveMsg", "UpdateMsg", "RouteRefreshMsg",
                      "UpdateMsgErr", "SendUpdateMsg"}
  /\ Ignore

HandleConnect(e, w) ==
  \/ SendOpen(e, w)
  \/ DelayOpenExpires(e, {})
  \/ OpenBeforeDelay(e)
  \/ VersionError(e)
  \/ ConnectRetryExpires(e)
  \/ ConnectTcpFails(e)
  \/ ConnectTeardown(e)
  \/ ConnectIgnores(e)

\* Mutant: the timer is stopped and not started again.
ActiveRetryStops(e) ==
  /\ e.type = "ConnectRetryTimerExpires"
  /\ Goto("Connect", Stop({"connect_retry"}), Nothing)

ActiveRetry(e) ==
  /\ e.type = "ConnectRetryTimerExpires"
  /\ Goto("Connect", Restart({}, {"connect_retry"}), Nothing)

ActiveTcpFails(e) ==
  /\ e.type = "TcpConnectionFails"
  /\ GoIdle(Failed,
            OrIdleHold(Restart({"delay_open"}, {"connect_retry"})), Drop)

ActiveFailures == {"AutomaticStop", "HoldTimerExpires", "KeepaliveTimerExpires",
                   "IdleHoldTimerExpires", "OpenMsg", "OpenCollisionDump",
                   "NotifMsg", "KeepAliveMsg", "UpdateMsg", "RouteRefreshMsg",
                   "UpdateMsgErr"} \cup ErrorEvents

ActiveTeardown(e) ==
  \/ /\ e.type = "ManualStop"
     /\ IF DelayOpenStarted
        THEN GoIdle(0, Stop({"connect_retry", "delay_open"}), Drop)
        ELSE Ignore
  \/ /\ e.type \in ActiveFailures
     /\ GoIdle(Failed, Stop({"connect_retry"}), Drop)

ActiveIgnores(e) ==
  /\ e.type \in StartEvents \cup PassiveStartEvents \cup DampStartEvents
                \cup {"TcpConnectionValid", "TcpCRInvalid", "SendUpdateMsg"}
  /\ Ignore

HandleActive(e, w) ==
  \/ SendOpen(e, w)
  \/ DelayOpenExpires(e, {"connect_retry", "delay_open"})
  \/ OpenBeforeDelay(e)
  \/ VersionError(e)
  \/ ActiveRetry(e)
  \/ ActiveTcpFails(e)
  \/ ActiveTeardown(e)
  \/ ActiveIgnores(e)

-----------------------------------------------------------------------------
(* State::OpenSent and State::OpenConfirm                                  *)

\* Mutant: the peer's hold time is taken whatever ours is.
OpenSentOpenMsgTakesTheirs(e, w) ==
  /\ e.type = "OpenMsg"
  /\ state' = "OpenConfirm"
  /\ hold_time' = e.hold_time
  /\ timers' = SessionTimers(e.hold_time, {"delay_open", "connect_retry"})
  /\ out' = Nothing
  /\ UNCHANGED connect_retry_counter

\* The peer's Open is answered with a Keepalive.  A failed write returns early,
\* after both timers were stopped.  (The AS check compares only an AS2
\* neighbor; populate_neighbors_from_config creates AS4 ones.)
OpenSentOpenMsg(e, w) ==
  /\ e.type = "OpenMsg"
  /\ IF w = "error"
     THEN Goto("OpenSent", Stop({"delay_open", "connect_retry"}), Nothing)
     ELSE LET agreed == Min2(e.hold_time, hold_time) IN
          /\ state' = "OpenConfirm"
          /\ hold_time' = agreed
          /\ timers' = SessionTimers(agreed, {"delay_open", "connect_retry"})
          /\ out' = IF w = "ok" THEN "Keepalive" ELSE Nothing
          /\ UNCHANGED connect_retry_counter

OpenSentTcpFails(e) ==
  /\ e.type = "TcpConnectionFails"
  /\ Goto("Active", Restart({}, {"connect_retry"}), Nothing)

OpenSentFailures == {"AutomaticStop", "HoldTimerExpires", "OpenCollisionDump",
                     "ConnectRetryTimerExpires", "KeepaliveTimerExpires",
                     "DelayOpenTimerExpires", "IdleHoldTimerExpires",
                     "BGPOpenWithDelayOpenTimerRunning", "NotifMsg",
                     "RouteRefreshMsg", "KeepAliveMsg", "UpdateMsg",
                     "UpdateMsgErr"}

OpenSentTeardown(e) ==
  \/ /\ e.type = "ManualStop"
     /\ GoIdle(0, Stop({"connect_retry"}), Drop)
  \/ /\ e.type = "NotifMsgVerErr"
     /\ GoIdle(connect_retry_counter, Stop({"connect_retry"}), Drop)
  \/ /\ e.type \in OpenSentFailures
     /\ GoIdle(Failed, Stop({"connect_retry"}), Drop)
  \/ /\ e.type \in ErrorEvents
     /\ GoIdle(Failed, Stop({"connect_retry"}), Nothing)

OpenSentIgnores(e) ==
  /\ e.type \in StartEvents \cup PassiveStartEvents \cup DampStartEvents
                \cup TcpEstablishedEvents
                \cup {"TcpConnectionValid", "TcpCRInvalid", "SendUpdateMsg"}
  /\ Ignore

HandleOpenSent(e, w) ==
  \/ OpenSentOpenMsg(e, w)
  \/ OpenSentTcpFails(e)
  \/ OpenSentTeardown(e)
  \/ OpenSentIgnores(e)

\* hold_timer is started whatever hold_time is: for 0 it is due at once.
OpenConfirmKeepAliveMsg(e) ==
  /\ e.type = "KeepAliveMsg"
  /\ Goto("Established", [timers EXCEPT !["hold"] = Armed(hold_time)],
          "NeighborUp")

OpenConfirmKeepaliveExpires(e) ==
  /\ e.type = "KeepaliveTimerExpires"
  /\ Goto("OpenConfirm", Restart({}, {"keepalive"}), Nothing)

OpenConfirmFailures == {"AutomaticStop", "HoldTimerExpires",
                        "TcpConnectionFails", "NotifMsg", "OpenCollisionDump"}

\* The failures after which the connection is not dropped.
OpenConfirmQuietFailures == {"ConnectRetryTimerExpires",
                             "DelayOpenTimerExpires", "IdleHoldTimerExpires",
                             "BGPOpenWithDelayOpenTimerRunning", "UpdateMsg",
                             "UpdateMsgErr"} \cup ErrorEvents

OpenConfirmTeardown(e) ==
  \/ /\ e.type = "ManualStop"
     /\ GoIdle(0, Stop({"connect_retry"}), Drop)
  \/ /\ e.type = "NotifMsgVerErr"
     /\ GoIdle(connect_retry_counter, Stop({"connect_retry"}), Drop)
  \/ /\ e.type \in OpenConfirmFailures
     /\ GoIdle(Failed, IF e.type \in {"TcpConnectionFails", "NotifMsg"}
                       THEN OrIdleHold(Stop({"connect_retry"}))
                       ELSE Stop({"connect_retry"}), Drop)
  \/ /\ e.type \in OpenConfirmQuietFailures
     /\ GoIdle(Failed, Stop({"connect_retry"}), Nothing)

OpenConfirmIgnores(e) ==
  /\ e.type \in StartEvents \cup PassiveStartEvents \cup DampStartEvents
                \cup TcpEstablishedEvents
                \cup {"TcpConnectionValid", "TcpCRInvalid", "OpenMsg",
                      "RouteRefreshMsg", "SendUpdateMsg"}
  /\ Ignore

HandleOpenConfirm(e) ==
  \/ OpenConfirmKeepAliveMsg(e)
  \/ OpenConfirmKeepaliveExpires(e)
  \/ OpenConfirmTeardown(e)
  \/ OpenConfirmIgnores(e)

-----------------------------------------------------------------------------
(* State::Established                                                      *)

\* Mutant: the hold timer outlives the session.
EstablishedTimersOffButHold == Stop({"connect_retry", "keepalive"})

EstablishedTimersOff == Stop({"connect_retry", "keepalive", "hold"})

EstablishedFailures == {"AutomaticStop", "HoldTimerExpires",
                        "OpenCollisionDump", "NotifMsg", "UpdateMsgErr",
                        "ConnectRetryTimerExpires", "DelayOpenTimerExpires",
                        "IdleHoldTimerExpires",
                        "BGPOpenWithDelayOpenTimerRunning"} \cup ErrorEvents

EstablishedTeardown(e) ==
  \/ /\ e.type = "ManualStop"
     /\ GoIdle(0, EstablishedTimersOff, Drop)
  \/ /\ e.type \in EstablishedFailures
     /\ GoIdle(Failed, EstablishedTimersOff, Drop)
  \/ /\ e.type \in {"TcpConnectionFails", "NotifMsgVerErr"}
     /\ GoIdle(Failed, OrIdleHold(EstablishedTimersOff), Drop)

\* A failed write returns early and leaves the due timer as it is.
EstablishedKeepaliveExpires(e, w) ==
  /\ e.type = "KeepaliveTimerExpires"
  /\ IF w = "error" THEN Ignore
     ELSE Goto("Established",
               IF hold_time > 0 THEN Restart({}, {"keepalive"}) ELSE timers,
               IF w = "ok" THEN "Keepalive" ELSE Nothing)

EstablishedKeepAliveMsg(e) ==
  /\ e.type = "KeepAliveMsg"
  /\ Goto("Established",
          IF hold_time > 0 THEN Restart({}, {"hold"}) ELSE timers, Nothing)

\* Withdrawals and routes go to the process; the keepalive timer (not the hold
\* timer) is restarted.  An Update without a mandatory attribute returns early.
EstablishedUpdateMsg(e) ==
  /\ e.type = "UpdateMsg"
  /\ IF e.content = "invalid" THEN Ignore
     ELSE Goto("Established",
               IF hold_time > 0 THEN Restart({}, {"keepalive"}) ELSE timers,
               IF e.content = "nlri" THEN "Route"
               ELSE IF e.content = "withdrawn" THEN "WithdrawRoute"
               ELSE Nothing)

\* Every route of adj_rib_out is written; a write error is only logged.
EstablishedSendUpdateMsg(e, w) ==
  /\ e.type = "SendUpdateMsg"
  /\ Goto("Established", timers, IF w = "ok" THEN "Update" ELSE Nothing)

EstablishedIgnores(e) ==
  /\ e.type \in StartEvents \cup PassiveStartEvents \cup DampStartEvents
                \cup TcpEstablishedEvents
                \cup {"TcpConnectionValid", "TcpCRInvalid", "OpenMsg",
                      "RouteRefreshMsg"}
  /\ Ignore

HandleEstablished(e, w) ==
  \/ EstablishedTeardown(e)
  \/ EstablishedKeepaliveExpires(e, w)
  \/ EstablishedKeepAliveMsg(e)
  \/ EstablishedUpdateMsg(e)
  \/ EstablishedSendUpdateMsg(e, w)
  \/ EstablishedIgnores(e)

-----------------------------------------------------------------------------
(* handle_event                                                            *)

Handle(e, w) ==
  \/ state = "Idle"        /\ HandleIdle(e)
  \/ state = "Connect"     /\ HandleConnect(e, w)
  \/ state = "Active"      /\ HandleActive(e, w)
  \/ state = "OpenSent"    /\ HandleOpenSent(e, w)
  \/ state = "OpenConfirm" /\ HandleOpenConfirm(e)
  \/ state = "Established" /\ HandleEstablished(e, w)

FSMInit ==
  /\ state = "Idle"
  /\ connect_retry_counter = 0
  /\ hold_time = InitialHoldTime
  /\ timers = [t \in TimerNames |-> "off"]
  /\ out = Nothing

FSMNext ==
  \/ \E e \in Event, w \in WriteResults : Handle(e, w)
  \/ \E t \in TimerNames : Elapse(t)

FSMSpec == FSMInit /\ [][FSMNext]_fsmVars

-----------------------------------------------------------------------------
(* Properties                                                              *)

FSMTypeOK ==
  /\ state \in States
  /\ connect_retry_counter \in Nat
  /\ hold_time \in OpenHoldTimes \cup {InitialHoldTime}
  /\ timers \in [TimerNames -> TimerStates]
  /\ out \in Outputs

\* The counter is only ever 1 in Idle and 0 everywhere else: each failure path
\* of handle_event increments it exactly once and ends in Idle, where a start
\* event resets it.  So the u16 additions never overflow.
CounterDiscipline ==
  /\ connect_retry_counter <= 1
  /\ state # "Idle" => connect_retry_counter = 0

\* A session being set up or established is never left without the timer that
\* ends it when the peer falls silent: the hold timer runs in OpenSent, and with
\* the keepalive timer in OpenConfirm and Established, unless the agreed hold
\* time is 0.
SessionWatched ==
  /\ state = "OpenSent" => timers["hold"] # "off"
  /\ state \in {"OpenConfirm", "Established"} /\ hold_time > 0 =>
       timers["hold"] # "off" /\ timers["keepalive"] # "off"

\* From OpenSent on the connect-retry timer is off: expiring there it would tear
\* the session down (the ConnectRetryTimerExpires arms of those three states).
NoRetryTimerInSession ==
  state \in {"OpenSent", "OpenConfirm", "Established"} =>
    timers["connect_retry"] = "off"

\* Every way out of Established goes to Idle, signals the neighbor loop to drop
\* the connection and leaves no session timer behind to fire later.
EstablishedExitIsClean ==
  [][state = "Established" /\ state' # "Established" =>
       /\ state' = "Idle"
       /\ out' = Drop
       /\ \A t \in {"connect_retry", "hold", "keepalive"} : timers'[t] = "off"
    ]_fsmVars

\* The hold time only changes when an Open is accepted, and only downwards: it
\* is the minimum over every Open this neighbor ever accepted, across sessions.
HoldTimeOnlyShrinks ==
  [][hold_time' # hold_time =>
       /\ state = "OpenSent" /\ state' = "OpenConfirm"
       /\ hold_time' < hold_time]_fsmVars

=============================================================================
