------------------------------ MODULE Keepalives ------------------------------
(***************************************************************************)
(* The sessions of one neighbor in time: NeighborFSM with the durations of *)
(* its timers (finite_state_machine.rs, timers.rs), the timer loop that    *)
(* looks at them once a second, and a peer that sends what it likes when   *)
(* it likes and closes and opens connections.                              *)
(*                                                                         *)
(* Time advances by Tick, one second.  What is queued is handled within    *)
(* the second, and every channel has room: the places where the tasks wait *)
(* for each other are those of NeighborSession.                            *)
(***************************************************************************)
EXTENDS NeighborFSM

CONSTANTS KeepaliveTime,     \* fsm.keepalive_time (30)
          ConnectRetryTime,  \* fsm.connect_retry_time (30)
          OpenHoldTime,      \* what hold_timer is started for in OpenSent (240)
          MaxUnchecked,      \* seconds between two checks of the timers: the
                             \* loop sleeps one, so that two may begin in it
          Receivable,        \* the events of what the peer or the process sends
          MaxQueue,          \* bound: events waiting when one is generated
          Horizon            \* bound: where silence and since stop counting

GeneratedEvents ==
  {"AutomaticStartWithPassiveTcpEstablishment", "TcpCRAcked",
   "TcpConnectionFails", "OpenMsg", "KeepAliveMsg", "UpdateMsg", "NotifMsg",
   "SendUpdateMsg", "ConnectRetryTimerExpires", "HoldTimerExpires",
   "KeepaliveTimerExpires"}

ASSUME KeepalivesConstants ==
  /\ ~DelayOpen /\ PassiveTcpEstablishment      \* FSM::default()
  /\ EventTypes = GeneratedEvents
  /\ \A e \in Receivable :
       /\ e \in Event
       /\ e.type \in {"OpenMsg", "KeepAliveMsg", "UpdateMsg", "NotifMsg",
                      "SendUpdateMsg"}
  /\ KeepaliveTime \in Nat \ {0} /\ ConnectRetryTime \in Nat \ {0}
  /\ InitialHoldTime <= OpenHoldTime /\ OpenHoldTime \in Nat \ {0}
  /\ MaxUnchecked \in Nat \ {0}
  /\ MaxQueue \in Nat /\ Horizon \in Nat /\ OpenHoldTime <= Horizon

VARIABLES left,       \* seconds until a running timer elapses
          events,     \* neighbor.events
          unchecked,  \* seconds since the timer loop looked at the timers
          stream,     \* the connection: open, closed by the peer, or none
          drop,       \* a DropTCP waits for the neighbor loop
          silence,    \* history: seconds since we wrote to the stream
          since,      \* history: seconds in this state, or since the peer's
                      \*   last KeepAlive in it
          postponed,  \* history: the keepalive timer was started again since
                      \*   then, and nothing sent
          late,       \* history: the peer let the hold timer run out in this
                      \*   session, or it began with an expiration queued
          left_over   \* history: an attempt ended in OpenSent or OpenConfirm
                      \*   and no session was established since

clockVars == <<left, unchecked>>
historyVars == <<silence, since, postponed, late, left_over>>
keepaliveVars == <<fsmVars, clockVars, events, stream, drop, historyVars>>

-----------------------------------------------------------------------------
(* Timers with durations                                                   *)

InSession == {"OpenSent", "OpenConfirm", "Established"}

\* The timers handle_event starts (NeighborFSM says which it stops or leaves).
StartedIdle(e) ==
  IF e.type \in PassiveStartEvents THEN {"connect_retry"} ELSE {}

StartedConnecting(e, w) ==
  IF e.type = "TcpCRAcked" THEN IF w # "error" THEN {"hold"} ELSE {}
  ELSE IF \/ e.type = "ConnectRetryTimerExpires"
          \/ e.type = "TcpConnectionFails" /\ state = "Active"
  THEN {"connect_retry"} ELSE {}

StartedOpening(e, w) ==
  IF e.type = "OpenMsg" /\ w # "error" THEN {"hold", "keepalive"}
  ELSE IF e.type = "TcpConnectionFails" THEN {"connect_retry"} ELSE {}

StartedConfirming(e) ==
  IF e.type = "KeepAliveMsg" THEN {"hold"}
  ELSE IF e.type = "KeepaliveTimerExpires" THEN {"keepalive"} ELSE {}

\* Mutants: a received Update counts as a KeepAlive; a KeepAlive does not
\* restart the hold timer.
StartedEstablishedByUpdates(e, w) ==
  IF e.type \in {"KeepAliveMsg", "UpdateMsg"} THEN {"hold"}
  ELSE IF e.type = "KeepaliveTimerExpires" THEN {"keepalive"} ELSE {}

StartedEstablishedNoHold(e, w) ==
  IF e.type \in {"KeepaliveTimerExpires", "UpdateMsg"}
  THEN {"keepalive"} ELSE {}

StartedEstablished(e, w) ==
  IF e.type = "KeepAliveMsg" THEN {"hold"}
  ELSE IF \/ e.type = "KeepaliveTimerExpires" /\ w # "error"
          \/ e.type = "UpdateMsg" /\ e.content # "invalid"
  THEN {"keepalive"} ELSE {}

Started(e, w) ==
  IF state = "Idle" THEN StartedIdle(e)
  ELSE IF state \in {"Connect", "Active"} THEN StartedConnecting(e, w)
  ELSE IF state = "OpenSent" THEN StartedOpening(e, w)
  ELSE IF state = "OpenConfirm" THEN StartedConfirming(e)
  ELSE IF hold_time > 0 THEN StartedEstablished(e, w) ELSE {}

\* Mutant: the keepalive timer is started for the hold time.
DurationAllHold(t) == IF t = "connect_retry" THEN ConnectRetryTime ELSE hold_time'

\* (delay_open and idle_hold are never started.)
Duration(t) ==
  IF t = "connect_retry" THEN ConnectRetryTime
  ELSE IF t = "keepalive" THEN KeepaliveTime
  ELSE IF state' = "OpenSent" THEN OpenHoldTime ELSE hold_time'

\* Mutant: stop() leaves the time running.
SetTimersNeverStop(started) ==
  left' = [t \in TimerNames |-> IF t \in started THEN Duration(t) ELSE left[t]]

SetTimers(started) ==
  left' = [t \in TimerNames |-> IF timers'[t] # "on" THEN 0
                                ELSE IF t \in started THEN Duration(t)
                                ELSE left[t]]

-----------------------------------------------------------------------------
(* The tasks                                                               *)

Plain(type) == [type |-> type, hold_time |-> InitialHoldTime,
                content |-> "empty"]

Room == Len(events) < MaxQueue

\* A write goes through while the peer has the connection open.
WriteOutcomes ==
  IF stream = "none" THEN {"none"}
  ELSE IF stream = "open" THEN {"ok"} ELSE {"ok", "error"}

Written == {"Open", "Keepalive", "Update"}

ExpirationQueued ==
  \E i \in 1..Len(events) : events[i].type = "HoldTimerExpires"

\* What the histories make of the step of the handler.
Note(e, started) ==
  /\ silence' = IF out' \in Written \/ state' \notin InSession THEN 0
                ELSE silence
  /\ postponed' = IF out' \in Written \/ state' \notin InSession THEN FALSE
                  ELSE postponed \/ "keepalive" \in started
  /\ since' = IF state' # state THEN 0
              ELSE IF state = "Established" /\ hold_time > 0
                        /\ e.type = "KeepAliveMsg" THEN 0
              ELSE since
  /\ late' = (state' \in InSession
               /\ (late \/ (state \notin InSession /\ ExpirationQueued)))
  /\ left_over' = IF state' = "Established" THEN FALSE
                  ELSE \/ left_over
                       \/ /\ state \in {"OpenSent", "OpenConfirm"}
                          /\ state' \in {"Idle", "Active"}

\* handle_event for the head of the queue.
HandleEvent ==
  /\ events # <<>>
  /\ events' = Tail(events)
  /\ \E w \in WriteOutcomes :
       /\ Handle(Head(events), w)
       /\ SetTimers(Started(Head(events), w))
       /\ Note(Head(events), Started(Head(events), w))
  /\ drop' = (drop \/ out' = Drop)
  /\ UNCHANGED <<unchecked, stream>>

\* check_timers_and_generate_events.  A timer that nobody stops stays due and is
\* found again at each check.
DueEvents ==
  LET If(t, type) == IF timers[t] = "due" THEN <<Plain(type)>> ELSE <<>>
  IN If("connect_retry", "ConnectRetryTimerExpires")
       \o If("hold", "HoldTimerExpires")
       \o If("keepalive", "KeepaliveTimerExpires")

CheckTimers ==
  /\ unchecked > 0
  /\ unchecked' = 0
  /\ events' = events \o DueEvents
  /\ UNCHANGED <<fsmVars, left, stream, drop, historyVars>>

\* The neighbor loop takes the DropTCP, and a new connection when it has none.
TakeDrop ==
  /\ drop
  /\ drop' = FALSE
  /\ stream' = "none"
  /\ UNCHANGED <<fsmVars, clockVars, events, historyVars>>

NewStream ==
  /\ stream = "none" /\ Room
  /\ stream' = "open"
  /\ events' = Append(events, Plain("TcpCRAcked"))
  /\ silence' = 0
  /\ UNCHANGED <<fsmVars, clockVars, drop, since, postponed, late, left_over>>

\* generate_events_for_closed_tcp_connection
ReadClosed ==
  /\ stream = "closed" /\ Room
  /\ \/ /\ state = "Established"
        /\ events' = Append(events, Plain("TcpConnectionFails"))
     \/ /\ state = "Idle"
        /\ events' =
             Append(events, Plain("AutomaticStartWithPassiveTcpEstablishment"))
  /\ UNCHANGED <<fsmVars, clockVars, stream, drop, historyVars>>

\* A message of the peer is read, or a route of the process to be announced.
Receive ==
  /\ Room
  /\ \E e \in Receivable :
       /\ stream = "open" \/ e.type = "SendUpdateMsg"
       /\ events' = Append(events, e)
  /\ UNCHANGED <<fsmVars, clockVars, stream, drop, historyVars>>

PeerCloses ==
  /\ stream = "open"
  /\ stream' = "closed"
  /\ UNCHANGED <<fsmVars, clockVars, events, drop, historyVars>>

-----------------------------------------------------------------------------
(* Time                                                                    *)

Elapses ==
  /\ \E t \in TimerNames : left[t] = 0 /\ Elapse(t)
  /\ UNCHANGED <<clockVars, events, stream, drop, historyVars>>

\* How long the peer may be silent in this state.
Allowed == IF state = "OpenSent" THEN OpenHoldTime ELSE hold_time

Tick ==
  /\ events = <<>>
  /\ \A t \in TimerNames : timers[t] = "on" => left[t] > 0
  /\ unchecked < MaxUnchecked
  /\ unchecked' = unchecked + 1
  /\ left' = [t \in TimerNames |-> IF timers[t] = "on" THEN left[t] - 1
                                   ELSE left[t]]
  /\ since' = Min2(since + 1, Horizon)
  /\ silence' = IF state \in InSession THEN Min2(silence + 1, Horizon)
                ELSE silence
  /\ late' = (late \/ (state \in InSession /\ since' >= Allowed))
  /\ UNCHANGED <<fsmVars, events, stream, drop, postponed, left_over>>

-----------------------------------------------------------------------------

\* run_process_loop has queued the first two events.
KeepalivesInit ==
  /\ FSMInit
  /\ left = [t \in TimerNames |-> 0]
  /\ events = <<Plain("AutomaticStartWithPassiveTcpEstablishment"),
                Plain("TcpCRAcked")>>
  /\ unchecked = 0
  /\ stream = "open" /\ drop = FALSE
  /\ silence = 0 /\ since = 0
  /\ postponed = FALSE /\ late = FALSE /\ left_over = FALSE

KeepalivesNext ==
  \/ HandleEvent
  \/ CheckTimers \/ TakeDrop \/ NewStream \/ ReadClosed
  \/ Receive \/ PeerCloses
  \/ Elapses \/ Tick

KeepalivesSpec == KeepalivesInit /\ [][KeepalivesNext]_keepaliveVars

-----------------------------------------------------------------------------
(* Properties                                                              *)

KeepalivesTypeOK ==
  /\ FSMTypeOK
  /\ left \in [TimerNames -> Nat]
  /\ \A t \in TimerNames : timers[t] # "on" => left[t] = 0
  /\ events \in Seq(Event)
  /\ unchecked \in 0..MaxUnchecked
  /\ stream \in {"open", "closed", "none"} /\ drop \in BOOLEAN
  /\ silence \in Nat /\ since \in Nat
  /\ postponed \in BOOLEAN /\ late \in BOOLEAN /\ left_over \in BOOLEAN

\* The peer is not left in silence for longer than the keepalive interval and
\* the time between two checks, whatever else is queued, as long as nothing
\* postpones our Keepalive: an expiration in OpenConfirm, where none is sent
\* (neighbors.rs 881), or a received Update (neighbors.rs 1131).  The bound does
\* not depend on the hold time: a peer with a shorter one gives the session up.
PeerHearsUs ==
  /\ state \in {"OpenConfirm", "Established"} /\ stream = "open"
  /\ hold_time > 0 /\ ~postponed
  => silence <= KeepaliveTime + MaxUnchecked

\* A session is only given up for the peer's silence when the peer was silent: a
\* peer whose KeepAlives are never a hold time apart is kept, though an expiration
\* may be queued when one comes in.  (Not so for a hold time of 0, for which
\* hold_timer is due at once, nor for a session that begins with the expiration
\* of an earlier one's timer in the queue.)
LivePeerKept ==
  [][state = "Established" /\ state' = "Idle" /\ hold_time > 0
       /\ Head(events).type = "HoldTimerExpires" => late]_keepaliveVars

\* A peer that falls silent, or sends Updates and no KeepAlives, is given up in
\* each of the three session states, at the latest one check after its time; with
\* a hold time of 0 in OpenConfirm, never.
SilentPeerDropped ==
  state \in InSession /\ ~(state = "OpenConfirm" /\ hold_time = 0) =>
    since <= Allowed + MaxUnchecked

\* Outside a session no hold or keepalive timer runs, so that the next attempt is
\* not ended by one of an earlier, unless an attempt ended in OpenSent or
\* OpenConfirm, whose teardowns stop neither.
OnlyFailedAttemptsLeaveTimers ==
  state \in {"Idle", "Connect", "Active"} /\ ~left_over =>
    timers["hold"] = "off" /\ timers["keepalive"] = "off"

\* An attempt is watched by connect_retry_timer while it waits for a connection:
\* it is only left without one, in a state no event of a closed connection leads
\* out of, when the write of the Open fails after the timer was stopped.
OnlyAFailedOpenStrands ==
  [][/\ state' \in {"Connect", "Active"} /\ timers'["connect_retry"] = "off"
     /\ ~(state \in {"Connect", "Active"} /\ timers["connect_retry"] = "off")
     => /\ Head(events).type = "TcpCRAcked" /\ stream = "closed"
        /\ state' = state]_keepaliveVars

=============================================================================
