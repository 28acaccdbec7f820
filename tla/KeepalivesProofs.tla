--------------------------- MODULE KeepalivesProofs ---------------------------
(***************************************************************************)
(* Theorems about Keepalives, for all durations and hold times: the peer   *)
(* hears us, a silent peer is given up and a live one kept, and only       *)
(* attempts that ended in OpenSent or OpenConfirm leave a timer for the    *)
(* next.                                                                   *)
(*                                                                         *)
(* A running timer and the history that measures the same time add up to   *)
(* the duration the timer was started for; a due one is found by the next  *)
(* check, and its expiration handled before the next second.               *)
(***************************************************************************)
EXTENDS Keepalives, NeighborFSMProofs, SequenceTheorems

Found(q, type) == \E i \in 1..Len(q) : q[i].type = type

Queued(type) == Found(events, type)

\* keepalive_timer against the peer's silence.
KeepaliveWatch ==
  state \in {"OpenConfirm", "Established"} /\ hold_time > 0 =>
    /\ timers["keepalive"] = "on" => left["keepalive"] <= KeepaliveTime
    /\ stream = "open" /\ ~postponed =>
         /\ timers["keepalive"] = "on" =>
              silence + left["keepalive"] <= KeepaliveTime
         /\ timers["keepalive"] = "due" =>
              /\ silence <= KeepaliveTime + MaxUnchecked
              /\ \/ silence <= KeepaliveTime + unchecked
                 \/ Queued("KeepaliveTimerExpires")

\* hold_timer against the time since the peer's last KeepAlive.
HoldWatch ==
  state \in InSession /\ ~(state = "OpenConfirm" /\ hold_time = 0) =>
    /\ timers["hold"] # "off"
    /\ timers["hold"] = "on" => since + left["hold"] <= Allowed
    /\ timers["hold"] = "due" =>
         /\ since <= Allowed + MaxUnchecked
         /\ since <= Allowed + unchecked \/ Queued("HoldTimerExpires")

KeepalivesInv ==
  /\ FSMInv /\ KeepalivesTypeOK
  /\ KeepaliveWatch /\ HoldWatch /\ OnlyFailedAttemptsLeaveTimers

\* The timers hold and keepalive by name.
LEMMA SessionTimerNames ==
  /\ "hold" \in TimerNames /\ "keepalive" \in TimerNames
  /\ "connect_retry" \in TimerNames
BY DEF TimerNames

-----------------------------------------------------------------------------
(* What the handlers of each state do to the session timers.               *)

Same(t) == timers'[t] = timers[t]

\* In Idle no event touches them.
LEMMA IdleEffect ==
  ASSUME FSMInv, state = "Idle", NEW e \in Event, HandleIdle(e)
  PROVE  /\ state' \in {"Idle", "Connect", "Active"}
         /\ Same("hold") /\ Same("keepalive")
<1>1. timers \in Timers
  BY DEF FSMInv, FSMTypeOK, Timers
<1>2. \A t \in {"hold", "keepalive"} :
        /\ Restart({}, {"connect_retry"})[t] = timers[t]
        /\ Stop({"idle_hold"})[t] = timers[t]
  BY <1>1, RestartValue, StopValue, SessionTimerNames
<1> QED
  BY <1>2 DEF HandleIdle, IdleStart, IdleHoldTimerExpires, IdleIgnores, Goto,
              Ignore, Same

\* In Connect and Active only an Open sent does: it starts hold_timer.
LEMMA ConnectingEffect ==
  ASSUME FSMInv, state \in {"Connect", "Active"}, NEW e \in Event, NEW w,
         HandleConnect(e, w) \/ HandleActive(e, w), state = "Connect" =>
         HandleConnect(e, w), state = "Active" => HandleActive(e, w)
  PROVE  \/ /\ state' \in {"Idle", "Connect", "Active"}
            /\ Same("hold") /\ Same("keepalive")
         \/ /\ state' = "OpenSent" /\ hold_time' = hold_time
            /\ timers'["hold"] = "on" /\ "hold" \in Started(e, w)
<1> USE KeepalivesConstants
<1>1. timers \in Timers
  BY DEF FSMInv, FSMTypeOK, Timers
<1>2. \A off : /\ Stop(off) \in Timers
               /\ Restart(off, {"connect_retry"}) \in Timers
  BY <1>1, RestartValue, StopValue
<1>3. \A off : \A t \in {"hold", "keepalive"} :
        /\ Restart(off, {"connect_retry"})[t] =
             IF t \in off THEN "off" ELSE timers[t]
        /\ Stop(off)[t] = IF t \in off THEN "off" ELSE timers[t]
        /\ Restart(off, {"hold"})["hold"] = "on"
  BY <1>1, RestartValue, StopValue, SessionTimerNames
<1>4. \A t \in Timers : OrIdleHold(t) = t
  BY DEF OrIdleHold
<1>5. e.type \in GeneratedEvents
  BY DEF Event
<1>6. CASE SendOpen(e, w)
  BY <1>3, <1>5, <1>6
  DEF SendOpen, Goto, Same, Started, StartedConnecting, TcpEstablishedEvents,
      GeneratedEvents
<1>7. ~DelayOpenExpires(e, {}) /\ ~OpenBeforeDelay(e) /\ ~VersionError(e)
      /\ ~DelayOpenExpires(e, {"connect_retry", "delay_open"})
  BY <1>5 DEF DelayOpenExpires, OpenBeforeDelay, VersionError, GeneratedEvents
<1>8. CASE \/ ConnectRetryExpires(e) \/ ConnectTcpFails(e)
           \/ ConnectTeardown(e) \/ ConnectIgnores(e)
  BY <1>2, <1>3, <1>4, <1>8
  DEF ConnectRetryExpires, ConnectTcpFails, ConnectTeardown, ConnectIgnores,
      Goto, GoIdle, Ignore, Same
<1>9. CASE \/ ActiveRetry(e) \/ ActiveTcpFails(e)
           \/ ActiveTeardown(e) \/ ActiveIgnores(e)
  BY <1>2, <1>3, <1>4, <1>9
  DEF ActiveRetry, ActiveTcpFails, ActiveTeardown, ActiveIgnores, Goto, GoIdle,
      Ignore, Same
<1> QED
  BY <1>6, <1>7, <1>8, <1>9 DEF HandleConnect, HandleActive

\* OpenSent is left, waits on with the same hold_timer, or accepts an Open.
LEMMA OpenSentEffect ==
  ASSUME FSMInv, state = "OpenSent", NEW e \in Event, NEW w,
         HandleOpenSent(e, w)
  PROVE  \/ state' \in {"Idle", "Active"}
         \/ /\ state' = "OpenSent" /\ hold_time' = hold_time
            /\ Same("hold") /\ "hold" \notin Started(e, w)
            /\ e.type # "HoldTimerExpires"
         \/ /\ state' = "OpenConfirm"
            /\ Started(e, w) = {"hold", "keepalive"}
            /\ hold_time' > 0 => /\ timers'["hold"] = "on"
                                 /\ timers'["keepalive"] = "on"
            /\ w = "ok" => out' = "Keepalive"
<1> USE FSMConstants
<1>1. timers \in Timers /\ hold_time \in Nat
  BY DEF FSMInv, FSMTypeOK, Timers
<1>2. CASE OpenSentOpenMsg(e, w) /\ w = "error"
  BY <1>1, <1>2, StopValue, SessionTimerNames
  DEF OpenSentOpenMsg, Goto, Same, Started, StartedOpening
<1>3. CASE OpenSentOpenMsg(e, w) /\ w # "error"
  <2> DEFINE agreed == Min2(e.hold_time, hold_time)
  <2>1. agreed \in Nat
    BY <1>1, <1>3 DEF OpenSentOpenMsg, Event, Min2
  <2>2. /\ state' = "OpenConfirm" /\ hold_time' = agreed
        /\ timers' = SessionTimers(agreed, {"delay_open", "connect_retry"})
        /\ w = "ok" => out' = "Keepalive"
    BY <1>3 DEF OpenSentOpenMsg
  <2>3. Started(e, w) = {"hold", "keepalive"}
    BY <1>3 DEF OpenSentOpenMsg, Started, StartedOpening
  <2> HIDE DEF agreed
  <2> QED
    BY <1>1, <2>1, <2>2, <2>3, SessionTimersValue
<1>4. CASE OpenSentTcpFails(e) \/ OpenSentTeardown(e)
  BY <1>4 DEF OpenSentTcpFails, OpenSentTeardown, Goto, GoIdle
<1>5. CASE OpenSentIgnores(e)
  BY <1>5 DEF OpenSentIgnores, Ignore, Same, Started, StartedOpening,
              StartEvents, PassiveStartEvents, DampStartEvents,
              TcpEstablishedEvents
<1> QED
  BY <1>2, <1>3, <1>4, <1>5 DEF HandleOpenSent

\* OpenConfirm is left, waits on, or is confirmed, which starts hold_timer.
LEMMA OpenConfirmEffect ==
  ASSUME FSMInv, state = "OpenConfirm", NEW e \in Event, NEW w,
         HandleOpenConfirm(e)
  PROVE  \/ state' = "Idle"
         \/ /\ state' = "OpenConfirm" /\ hold_time' = hold_time
            /\ Same("hold") /\ "hold" \notin Started(e, w)
            /\ e.type # "HoldTimerExpires"
            /\ \/ timers'["keepalive"] = "on" /\ "keepalive" \in Started(e, w)
               \/ /\ Same("keepalive") /\ "keepalive" \notin Started(e, w)
                  /\ e.type # "KeepaliveTimerExpires"
         \/ /\ state' = "Established" /\ hold_time' = hold_time
            /\ timers'["hold"] = Armed(hold_time)
            /\ Started(e, w) = {"hold"} /\ Same("keepalive")
            /\ e.type # "KeepaliveTimerExpires"
<1>1. timers \in Timers
  BY DEF FSMInv, FSMTypeOK, Timers
<1>2. CASE OpenConfirmKeepAliveMsg(e)
  BY <1>1, <1>2, SessionTimerNames
  DEF OpenConfirmKeepAliveMsg, Goto, Same, Started, StartedConfirming, Timers
<1>3. CASE OpenConfirmKeepaliveExpires(e)
  BY <1>1, <1>3, RestartValue, SessionTimerNames
  DEF OpenConfirmKeepaliveExpires, Goto, Same, Started, StartedConfirming
<1>4. CASE OpenConfirmTeardown(e)
  BY <1>4 DEF OpenConfirmTeardown, GoIdle
<1>5. CASE OpenConfirmIgnores(e)
  BY <1>5 DEF OpenConfirmIgnores, Ignore, Same, Started, StartedConfirming,
              StartEvents, PassiveStartEvents, DampStartEvents,
              TcpEstablishedEvents
<1> QED
  BY <1>2, <1>3, <1>4, <1>5 DEF HandleOpenConfirm

\* Established is left with the timers off, or goes on.
LEMMA EstablishedEffect ==
  ASSUME FSMInv, state = "Established", NEW e \in Event, NEW w,
         HandleEstablished(e, w)
  PROVE  \/ /\ state' = "Idle"
            /\ timers'["hold"] = "off" /\ timers'["keepalive"] = "off"
         \/ /\ state' = "Established" /\ hold_time' = hold_time
            /\ e.type # "HoldTimerExpires"
            /\ \/ /\ e.type = "KeepAliveMsg" /\ hold_time > 0
                  /\ timers'["hold"] = "on" /\ "hold" \in Started(e, w)
               \/ /\ ~(e.type = "KeepAliveMsg" /\ hold_time > 0)
                  /\ Same("hold") /\ "hold" \notin Started(e, w)
            /\ \/ timers'["keepalive"] = "on" /\ "keepalive" \in Started(e, w)
               \/ /\ Same("keepalive") /\ "keepalive" \notin Started(e, w)
                  /\ e.type = "KeepaliveTimerExpires" =>
                       w = "error" \/ hold_time = 0
<1>1. timers \in Timers /\ hold_time \in Nat
  BY FSMConstants DEF FSMInv, FSMTypeOK, Timers
<1>2. /\ Restart({}, {"keepalive"})["keepalive"] = "on"
      /\ Restart({}, {"keepalive"})["hold"] = timers["hold"]
      /\ Restart({}, {"hold"})["hold"] = "on"
      /\ Restart({}, {"hold"})["keepalive"] = timers["keepalive"]
  BY <1>1, RestartValue, SessionTimerNames
<1> USE DEF Goto, Ignore, Same, Started, StartedEstablished
<1>3. CASE EstablishedTeardown(e)
  BY <1>3, ExitOfEstablished DEF HandleEstablished, EstablishedTeardown, GoIdle
<1>4. CASE EstablishedKeepaliveExpires(e, w)
  BY <1>1, <1>2, <1>4 DEF EstablishedKeepaliveExpires
<1>5. CASE EstablishedKeepAliveMsg(e)
  BY <1>1, <1>2, <1>5 DEF EstablishedKeepAliveMsg
<1>6. CASE EstablishedUpdateMsg(e)
  BY <1>1, <1>2, <1>6 DEF EstablishedUpdateMsg
<1>7. CASE EstablishedSendUpdateMsg(e, w)
  BY <1>7 DEF EstablishedSendUpdateMsg
<1>8. CASE EstablishedIgnores(e)
  BY <1>8 DEF EstablishedIgnores, StartEvents, PassiveStartEvents,
              DampStartEvents, TcpEstablishedEvents
<1> QED
  BY <1>3, <1>4, <1>5, <1>6, <1>7, <1>8 DEF HandleEstablished

-----------------------------------------------------------------------------
(* A handled event.                                                        *)

\* The step of the handler, with its event and the outcome of its write.
Handled(e, w) ==
  /\ events # <<>> /\ e = Head(events) /\ events' = Tail(events)
  /\ w \in WriteOutcomes
  /\ Handle(e, w)
  /\ SetTimers(Started(e, w))
  /\ Note(e, Started(e, w))
  /\ UNCHANGED <<unchecked, stream>>

\* The event at the head leaves the queue; another one stays.
LEMMA QueuedAfter ==
  ASSUME events \in Seq(Event), events # <<>>, events' = Tail(events),
         NEW type, Queued(type), Head(events).type # type
  PROVE  Queued(type)'
<1>1. PICK i \in 1..Len(events) : events[i].type = type
  BY DEF Queued, Found
<1>2. i - 1 \in 1..Len(events') /\ events'[i - 1] = events[i]
  BY <1>1
<1> QED
  BY <1>1, <1>2 DEF Queued, Found

\* The time left of a timer the handler starts, and of one it leaves alone.
LEMMA LeftAfter ==
  ASSUME KeepalivesTypeOK, FSMInv', NEW e, NEW w, SetTimers(Started(e, w)),
         NEW t \in {"hold", "keepalive"}
  PROVE  /\ left' \in [TimerNames -> Nat]
         /\ \A u \in TimerNames : timers'[u] # "on" => left'[u] = 0
         /\ timers'[t] = "on" /\ t \in Started(e, w) =>
              left'[t] = IF t = "keepalive" THEN KeepaliveTime
                         ELSE IF state' = "OpenSent" THEN OpenHoldTime
                         ELSE hold_time'
         /\ Same(t) /\ t \notin Started(e, w) => left'[t] = left[t]
<1> USE KeepalivesConstants, FSMConstants, SessionTimerNames
<1>1. hold_time' \in Nat
  BY DEF FSMInv, FSMTypeOK
<1>2. \A u \in TimerNames : Duration(u) \in Nat
  BY <1>1 DEF Duration
<1> QED
  BY <1>1, <1>2 DEF SetTimers, Duration, KeepalivesTypeOK, Same

\* The handler keeps the types.
LEMMA HandledTypes ==
  ASSUME KeepalivesInv, NEW e \in Event, NEW w \in WriteResults, Handled(e, w),
         drop' \in BOOLEAN, FSMInv'
  PROVE  KeepalivesTypeOK'
<1>1. KeepalivesTypeOK
  BY DEF KeepalivesInv
<1>2. /\ left' \in [TimerNames -> Nat]
      /\ \A u \in TimerNames : timers'[u] # "on" => left'[u] = 0
  BY <1>1, LeftAfter DEF Handled
<1>3. events' \in Seq(Event)
  BY <1>1, HeadTailProperties DEF Handled, KeepalivesTypeOK
<1>4. /\ silence' \in Nat /\ since' \in Nat
      /\ postponed' \in BOOLEAN /\ late' \in BOOLEAN /\ left_over' \in BOOLEAN
  BY <1>1 DEF Handled, Note, KeepalivesTypeOK
<1> QED
  BY <1>1, <1>2, <1>3, <1>4 DEF Handled, KeepalivesTypeOK, FSMInv

\* The peer is heard through a handled event: it starts keepalive_timer with a
\* Keepalive, or has it noted as postponed, or leaves the timer and its expiration.
LEMMA HandledKeepaliveWatch ==
  ASSUME KeepalivesInv, NEW e \in Event, NEW w \in WriteResults, Handled(e, w),
         FSMInv'
  PROVE  KeepaliveWatch'
<1> SUFFICES ASSUME state' \in {"OpenConfirm", "Established"}, hold_time' > 0
             PROVE  KeepaliveWatch'
  BY DEF KeepaliveWatch
<1> USE KeepalivesConstants, FSMConstants
<1>1. /\ KeepalivesTypeOK /\ FSMInv /\ KeepaliveWatch
      /\ hold_time' \in Nat /\ hold_time \in Nat
  BY DEF KeepalivesInv, FSMInv, FSMTypeOK
<1>2. /\ silence \in Nat /\ unchecked \in 0..MaxUnchecked
      /\ left["keepalive"] \in Nat /\ unchecked' = unchecked
  BY <1>1, SessionTimerNames DEF KeepalivesTypeOK, Handled
<1>3. /\ stream' = stream
      /\ stream = "open" => w = "ok"
  BY DEF Handled, WriteOutcomes
<1>4. /\ silence' = 0 \/ silence' = silence
      /\ ~postponed' => \/ silence' = 0
                        \/ ~postponed /\ "keepalive" \notin Started(e, w)
  BY <1>1 DEF Handled, Note, InSession, KeepalivesTypeOK
<1>5. /\ timers'["keepalive"] = "on" /\ "keepalive" \in Started(e, w) =>
           left'["keepalive"] = KeepaliveTime
      /\ Same("keepalive") /\ "keepalive" \notin Started(e, w) =>
           left'["keepalive"] = left["keepalive"]
  BY <1>1, LeftAfter DEF Handled
<1>6. CASE /\ timers'["keepalive"] = "on" /\ "keepalive" \in Started(e, w)
           /\ left'["keepalive"] = KeepaliveTime
  BY <1>4, <1>6 DEF KeepaliveWatch
<1>7. CASE /\ state \in {"OpenConfirm", "Established"} /\ hold_time' = hold_time
           /\ Same("keepalive") /\ "keepalive" \notin Started(e, w)
           /\ e.type = "KeepaliveTimerExpires" => w = "error" \/ hold_time = 0
  <2>1. stream = "open" /\ Queued("KeepaliveTimerExpires") =>
          Queued("KeepaliveTimerExpires")'
    BY <1>1, <1>3, <1>7, QueuedAfter DEF Handled, KeepalivesTypeOK
  <2> QED
    BY <1>1, <1>2, <1>3, <1>4, <1>5, <1>7, <2>1 DEF KeepaliveWatch, Same
<1>8. \/ <1>6!1
      \/ <1>7!1
  <2>1. CASE state \in {"Idle", "Connect", "Active"}
    BY <1>1, <2>1, IdleEffect, ConnectingEffect DEF Handled, Handle
  <2>2. CASE state = "OpenSent"
    BY <1>1, <1>5, <2>2, OpenSentEffect DEF Handled, Handle
  <2>3. CASE state = "OpenConfirm"
    BY <1>1, <1>5, <2>3, OpenConfirmEffect DEF Handled, Handle
  <2>4. CASE state = "Established"
    BY <1>1, <1>5, <2>4, EstablishedEffect DEF Handled, Handle
  <2> QED
    BY <1>1, <2>1, <2>2, <2>3, <2>4 DEF FSMInv, FSMTypeOK, States
<1> QED
  BY <1>6, <1>7, <1>8

\* So is the hold timer's: an expiration handled in a session ends it.
LEMMA HandledHoldWatch ==
  ASSUME KeepalivesInv, NEW e \in Event, NEW w \in WriteResults, Handled(e, w),
         FSMInv'
  PROVE  HoldWatch'
<1> SUFFICES ASSUME state' \in InSession,
                    ~(state' = "OpenConfirm" /\ hold_time' = 0)
             PROVE  HoldWatch'
  BY DEF HoldWatch
<1> USE KeepalivesConstants, FSMConstants
<1>1. /\ KeepalivesTypeOK /\ FSMInv /\ HoldWatch
      /\ hold_time' \in Nat /\ hold_time \in Nat
  BY DEF KeepalivesInv, FSMInv, FSMTypeOK
<1>2. /\ since \in Nat /\ unchecked \in 0..MaxUnchecked
      /\ left["hold"] \in Nat /\ unchecked' = unchecked
  BY <1>1, SessionTimerNames DEF KeepalivesTypeOK, Handled
<1>9. PICK allowed \in Nat : Allowed' = allowed
  BY <1>1 DEF Allowed
<1>3. /\ since' = 0 \/ since' = since
      /\ state' # state => since' = 0
      /\ state = "Established" /\ hold_time > 0 /\ e.type = "KeepAliveMsg" =>
           since' = 0
  BY DEF Handled, Note
<1>4. /\ timers'["hold"] = "on" /\ "hold" \in Started(e, w) =>
           left'["hold"] = IF state' = "OpenSent" THEN OpenHoldTime
                           ELSE hold_time'
      /\ Same("hold") /\ "hold" \notin Started(e, w) =>
           left'["hold"] = left["hold"]
  BY <1>1, LeftAfter DEF Handled
<1>5. CASE /\ since' = 0 /\ timers'["hold"] = "on"
           /\ left'["hold"] = Allowed'
  BY <1>2, <1>5, <1>9 DEF HoldWatch
<1>6. CASE since' = 0 /\ timers'["hold"] = "due"
  BY <1>2, <1>6, <1>9 DEF HoldWatch
<1>7. CASE /\ state' = state /\ hold_time' = hold_time
           /\ Same("hold") /\ "hold" \notin Started(e, w)
           /\ e.type # "HoldTimerExpires"
  <2>1. Queued("HoldTimerExpires") => Queued("HoldTimerExpires")'
    BY <1>1, <1>7, QueuedAfter DEF Handled, KeepalivesTypeOK
  <2>2. Allowed = allowed
    BY <1>7, <1>9 DEF Allowed
  <2> QED
    BY <1>1, <1>2, <1>3, <1>4, <1>7, <1>9, <2>1, <2>2 DEF HoldWatch, Same
<1>8. \/ <1>5!1
      \/ <1>6!1
      \/ <1>7!1
  <2>1. CASE state \in {"Idle", "Connect", "Active"}
    BY <1>1, <1>3, <1>4, <2>1, IdleEffect, ConnectingEffect
    DEF Handled, Handle, InSession, Allowed
  <2>2. CASE state = "OpenSent"
    BY <1>1, <1>3, <1>4, <2>2, OpenSentEffect
    DEF Handled, Handle, InSession, Allowed
  <2>3. CASE state = "OpenConfirm"
    BY <1>1, <1>3, <1>4, <2>3, OpenConfirmEffect
    DEF Handled, Handle, InSession, Allowed, Armed
  <2>4. CASE state = "Established"
    BY <1>1, <1>3, <1>4, <2>4, EstablishedEffect
    DEF Handled, Handle, InSession, Allowed
  <2> QED
    BY <1>1, <2>1, <2>2, <2>3, <2>4 DEF FSMInv, FSMTypeOK, States
<1> QED
  BY <1>5, <1>6, <1>7, <1>8

\* No handler leaves a session timer behind, but those that give up OpenSent and
\* OpenConfirm.
LEMMA HandledLeftOver ==
  ASSUME KeepalivesInv, NEW e \in Event, NEW w \in WriteResults, Handled(e, w)
  PROVE  OnlyFailedAttemptsLeaveTimers'
<1> SUFFICES ASSUME state' \in {"Idle", "Connect", "Active"}, ~left_over'
             PROVE  timers'["hold"] = "off" /\ timers'["keepalive"] = "off"
  BY DEF OnlyFailedAttemptsLeaveTimers
<1>1. FSMInv /\ KeepalivesTypeOK /\ OnlyFailedAttemptsLeaveTimers
  BY DEF KeepalivesInv
<1>2. CASE state \in {"Idle", "Connect", "Active"}
  BY <1>1, <1>2, IdleEffect, ConnectingEffect
  DEF Handled, Handle, Note, Same, OnlyFailedAttemptsLeaveTimers
<1>3. CASE state \in {"OpenSent", "OpenConfirm"}
  BY <1>1, <1>3, OpenSentEffect, OpenConfirmEffect DEF Handled, Handle, Note
<1>4. CASE state = "Established"
  BY <1>1, <1>4, EstablishedEffect DEF Handled, Handle
<1> QED
  BY <1>1, <1>2, <1>3, <1>4 DEF FSMInv, FSMTypeOK, States

-----------------------------------------------------------------------------
(* The other steps.                                                        *)

LEMMA PlainIsEvent ==
  \A type \in EventTypes \ {"OpenMsg"} : Plain(type) \in Event
BY FSMConstants DEF Plain, Event, UpdateContents

\* An event that comes in leaves those that are queued.
LEMMA FoundBehind ==
  ASSUME NEW p \in Seq(Event), NEW q \in Seq(Event), NEW type,
         Found(p, type) \/ Found(q, type)
  PROVE  Found(p \o q, type)
<1>1. CASE Found(p, type)
  <2>1. PICK i \in 1..Len(p) : p[i].type = type
    BY <1>1 DEF Found
  <2>2. i \in 1..Len(p \o q) /\ (p \o q)[i] = p[i]
    BY <2>1
  <2> QED
    BY <2>1, <2>2 DEF Found
<1>2. CASE Found(q, type)
  <2>1. PICK i \in 1..Len(q) : q[i].type = type
    BY <1>2 DEF Found
  <2>2. Len(p) + i \in 1..Len(p \o q) /\ (p \o q)[Len(p) + i] = q[i]
    BY <2>1
  <2> QED
    BY <2>1, <2>2 DEF Found
<1> QED
  BY <1>1, <1>2

\* A check finds what is due.
LEMMA DueFound ==
  /\ DueEvents \in Seq(Event)
  /\ timers["hold"] = "due" => Found(DueEvents, "HoldTimerExpires")
  /\ timers["keepalive"] = "due" => Found(DueEvents, "KeepaliveTimerExpires")
<1> USE KeepalivesConstants
<1> DEFINE If(t, type) == IF timers[t] = "due" THEN <<Plain(type)>> ELSE <<>>
           r == If("connect_retry", "ConnectRetryTimerExpires")
           h == If("hold", "HoldTimerExpires")
           k == If("keepalive", "KeepaliveTimerExpires")
<1>1. r \in Seq(Event) /\ h \in Seq(Event) /\ k \in Seq(Event)
  BY PlainIsEvent DEF GeneratedEvents
<1>2. /\ timers["hold"] = "due" => Found(h, "HoldTimerExpires")
      /\ timers["keepalive"] = "due" => Found(k, "KeepaliveTimerExpires")
  BY DEF Plain, Found
<1>3. DueEvents = (r \o h) \o k
  BY DEF DueEvents
<1> HIDE DEF If, r, h, k
<1>4. r \o h \in Seq(Event)
  BY <1>1
<1>5. DueEvents \in Seq(Event)
  BY <1>1, <1>3, <1>4
<1>6. timers["hold"] = "due" => Found(r \o h, "HoldTimerExpires")
  BY <1>1, <1>2, FoundBehind
<1>7. timers["hold"] = "due" => Found((r \o h) \o k, "HoldTimerExpires")
  BY <1>1, <1>4, <1>6, FoundBehind
<1>8. timers["keepalive"] = "due" =>
        Found((r \o h) \o k, "KeepaliveTimerExpires")
  BY <1>1, <1>2, <1>4, FoundBehind
<1> QED
  BY <1>3, <1>5, <1>7, <1>8

\* What is common to the steps that only add to the queue.
LEMMA AddedKeeps ==
  ASSUME KeepalivesInv, NEW more \in Seq(Event), events' = events \o more,
         UNCHANGED <<fsmVars, left, since, postponed, late, left_over>>,
         drop' \in BOOLEAN, stream' \in {"open", "closed", "none"},
         \/ stream' = "open" => stream = "open"
         \/ silence' = 0,
         silence' \in {0, silence},
         \/ unchecked' = unchecked
         \/ unchecked' = 0 /\ more = DueEvents
  PROVE  KeepalivesInv'
<1> USE KeepalivesConstants DEF fsmVars
<1>1. /\ FSMInv /\ KeepalivesTypeOK /\ KeepaliveWatch /\ HoldWatch
      /\ OnlyFailedAttemptsLeaveTimers
  BY DEF KeepalivesInv
<1>2. FSMInv'
  BY <1>1, StepKeeps
<1>3. KeepalivesTypeOK'
  BY <1>1, <1>2 DEF KeepalivesTypeOK, FSMInv
<1>4. \A type \in {"HoldTimerExpires", "KeepaliveTimerExpires"} :
        Queued(type) => Queued(type)'
  BY <1>1, FoundBehind DEF KeepalivesTypeOK, Queued
<1>5. unchecked' = unchecked
      \/ /\ timers["hold"] = "due" => Queued("HoldTimerExpires")'
         /\ timers["keepalive"] = "due" => Queued("KeepaliveTimerExpires")'
  BY <1>1, DueFound, FoundBehind DEF KeepalivesTypeOK, Queued
<1>6. hold_time \in Nat /\ since \in Nat /\ silence \in Nat
      /\ unchecked \in Nat /\ left["keepalive"] \in Nat /\ left["hold"] \in Nat
  BY <1>1, FSMConstants, SessionTimerNames
  DEF KeepalivesTypeOK, FSMTypeOK
<1>7. KeepaliveWatch'
  BY <1>1, <1>4, <1>5, <1>6 DEF KeepaliveWatch
<1>8. HoldWatch'
  <2>1. PICK allowed \in Nat : Allowed = allowed
    BY <1>6 DEF Allowed
  <2>2. Allowed' = allowed
    BY <2>1 DEF Allowed
  <2> QED
    BY <1>1, <1>4, <1>5, <1>6, <2>1, <2>2 DEF HoldWatch
<1>9. OnlyFailedAttemptsLeaveTimers'
  BY <1>1 DEF OnlyFailedAttemptsLeaveTimers
<1> QED
  BY <1>2, <1>3, <1>7, <1>8, <1>9 DEF KeepalivesInv

LEMMA CheckTimersKeeps == KeepalivesInv /\ CheckTimers => KeepalivesInv'
<1> SUFFICES ASSUME KeepalivesInv, CheckTimers PROVE KeepalivesInv'
  OBVIOUS
<1>1. KeepalivesTypeOK
  BY DEF KeepalivesInv
<1> QED
  BY <1>1, DueFound, AddedKeeps
  DEF CheckTimers, historyVars, KeepalivesTypeOK

\* The neighbor loop and the peer.
LEMMA TrafficKeeps ==
  ASSUME KeepalivesInv,
         TakeDrop \/ NewStream \/ ReadClosed \/ Receive \/ PeerCloses
  PROVE  KeepalivesInv'
<1>1. KeepalivesTypeOK
  BY DEF KeepalivesInv
<1>2. \A e \in Event : <<e>> \in Seq(Event) /\ Append(events, e) = events \o <<e>>
  BY <1>1 DEF KeepalivesTypeOK
<1>3. <<>> \in Seq(Event) /\ events = events \o <<>>
  BY <1>1 DEF KeepalivesTypeOK
<1>4. \A type \in {"TcpCRAcked", "TcpConnectionFails",
                   "AutomaticStartWithPassiveTcpEstablishment"} :
        Plain(type) \in Event
  BY PlainIsEvent, KeepalivesConstants DEF GeneratedEvents
<1> USE <1>1 DEF historyVars, clockVars, KeepalivesTypeOK
<1>5. CASE TakeDrop
  BY <1>3, <1>5, AddedKeeps DEF TakeDrop
<1>6. CASE NewStream
  BY <1>2, <1>4, <1>6, AddedKeeps DEF NewStream
<1>7. CASE ReadClosed
  BY <1>2, <1>4, <1>7, AddedKeeps DEF ReadClosed
<1>8. CASE Receive
  BY <1>2, <1>8, AddedKeeps, KeepalivesConstants DEF Receive
<1>9. CASE PeerCloses
  BY <1>3, <1>9, AddedKeeps DEF PeerCloses
<1> QED
  BY <1>5, <1>6, <1>7, <1>8, <1>9

\* A timer whose time is over becomes due.
LEMMA ElapsesKeeps == KeepalivesInv /\ Elapses => KeepalivesInv'
<1> SUFFICES ASSUME KeepalivesInv, Elapses PROVE KeepalivesInv'
  OBVIOUS
<1> USE KeepalivesConstants, FSMConstants, SessionTimerNames
        DEF historyVars, clockVars
<1>1. /\ FSMInv /\ KeepalivesTypeOK /\ KeepaliveWatch /\ HoldWatch
      /\ OnlyFailedAttemptsLeaveTimers
  BY DEF KeepalivesInv
<1>2. PICK t \in TimerNames : left[t] = 0 /\ Elapse(t)
  BY DEF Elapses
<1>3. FSMInv'
  BY <1>1, <1>2, ElapseKeeps
<1>4. /\ state' = state /\ hold_time' = hold_time /\ left' = left
      /\ events' = events /\ unchecked' = unchecked /\ stream' = stream
      /\ drop' = drop /\ silence' = silence /\ since' = since
      /\ postponed' = postponed /\ late' = late /\ left_over' = left_over
  BY <1>2 DEF Elapses, Elapse
<1>5. \A u \in TimerNames :
        \/ timers'[u] = timers[u]
        \/ timers[u] = "on" /\ timers'[u] = "due" /\ left[u] = 0
  BY <1>1, <1>2 DEF Elapse, FSMInv, FSMTypeOK
<1>6. hold_time \in Nat /\ since \in Nat /\ silence \in Nat
      /\ unchecked \in 0..MaxUnchecked
  BY <1>1 DEF KeepalivesTypeOK, FSMTypeOK
<1>7. KeepalivesTypeOK'
  BY <1>1, <1>3, <1>4, <1>5 DEF KeepalivesTypeOK, FSMInv
<1>8. KeepaliveWatch'
  BY <1>1, <1>4, <1>5, <1>6 DEF KeepaliveWatch, Queued
<1>9. HoldWatch'
  <2>1. PICK allowed \in Nat : Allowed = allowed
    BY <1>6 DEF Allowed
  <2>2. Allowed' = allowed
    BY <1>4, <2>1 DEF Allowed
  <2> QED
    BY <1>1, <1>4, <1>5, <1>6, <2>1, <2>2 DEF HoldWatch, Queued
<1>10. OnlyFailedAttemptsLeaveTimers'
  BY <1>1, <1>4, <1>5 DEF OnlyFailedAttemptsLeaveTimers
<1> QED
  BY <1>3, <1>7, <1>8, <1>9, <1>10 DEF KeepalivesInv

\* A second passes when nothing is queued and no running timer is at its end.
LEMMA TickKeeps == KeepalivesInv /\ Tick => KeepalivesInv'
<1> SUFFICES ASSUME KeepalivesInv, Tick PROVE KeepalivesInv'
  OBVIOUS
<1> USE KeepalivesConstants, FSMConstants, SessionTimerNames
<1>1. /\ FSMInv /\ KeepalivesTypeOK /\ KeepaliveWatch /\ HoldWatch
      /\ OnlyFailedAttemptsLeaveTimers
  BY DEF KeepalivesInv
<1>2. FSMInv'
  BY <1>1, StepKeeps DEF Tick
<1>3. /\ state' = state /\ hold_time' = hold_time /\ timers' = timers
      /\ events' = events /\ stream' = stream /\ drop' = drop
      /\ postponed' = postponed /\ left_over' = left_over
      /\ unchecked' = unchecked + 1
  BY DEF Tick, fsmVars
<1>4. /\ hold_time \in Nat /\ since \in Nat /\ silence \in Nat
      /\ unchecked \in 0..MaxUnchecked /\ unchecked' \in 0..MaxUnchecked
      /\ left \in [TimerNames -> Nat]
  BY <1>1 DEF KeepalivesTypeOK, FSMTypeOK, Tick
<1>5. /\ silence' \in Nat /\ silence' <= silence + 1
      /\ since' \in Nat /\ since' <= since + 1
  BY <1>4 DEF Tick, Min2
<1>6. /\ left' \in [TimerNames -> Nat]
      /\ \A t \in TimerNames :
           /\ timers[t] = "on" => left'[t] = left[t] - 1 /\ left[t] > 0
           /\ timers[t] # "on" => left'[t] = left[t]
  BY <1>4 DEF Tick
<1>7. ~Queued("HoldTimerExpires") /\ ~Queued("KeepaliveTimerExpires")
  BY DEF Queued, Found, Tick
<1>8. KeepalivesTypeOK'
  BY <1>1, <1>2, <1>3, <1>4, <1>5, <1>6 DEF KeepalivesTypeOK, FSMInv, Tick
<1>9. KeepaliveWatch'
  BY <1>1, <1>3, <1>4, <1>5, <1>6, <1>7 DEF KeepaliveWatch
<1>10. HoldWatch'
  <2>1. PICK allowed \in Nat : Allowed = allowed
    BY <1>4 DEF Allowed
  <2>2. Allowed' = allowed
    BY <1>3, <2>1 DEF Allowed
  <2> QED
    BY <1>1, <1>3, <1>4, <1>5, <1>6, <1>7, <2>1, <2>2 DEF HoldWatch
<1>11. OnlyFailedAttemptsLeaveTimers'
  BY <1>1, <1>3 DEF OnlyFailedAttemptsLeaveTimers
<1> QED
  BY <1>2, <1>8, <1>9, <1>10, <1>11 DEF KeepalivesInv

\* A handled event.
LEMMA HandleEventKeeps == KeepalivesInv /\ HandleEvent => KeepalivesInv'
<1> SUFFICES ASSUME KeepalivesInv, HandleEvent PROVE KeepalivesInv'
  OBVIOUS
<1>1. FSMInv /\ KeepalivesTypeOK
  BY DEF KeepalivesInv
<1>2. PICK e \in Event, w \in WriteResults : Handled(e, w)
  <2>1. Head(events) \in Event
    BY <1>1 DEF HandleEvent, KeepalivesTypeOK
  <2>2. WriteOutcomes \subseteq WriteResults
    BY DEF WriteOutcomes, WriteResults
  <2> QED
    BY <2>1, <2>2 DEF HandleEvent, Handled
<1>3. FSMInv'
  BY <1>1, <1>2, StepKeeps DEF Handled, FSMNext
<1>4. drop' \in BOOLEAN
  BY <1>1 DEF HandleEvent, KeepalivesTypeOK
<1> QED
  BY <1>2, <1>3, <1>4, HandledTypes, HandledKeepaliveWatch, HandledHoldWatch,
     HandledLeftOver
  DEF KeepalivesInv

-----------------------------------------------------------------------------
(* The theorems.                                                           *)

LEMMA KeepalivesInitInv == KeepalivesInit => KeepalivesInv
<1> SUFFICES ASSUME KeepalivesInit PROVE KeepalivesInv
  OBVIOUS
<1>1. FSMInv
  BY InitEstablishes DEF KeepalivesInit
<1>2. events \in Seq(Event)
  BY PlainIsEvent, KeepalivesConstants DEF KeepalivesInit, GeneratedEvents
<1>3. KeepalivesTypeOK
  <2>1. /\ left \in [TimerNames -> Nat]
        /\ \A t \in TimerNames : timers[t] # "on" => left[t] = 0
    BY DEF KeepalivesInit
  <2>2. unchecked \in 0..MaxUnchecked
    BY KeepalivesConstants DEF KeepalivesInit
  <2> QED
    BY <1>1, <1>2, <2>1, <2>2 DEF KeepalivesInit, KeepalivesTypeOK, FSMInv
<1>4. KeepaliveWatch /\ HoldWatch /\ OnlyFailedAttemptsLeaveTimers
  BY SessionTimerNames
  DEF KeepalivesInit, FSMInit, KeepaliveWatch, HoldWatch, InSession,
      OnlyFailedAttemptsLeaveTimers
<1> QED
  BY <1>1, <1>3, <1>4 DEF KeepalivesInv

LEMMA KeepalivesStepInv ==
  KeepalivesInv /\ [KeepalivesNext]_keepaliveVars => KeepalivesInv'
<1> SUFFICES ASSUME KeepalivesInv, [KeepalivesNext]_keepaliveVars
             PROVE  KeepalivesInv'
  OBVIOUS
<1>1. CASE UNCHANGED keepaliveVars
  BY <1>1 DEF keepaliveVars, fsmVars, clockVars, historyVars, KeepalivesInv,
    FSMInv, FSMTypeOK, CounterDiscipline, SessionWatched, KeepalivesTypeOK,
    KeepaliveWatch, HoldWatch, OnlyFailedAttemptsLeaveTimers, Allowed, Queued
<1> QED
  BY <1>1, HandleEventKeeps, CheckTimersKeeps, TrafficKeeps, ElapsesKeeps,
     TickKeeps
  DEF KeepalivesNext

LEMMA KeepalivesInvariant == KeepalivesSpec => []KeepalivesInv
BY KeepalivesInitInv, KeepalivesStepInv, PTL DEF KeepalivesSpec

\* Types, and that only a running timer has time left.
THEOREM KeepalivesTypeCorrect == KeepalivesSpec => []KeepalivesTypeOK
BY KeepalivesInvariant, PTL DEF KeepalivesInv

\* The peer hears from us within the keepalive interval and the time between two
\* checks of the timers, unless something postponed our Keepalive.
THEOREM PeerIsHeardFrom == KeepalivesSpec => []PeerHearsUs
<1>1. KeepalivesInv => PeerHearsUs
  <2> SUFFICES ASSUME KeepalivesInv, state \in {"OpenConfirm", "Established"},
                      stream = "open", hold_time > 0, ~postponed
               PROVE  silence <= KeepaliveTime + MaxUnchecked
    BY DEF PeerHearsUs
  <2>1. timers["keepalive"] \in {"on", "due"}
    BY SessionTimerNames
    DEF KeepalivesInv, FSMInv, FSMTypeOK, SessionWatched, TimerStates
  <2>2. left["keepalive"] \in Nat /\ silence \in Nat
    BY SessionTimerNames DEF KeepalivesInv, KeepalivesTypeOK
  <2> QED
    BY <2>1, <2>2, KeepalivesConstants DEF KeepalivesInv, KeepaliveWatch
<1> QED
  BY <1>1, KeepalivesInvariant, PTL

\* A peer that sends no KeepAlives is given up, whatever else it sends.
THEOREM SilentPeersAreDropped == KeepalivesSpec => []SilentPeerDropped
<1>1. KeepalivesInv => SilentPeerDropped
  <2> SUFFICES ASSUME KeepalivesInv, state \in InSession,
                      ~(state = "OpenConfirm" /\ hold_time = 0)
               PROVE  since <= Allowed + MaxUnchecked
    BY DEF SilentPeerDropped
  <2>1. timers["hold"] \in {"on", "due"}
    BY SessionTimerNames
    DEF KeepalivesInv, FSMInv, FSMTypeOK, HoldWatch, TimerStates
  <2>2. /\ left["hold"] \in Nat /\ since \in Nat
        /\ hold_time \in Nat
    BY SessionTimerNames, FSMConstants
    DEF KeepalivesInv, KeepalivesTypeOK, FSMTypeOK
  <2>3. Allowed \in Nat
    BY <2>2, KeepalivesConstants DEF Allowed
  <2> QED
    BY <2>1, <2>2, <2>3, KeepalivesConstants DEF KeepalivesInv, HoldWatch
<1> QED
  BY <1>1, KeepalivesInvariant, PTL

\* The timers of a session end with it, unless it ended before Established.
THEOREM TimersEndWithTheSession ==
  KeepalivesSpec => []OnlyFailedAttemptsLeaveTimers
BY KeepalivesInvariant, PTL DEF KeepalivesInv

-----------------------------------------------------------------------------
(* connect_retry_timer.                                                    *)

RetryOff == timers["connect_retry"] = "off"

\* Waiting for a connection it is only stopped by an Open that could not be sent,
\* and in a session it is off, because it was stopped when the session began.
LEMMA RetryEffect ==
  ASSUME FSMInv, NoRetryTimerInSession, NEW e \in Event, NEW w, Handle(e, w)
  PROVE  /\ state' \in InSession => RetryOff'
         /\ state' \in {"Connect", "Active"} /\ RetryOff' =>
              /\ state' = state
              /\ RetryOff \/ (e.type = "TcpCRAcked" /\ w = "error")
<1> USE KeepalivesConstants, SessionTimerNames DEF RetryOff, InSession, Goto,
        GoIdle, Ignore
<1>1. timers \in Timers /\ hold_time \in Nat
  BY FSMConstants DEF FSMInv, FSMTypeOK, Timers
<1>2. e.type \in GeneratedEvents
  BY DEF Event
<1>3. \A off : /\ Restart(off, {"connect_retry"})["connect_retry"] = "on"
               /\ "connect_retry" \in off =>
                    /\ Stop(off)["connect_retry"] = "off"
                    /\ Restart(off, {"hold"})["connect_retry"] = "off"
  BY <1>1, RestartValue, StopValue
<1>4. CASE state = "Idle" /\ HandleIdle(e)
  BY <1>3, <1>4 DEF HandleIdle, IdleStart, IdleHoldTimerExpires, IdleIgnores
<1>5. CASE state \in {"Connect", "Active"} /\ SendOpen(e, w)
  BY <1>2, <1>3, <1>5
  DEF SendOpen, TcpEstablishedEvents, GeneratedEvents
<1>6. CASE /\ state \in {"Connect", "Active"} /\ ~SendOpen(e, w)
           /\ HandleConnect(e, w) \/ HandleActive(e, w)
  <2>1. /\ ~DelayOpenExpires(e, {}) /\ ~OpenBeforeDelay(e) /\ ~VersionError(e)
        /\ ~DelayOpenExpires(e, {"connect_retry", "delay_open"})
        /\ e.type # "TcpCRInvalid"
    BY <1>2 DEF DelayOpenExpires, OpenBeforeDelay, VersionError, GeneratedEvents
  <2> QED
    BY <1>3, <1>6, <2>1
    DEF HandleConnect, HandleActive, ConnectRetryExpires, ConnectTcpFails,
        ConnectTeardown, ConnectIgnores, ActiveRetry, ActiveTcpFails,
        ActiveTeardown, ActiveIgnores
<1>7. CASE state = "OpenSent" /\ HandleOpenSent(e, w)
  <2>1. CASE OpenSentOpenMsg(e, w) /\ w # "error"
    <3>1. PICK secs \in Nat :
            timers' = SessionTimers(secs, {"delay_open", "connect_retry"})
      BY <1>1, <2>1, FSMConstants DEF OpenSentOpenMsg, Min2, Event
    <3>2. timers'["connect_retry"] = "off"
      BY <1>1, <3>1, RestartValue, StopValue DEF SessionTimers
    <3> QED
      BY <2>1, <3>2 DEF OpenSentOpenMsg
  <2> QED
    BY <1>3, <1>7, <2>1
    DEF NoRetryTimerInSession, HandleOpenSent, OpenSentOpenMsg,
        OpenSentTcpFails, OpenSentTeardown, OpenSentIgnores
<1>8. CASE state = "OpenConfirm" /\ HandleOpenConfirm(e)
  BY <1>1, <1>8, RestartValue
  DEF NoRetryTimerInSession, HandleOpenConfirm, OpenConfirmKeepAliveMsg,
      OpenConfirmKeepaliveExpires, OpenConfirmTeardown, OpenConfirmIgnores, Timers
<1>9. CASE state = "Established" /\ HandleEstablished(e, w)
  BY <1>1, <1>9, RestartValue
  DEF NoRetryTimerInSession, HandleEstablished, EstablishedTeardown,
      EstablishedKeepaliveExpires, EstablishedKeepAliveMsg, EstablishedUpdateMsg,
      EstablishedSendUpdateMsg, EstablishedIgnores
<1> QED
  BY <1>4, <1>5, <1>6, <1>7, <1>8, <1>9 DEF Handle

\* What is not a handled event leaves the state and a stopped timer alone.
LEMMA OtherSteps ==
  ASSUME FSMInv, [KeepalivesNext]_keepaliveVars, ~HandleEvent
  PROVE  state' = state /\ (RetryOff' <=> RetryOff)
<1>1. CASE Elapses
  BY <1>1, SessionTimerNames
  DEF Elapses, Elapse, RetryOff, FSMInv, FSMTypeOK
<1> QED
  BY <1>1
  DEF KeepalivesNext, CheckTimers, TakeDrop, NewStream, ReadClosed, Receive,
      PeerCloses, Tick, keepaliveVars, fsmVars, RetryOff

LEMMA RetryStep ==
  ASSUME KeepalivesInv, NoRetryTimerInSession, [KeepalivesNext]_keepaliveVars
  PROVE  /\ NoRetryTimerInSession'
         /\ state' \in {"Connect", "Active"} /\ RetryOff'
              /\ ~(state \in {"Connect", "Active"} /\ RetryOff) =>
              /\ Head(events).type = "TcpCRAcked" /\ stream = "closed"
              /\ state' = state
<1>1. FSMInv /\ KeepalivesTypeOK
  BY DEF KeepalivesInv
<1>2. CASE ~HandleEvent
  BY <1>1, <1>2, OtherSteps DEF NoRetryTimerInSession, RetryOff
<1>3. CASE HandleEvent
  <2>1. Head(events) \in Event
    BY <1>1, <1>3 DEF HandleEvent, KeepalivesTypeOK
  <2>2. PICK w \in WriteOutcomes : Handle(Head(events), w)
    BY <1>3 DEF HandleEvent
  <2>3. w = "error" => stream = "closed"
    BY <1>1 DEF WriteOutcomes, KeepalivesTypeOK
  <2> QED
    BY <1>1, <2>1, <2>2, <2>3, RetryEffect
    DEF NoRetryTimerInSession, RetryOff, InSession
<1> QED
  BY <1>2, <1>3

LEMMA RetryInvariant == KeepalivesSpec => []NoRetryTimerInSession
<1>1. KeepalivesInit => NoRetryTimerInSession
  BY DEF KeepalivesInit, FSMInit, NoRetryTimerInSession
<1>2. /\ KeepalivesInv /\ NoRetryTimerInSession
      /\ [KeepalivesNext]_keepaliveVars
      => NoRetryTimerInSession'
  BY RetryStep
<1> QED
  BY <1>1, <1>2, KeepalivesInvariant, PTL DEF KeepalivesSpec

\* With the events the program generates no connect-retry timer runs into a
\* session, which its expiration would end.
THEOREM NoRetryInSessions == KeepalivesSpec => []NoRetryTimerInSession
BY RetryInvariant

\* Only a failed write of the Open leaves an attempt without the timer.
THEOREM OnlyFailedOpensStrand == KeepalivesSpec => OnlyAFailedOpenStrands
<1> DEFINE Strands ==
      /\ state' \in {"Connect", "Active"} /\ timers'["connect_retry"] = "off"
      /\ ~(state \in {"Connect", "Active"} /\ timers["connect_retry"] = "off")
      => /\ Head(events).type = "TcpCRAcked" /\ stream = "closed"
         /\ state' = state
<1>1. KeepalivesInv /\ NoRetryTimerInSession /\ [KeepalivesNext]_keepaliveVars
        => [Strands]_keepaliveVars
  BY RetryStep DEF RetryOff
<1> QED
  BY <1>1, KeepalivesInvariant, RetryInvariant, PTL
  DEF KeepalivesSpec, OnlyAFailedOpenStrands

-----------------------------------------------------------------------------
(* A live peer is kept.                                                    *)

\* In a session whose peer was not late the hold timer runs, for at least what is
\* left of the time the peer has, and none of its expirations is queued.
LiveWatch ==
  state \in InSession /\ hold_time > 0 /\ ~late =>
    /\ timers["hold"] = "on"
    /\ since < Allowed /\ Allowed <= since + left["hold"]
    /\ ~Queued("HoldTimerExpires")

LiveInv == LiveWatch /\ hold_time <= InitialHoldTime

\* Nothing is found in the rest, or behind what is added, that was not there.
LEMMA NotFound ==
  /\ \A type : \A q \in Seq(Event) :
       q # <<>> /\ ~Found(q, type) => ~Found(Tail(q), type)
  /\ \A type : \A p, q \in Seq(Event) :
       ~Found(p, type) /\ ~Found(q, type) => ~Found(p \o q, type)
<1>1. ASSUME NEW q \in Seq(Event), NEW type, q # <<>>, Found(Tail(q), type)
      PROVE  Found(q, type)
  <2>1. PICK i \in 1..Len(Tail(q)) : Tail(q)[i].type = type
    BY <1>1 DEF Found
  <2>2. i + 1 \in 1..Len(q) /\ Tail(q)[i] = q[i + 1]
    BY <1>1, <2>1
  <2> QED
    BY <2>1, <2>2 DEF Found
<1>2. ASSUME NEW p \in Seq(Event), NEW q \in Seq(Event), NEW type,
             Found(p \o q, type)
      PROVE  Found(p, type) \/ Found(q, type)
  <2>1. PICK i \in 1..Len(p \o q) : (p \o q)[i].type = type
    BY <1>2 DEF Found
  <2>2. CASE i <= Len(p)
    BY <2>1, <2>2 DEF Found
  <2>3. CASE i > Len(p)
    <3>1. i - Len(p) \in 1..Len(q) /\ (p \o q)[i] = q[i - Len(p)]
      BY <2>1, <2>3
    <3> QED
      BY <2>1, <3>1 DEF Found
  <2> QED
    BY <2>1, <2>2, <2>3
<1> QED
  BY <1>1, <1>2

\* A check queues no expiration of a hold timer that is not due.
LEMMA NotDueNotFound ==
  timers["hold"] # "due" => ~Found(DueEvents, "HoldTimerExpires")
<1> USE KeepalivesConstants
<1> DEFINE If(t, type) == IF timers[t] = "due" THEN <<Plain(type)>> ELSE <<>>
           r == If("connect_retry", "ConnectRetryTimerExpires")
           h == If("hold", "HoldTimerExpires")
           k == If("keepalive", "KeepaliveTimerExpires")
<1>1. r \in Seq(Event) /\ h \in Seq(Event) /\ k \in Seq(Event)
  BY PlainIsEvent DEF GeneratedEvents
<1>2. /\ ~Found(r, "HoldTimerExpires") /\ ~Found(k, "HoldTimerExpires")
      /\ timers["hold"] # "due" => ~Found(h, "HoldTimerExpires")
  BY DEF Plain, Found
<1>3. DueEvents = (r \o h) \o k
  BY DEF DueEvents
<1> HIDE DEF If, r, h, k
<1>4. r \o h \in Seq(Event)
  BY <1>1
<1> QED
  BY <1>1, <1>2, <1>3, <1>4, NotFound

\* A session begins late when an expiration is queued, and ends with one: a
\* handler that stays in it starts hold_timer as the time of the peer begins, or
\* leaves both alone.
LEMMA HandledLive ==
  ASSUME KeepalivesInv, LiveInv, NEW e \in Event, NEW w \in WriteResults,
         Handled(e, w), FSMInv'
  PROVE  LiveInv'
<1> USE KeepalivesConstants, FSMConstants
<1>1. /\ KeepalivesTypeOK /\ FSMInv /\ LiveWatch
      /\ hold_time \in Nat /\ hold_time' \in Nat /\ since \in Nat
  BY DEF KeepalivesInv, LiveInv, FSMInv, FSMTypeOK, KeepalivesTypeOK
<1>2. hold_time' <= hold_time
  BY <1>1, HoldTimeLowered DEF Handled, FSMNext
<1>3. hold_time' <= InitialHoldTime
  BY <1>1, <1>2 DEF LiveInv
<1> SUFFICES ASSUME state' \in InSession, hold_time' > 0, ~late'
             PROVE  /\ timers'["hold"] = "on"
                    /\ since' < Allowed' /\ Allowed' <= since' + left'["hold"]
                    /\ ~Queued("HoldTimerExpires")'
  BY <1>3 DEF LiveInv, LiveWatch
<1>4. hold_time > 0
  BY <1>1, <1>2
<1>5. /\ ~late
      /\ state \notin InSession => ~Queued("HoldTimerExpires")
  BY DEF Handled, Note, ExpirationQueued, Queued, Found
<1>6. ~Queued("HoldTimerExpires")'
  BY <1>1, <1>4, <1>5, NotFound
  DEF LiveWatch, Handled, KeepalivesTypeOK, Queued
<1>7. /\ since' = IF \/ state' # state
                     \/ /\ state = "Established" /\ hold_time > 0
                        /\ e.type = "KeepAliveMsg"
                  THEN 0 ELSE since
  BY DEF Handled, Note
<1>8. /\ timers'["hold"] = "on" /\ "hold" \in Started(e, w) =>
           left'["hold"] = IF state' = "OpenSent" THEN OpenHoldTime
                           ELSE hold_time'
      /\ Same("hold") /\ "hold" \notin Started(e, w) =>
           left'["hold"] = left["hold"]
  BY <1>1, LeftAfter DEF Handled
<1>9. CASE /\ since' = 0 /\ timers'["hold"] = "on"
           /\ left'["hold"] = Allowed'
  <2>1. PICK allowed \in Nat \ {0} : Allowed' = allowed
    BY <1>1 DEF Allowed
  <2> QED
    BY <1>6, <1>9, <2>1
<1>10. CASE /\ state' = state /\ hold_time' = hold_time
            /\ Same("hold") /\ "hold" \notin Started(e, w) /\ since' = since
  BY <1>1, <1>4, <1>5, <1>6, <1>8, <1>10 DEF LiveWatch, Same, Allowed
<1>11. \/ <1>9!1
       \/ <1>10!1
  <2>1. CASE state \in {"Idle", "Connect", "Active"}
    BY <1>1, <1>7, <1>8, <2>1, IdleEffect, ConnectingEffect
    DEF Handled, Handle, InSession, Allowed
  <2>2. CASE state = "OpenSent"
    BY <1>1, <1>7, <1>8, <2>2, OpenSentEffect
    DEF Handled, Handle, InSession, Allowed
  <2>3. CASE state = "OpenConfirm"
    BY <1>1, <1>7, <1>8, <2>3, OpenConfirmEffect
    DEF Handled, Handle, InSession, Allowed, Armed
  <2>4. CASE state = "Established"
    BY <1>1, <1>7, <1>8, <2>4, EstablishedEffect
    DEF Handled, Handle, InSession, Allowed
  <2> QED
    BY <1>1, <2>1, <2>2, <2>3, <2>4 DEF FSMInv, FSMTypeOK, States
<1> QED
  BY <1>9, <1>10, <1>11

\* No other event that comes in is an expiration of the hold timer.
LEMMA AddedLive ==
  ASSUME KeepalivesInv, LiveInv, UNCHANGED <<fsmVars, left, since, late>>,
         NEW more \in Seq(Event), events' = events \o more,
         timers["hold"] # "due" => ~Found(more, "HoldTimerExpires")
  PROVE  LiveInv'
BY NotFound
DEF LiveInv, LiveWatch, fsmVars, Allowed, Queued, KeepalivesInv,
    KeepalivesTypeOK

LEMMA CheckTimersLive ==
  ASSUME KeepalivesInv, LiveInv, CheckTimers
  PROVE  LiveInv'
<1>1. UNCHANGED <<fsmVars, left, since, late>> /\ events' = events \o DueEvents
  BY DEF CheckTimers, historyVars
<1> QED
  BY <1>1, DueFound, NotDueNotFound, AddedLive

LEMMA TrafficLive ==
  ASSUME KeepalivesInv, LiveInv,
         TakeDrop \/ NewStream \/ ReadClosed \/ Receive \/ PeerCloses
  PROVE  LiveInv'
<1>1. events \in Seq(Event)
  BY DEF KeepalivesInv, KeepalivesTypeOK
<1>2. UNCHANGED <<fsmVars, left, since, late>>
  BY DEF TakeDrop, NewStream, ReadClosed, Receive, PeerCloses, historyVars,
         clockVars
<1>3. CASE events' = events
  BY <1>2, <1>3
  DEF LiveInv, LiveWatch, fsmVars, Allowed, Queued
<1>4. CASE \E e \in Event : /\ e.type # "HoldTimerExpires"
                            /\ events' = Append(events, e)
  <2>1. PICK e \in Event : /\ e.type # "HoldTimerExpires"
                           /\ events' = Append(events, e)
    BY <1>4
  <2>2. /\ <<e>> \in Seq(Event) /\ events' = events \o <<e>>
        /\ ~Found(<<e>>, "HoldTimerExpires")
    BY <1>1, <2>1 DEF Found
  <2> QED
    BY <1>2, <2>2, AddedLive
<1>5. \A type \in {"TcpCRAcked", "TcpConnectionFails",
                   "AutomaticStartWithPassiveTcpEstablishment"} :
        Plain(type) \in Event /\ Plain(type).type # "HoldTimerExpires"
  BY PlainIsEvent, KeepalivesConstants DEF GeneratedEvents, Plain
<1>6. \A e \in Receivable : e \in Event /\ e.type # "HoldTimerExpires"
  BY KeepalivesConstants
<1>7. \/ <1>3!1
      \/ <1>4!1
  BY <1>5, <1>6 DEF TakeDrop, NewStream, ReadClosed, Receive, PeerCloses
<1> QED
  BY <1>3, <1>4, <1>7

\* The timer that runs out is not the one of a session that is not late.
LEMMA ElapsesLive ==
  ASSUME KeepalivesInv, LiveInv, Elapses
  PROVE  LiveInv'
<1> USE KeepalivesConstants, FSMConstants, SessionTimerNames
<1>1. FSMInv /\ KeepalivesTypeOK
  BY DEF KeepalivesInv
<1>2. PICK t \in TimerNames : left[t] = 0 /\ Elapse(t)
  BY DEF Elapses
<1>3. /\ state' = state /\ hold_time' = hold_time /\ left' = left
      /\ events' = events /\ since' = since /\ late' = late
  BY <1>2 DEF Elapses, Elapse, historyVars, clockVars
<1>4. timers'["hold"] = timers["hold"] \/ left["hold"] = 0
  BY <1>1, <1>2 DEF Elapse, FSMInv, FSMTypeOK
<1>5. since \in Nat /\ left["hold"] \in Nat /\ hold_time \in Nat
  BY <1>1 DEF KeepalivesTypeOK, FSMTypeOK
<1>6. PICK allowed \in Nat : Allowed = allowed
  BY <1>5 DEF Allowed
<1>7. Allowed' = allowed
  BY <1>3, <1>6 DEF Allowed
<1> QED
  BY <1>3, <1>4, <1>5, <1>6, <1>7 DEF LiveInv, LiveWatch, Queued

\* The second in which the peer's time is over makes it late.
LEMMA TickLive ==
  ASSUME KeepalivesInv, LiveInv, Tick
  PROVE  LiveInv'
<1> USE KeepalivesConstants, FSMConstants, SessionTimerNames
<1>1. FSMInv /\ KeepalivesTypeOK
  BY DEF KeepalivesInv
<1>2. /\ state' = state /\ hold_time' = hold_time /\ timers' = timers
      /\ events' = events
  BY DEF Tick, fsmVars
<1>3. /\ since \in Nat /\ left["hold"] \in Nat /\ hold_time \in Nat
      /\ hold_time <= OpenHoldTime
  BY <1>1 DEF KeepalivesTypeOK, FSMTypeOK, LiveInv
<1>4. PICK allowed \in Nat : Allowed = allowed /\ allowed <= Horizon
  BY <1>3 DEF Allowed
<1>5. Allowed' = allowed
  BY <1>2, <1>4 DEF Allowed
<1>6. /\ timers["hold"] = "on" =>
           left'["hold"] = left["hold"] - 1 /\ left["hold"] > 0
      /\ since' = Min2(since + 1, Horizon)
      /\ ~late' => ~late /\ (state \in InSession => ~(since' >= allowed))
  BY <1>1, <1>4 DEF Tick, KeepalivesTypeOK
<1>7. since' \in Nat /\ (since' < allowed => since' = since + 1)
  BY <1>3, <1>4, <1>6 DEF Min2
<1> QED
  BY <1>2, <1>3, <1>4, <1>5, <1>6, <1>7 DEF LiveInv, LiveWatch, Queued

LEMMA LiveInvariant == KeepalivesSpec => []LiveInv
<1>1. KeepalivesInit => LiveInv
  BY FSMConstants
  DEF KeepalivesInit, FSMInit, LiveInv, LiveWatch, InSession
<1>2. ASSUME KeepalivesInv, KeepalivesInv', LiveInv,
             [KeepalivesNext]_keepaliveVars
      PROVE  LiveInv'
  <2>1. CASE UNCHANGED keepaliveVars
    BY <1>2, <2>1 DEF keepaliveVars, fsmVars, clockVars, historyVars, LiveInv,
      LiveWatch, Allowed, Queued
  <2>2. CASE HandleEvent
    <3>1. PICK w \in WriteOutcomes : Handled(Head(events), w)
      BY <2>2 DEF HandleEvent, Handled
    <3>2. Head(events) \in Event /\ w \in WriteResults
      BY <1>2, <2>2
      DEF HandleEvent, KeepalivesInv, KeepalivesTypeOK, WriteOutcomes,
          WriteResults
    <3>3. FSMInv'
      BY <1>2 DEF KeepalivesInv
    <3> QED
      BY <1>2, <3>1, <3>2, <3>3, HandledLive
  <2> QED
    BY <1>2, <2>1, <2>2, CheckTimersLive, TrafficLive, ElapsesLive, TickLive
    DEF KeepalivesNext
<1> QED
  BY <1>1, <1>2, KeepalivesInvariant, PTL DEF KeepalivesSpec

\* A peer whose KeepAlives are never a hold time apart is not given up.
THEOREM LivePeersAreKept == KeepalivesSpec => LivePeerKept
<1> DEFINE Kept == state = "Established" /\ state' = "Idle" /\ hold_time > 0
                     /\ Head(events).type = "HoldTimerExpires" => late
<1>1. KeepalivesInv /\ LiveInv /\ [KeepalivesNext]_keepaliveVars
        => [Kept]_keepaliveVars
  <2> SUFFICES ASSUME KeepalivesInv, LiveInv, KeepalivesNext,
                      state = "Established", state' = "Idle", hold_time > 0,
                      Head(events).type = "HoldTimerExpires", ~late
               PROVE  FALSE
    OBVIOUS
  <2>1. HandleEvent
    BY OtherSteps DEF KeepalivesInv
  <2>2. 1 \in 1..Len(events) /\ events[1] = Head(events)
    BY <2>1 DEF HandleEvent, KeepalivesInv, KeepalivesTypeOK
  <2> QED
    BY <2>2 DEF LiveInv, LiveWatch, InSession, Queued, Found
<1> QED
  BY <1>1, KeepalivesInvariant, LiveInvariant, PTL
  DEF KeepalivesSpec, LivePeerKept

=============================================================================
