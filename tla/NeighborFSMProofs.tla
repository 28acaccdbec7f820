-------------------------- MODULE NeighborFSMProofs --------------------------
(***************************************************************************)
(* Theorems about NeighborFSM, for every value of its constants: the       *)
(* machine is type correct, the failure counter never exceeds 1, a session *)
(* always has the timers that end it, and it is left cleanly.              *)
(*                                                                         *)
(* Every handler ends in GoIdle, Goto or Ignore, or sets the variables     *)
(* itself (a start, an accepted Open).  The lemmas say what these do to    *)
(* the inductive invariant FSMInv; a handler is then a case analysis.      *)
(***************************************************************************)
EXTENDS NeighborFSM, TLAPS

Timers == [TimerNames -> TimerStates]

FSMInv == FSMTypeOK /\ CounterDiscipline /\ SessionWatched

SessionStates == {"OpenSent", "OpenConfirm", "Established"}

\* What the timers must be in state s for a hold time h.
Watched(s, h, t) ==
  /\ s = "OpenSent" => t["hold"] # "off"
  /\ s \in {"OpenConfirm", "Established"} /\ h > 0 =>
       t["hold"] # "off" /\ t["keepalive"] # "off"

\* An Open carries a hold time; an event need not carry anything else.
GoodHoldTime(e) ==
  e.type = "OpenMsg" => e.hold_time \in OpenHoldTimes \cup {InitialHoldTime}

-----------------------------------------------------------------------------
(* The operations on timers.                                               *)

\* Stop and Restart give a timer the value its name calls for.
LEMMA StopValue ==
  ASSUME timers \in Timers, NEW off
  PROVE  /\ Stop(off) \in Timers
         /\ \A t \in TimerNames :
              Stop(off)[t] = IF t \in off THEN "off" ELSE timers[t]
BY DEF Stop, Timers, TimerStates

\* Restart turns on the timers of `on`, and off the others of `off`.
LEMMA RestartValue ==
  ASSUME timers \in Timers, NEW off, NEW on
  PROVE  /\ Restart(off, on) \in Timers
         /\ \A t \in TimerNames :
              Restart(off, on)[t] = IF t \in on THEN "on"
                                    ELSE IF t \in off THEN "off" ELSE timers[t]
BY DEF Restart, Timers, TimerStates

\* SessionTimers starts both session timers, or stops both for a hold time of 0.
LEMMA SessionTimersValue ==
  ASSUME timers \in Timers, NEW secs \in Nat, NEW off
  PROVE  /\ SessionTimers(secs, off) \in Timers
         /\ secs > 0 => /\ SessionTimers(secs, off)["hold"] = "on"
                        /\ SessionTimers(secs, off)["keepalive"] = "on"
<1>1. "hold" \in TimerNames /\ "keepalive" \in TimerNames
  BY DEF TimerNames
<1>2. CASE secs = 0
  BY <1>2, StopValue DEF SessionTimers
<1>3. CASE secs > 0
  BY <1>1, <1>3, RestartValue DEF SessionTimers
<1> QED
  BY <1>2, <1>3

\* OrIdleHold may start the idle hold timer and nothing else.
LEMMA OrIdleHoldValue ==
  ASSUME NEW t \in Timers
  PROVE  OrIdleHold(t) \in Timers
BY DEF OrIdleHold, Timers, TimerNames, TimerStates

-----------------------------------------------------------------------------
(* The three ways a handler ends.                                          *)

\* A step to Idle keeps the invariant when the counter is 0 or 1.
LEMMA GoIdleKeeps ==
  ASSUME FSMInv, NEW c \in {0, 1}, NEW t \in Timers, NEW o \in Outputs,
         GoIdle(c, t, o)
  PROVE  FSMInv'
BY DEF FSMInv, FSMTypeOK, CounterDiscipline, SessionWatched, GoIdle, Timers,
       States

\* A step that keeps the counter and the hold time keeps the invariant when its
\* new state is watched, and is not entered from Idle with the counter at 1.
LEMMA GotoKeeps ==
  ASSUME FSMInv, NEW s \in States, NEW t \in Timers, NEW o \in Outputs,
         Goto(s, t, o), Watched(s, hold_time, t), s # "Idle" => state # "Idle"
  PROVE  FSMInv'
BY DEF FSMInv, FSMTypeOK, CounterDiscipline, SessionWatched, Goto, Timers, Watched

\* An ignored event keeps the invariant.
LEMMA IgnoreKeeps == FSMInv /\ Ignore => FSMInv'
BY DEF FSMInv, FSMTypeOK, CounterDiscipline, SessionWatched, Ignore, Outputs,
       Nothing

-----------------------------------------------------------------------------
(* The handlers keep the invariant.                                        *)

\* What a handler may pass to GoIdle as the new counter outside Idle.
LEMMA CounterOutsideIdle ==
  ASSUME FSMInv, state # "Idle"
  PROVE  connect_retry_counter = 0 /\ Failed \in {0, 1}
BY DEF FSMInv, CounterDiscipline, Failed

\* Each handler of State::Idle keeps the invariant: a start resets the counter.
LEMMA IdleKeeps ==
  ASSUME FSMInv, state = "Idle", NEW e, HandleIdle(e)
  PROVE  FSMInv'
<1> USE FSMConstants
<1>1. timers \in Timers
  BY DEF FSMInv, FSMTypeOK, Timers
<1>2. CASE IdleStart(e)
  <2>1. Restart({}, {"connect_retry"}) \in Timers
    BY <1>1, RestartValue
  <2> QED
    BY <1>2, <2>1 DEF IdleStart, FSMInv, FSMTypeOK, CounterDiscipline,
                      SessionWatched, Timers, States, Outputs, Nothing
<1>3. CASE IdleHoldTimerExpires(e)
  <2>1. Stop({"idle_hold"}) \in Timers
    BY <1>1, StopValue
  <2>2. Watched("Idle", hold_time, Stop({"idle_hold"}))
    BY DEF Watched
  <2> QED
    BY <1>3, <2>1, <2>2, GotoKeeps DEF IdleHoldTimerExpires, States, Outputs
<1>4. CASE IdleIgnores(e)
  BY <1>4, IgnoreKeeps DEF IdleIgnores
<1> QED
  BY <1>2, <1>3, <1>4 DEF HandleIdle

\* The handlers that Connect and Active share.
LEMMA SetupKeeps ==
  ASSUME FSMInv, state \in {"Connect", "Active"}, NEW e, NEW w,
         NEW off,
         \/ SendOpen(e, w)
         \/ DelayOpenExpires(e, off)
         \/ OpenBeforeDelay(e)
         \/ VersionError(e)
  PROVE  FSMInv'
<1> USE FSMConstants
<1>1. timers \in Timers /\ hold_time \in Nat
  BY DEF FSMInv, FSMTypeOK, Timers
<1>2. connect_retry_counter = 0 /\ Failed \in {0, 1}
  BY CounterOutsideIdle
<1>3. "hold" \in TimerNames /\ "connect_retry" \in TimerNames
  BY DEF TimerNames
<1>4. \A s \in {"Connect", "Active"} : \A t : Watched(s, hold_time, t)
  BY DEF Watched
<1>5. CASE SendOpen(e, w)
  <2>1. /\ Restart({"connect_retry"}, {"delay_open"}) \in Timers
        /\ Stop({"connect_retry"}) \in Timers
        /\ Restart({"connect_retry"}, {"hold"}) \in Timers
        /\ Restart({"connect_retry"}, {"hold"})["hold"] = "on"
    BY <1>1, <1>3, RestartValue, StopValue
  <2>2. Watched("OpenSent", hold_time, Restart({"connect_retry"}, {"hold"}))
    BY <2>1 DEF Watched
  <2> QED
    BY <1>4, <1>5, <2>1, <2>2, GotoKeeps
    DEF SendOpen, States, Outputs, Nothing
<1>6. CASE DelayOpenExpires(e, off)
  <2>1. /\ Restart(off, {"hold"}) \in Timers
        /\ Restart(off, {"hold"})["hold"] = "on"
    BY <1>1, <1>3, RestartValue
  <2> QED
    BY <1>6, <2>1, GotoKeeps
    DEF DelayOpenExpires, Watched, States, Outputs, Nothing
<1>7. CASE OpenBeforeDelay(e)
  <2> DEFINE t == SessionTimers(hold_time, {"connect_retry", "delay_open"})
  <2>1. t \in Timers /\ (hold_time > 0 => t["hold"] = "on"
                                          /\ t["keepalive"] = "on")
    BY <1>1, SessionTimersValue
  <2>2. Watched("OpenConfirm", hold_time, t)
    BY <2>1 DEF Watched
  <2>3. Goto("OpenConfirm", t, Nothing)
    BY <1>7 DEF OpenBeforeDelay
  <2> HIDE DEF t
  <2> QED
    BY <2>1, <2>2, <2>3, GotoKeeps DEF States, Outputs, Nothing
<1>8. CASE VersionError(e)
  BY <1>1, <1>2, <1>8, StopValue, GoIdleKeeps, IgnoreKeeps
  DEF VersionError, Drop, Outputs, Nothing
<1> QED
  BY <1>5, <1>6, <1>7, <1>8

\* Each handler of State::Connect keeps the invariant.
LEMMA ConnectKeeps ==
  ASSUME FSMInv, state = "Connect", NEW e, NEW w, HandleConnect(e, w)
  PROVE  FSMInv'
<1>1. timers \in Timers
  BY DEF FSMInv, FSMTypeOK, Timers
<1>2. connect_retry_counter = 0 /\ Failed \in {0, 1}
  BY CounterOutsideIdle
<1>3. \A s \in {"Connect", "Active"} : \A t : Watched(s, hold_time, t)
  BY DEF Watched
<1>4. CASE ConnectRetryExpires(e) \/ ConnectTcpFails(e)
  <2>1. Restart({"delay_open"}, {"connect_retry"}) \in Timers
    BY <1>1, RestartValue
  <2>2. OrIdleHold(Stop({"connect_retry"})) \in Timers
    BY <1>1, StopValue, OrIdleHoldValue
  <2> QED
    BY <1>2, <1>3, <1>4, <2>1, <2>2, GoIdleKeeps, GotoKeeps, IgnoreKeeps
    DEF ConnectRetryExpires, ConnectTcpFails, Drop, States, Outputs, Nothing
<1>5. CASE ConnectTeardown(e)
  BY <1>1, <1>2, <1>3, <1>5, StopValue, GoIdleKeeps, GotoKeeps
  DEF ConnectTeardown, Drop, States, Outputs, Nothing
<1>6. CASE ConnectIgnores(e)
  BY <1>6, IgnoreKeeps DEF ConnectIgnores
<1> QED
  BY <1>4, <1>5, <1>6, SetupKeeps DEF HandleConnect

\* Each handler of State::Active keeps the invariant.
LEMMA ActiveKeeps ==
  ASSUME FSMInv, state = "Active", NEW e, NEW w, HandleActive(e, w)
  PROVE  FSMInv'
<1>1. timers \in Timers
  BY DEF FSMInv, FSMTypeOK, Timers
<1>2. connect_retry_counter = 0 /\ Failed \in {0, 1}
  BY CounterOutsideIdle
<1>3. CASE ActiveRetry(e)
  <2>1. Restart({}, {"connect_retry"}) \in Timers
    BY <1>1, RestartValue
  <2> QED
    BY <1>3, <2>1, GotoKeeps
    DEF ActiveRetry, Watched, States, Outputs, Nothing
<1>4. CASE ActiveTcpFails(e)
  BY <1>1, <1>2, <1>4, RestartValue, OrIdleHoldValue, GoIdleKeeps
  DEF ActiveTcpFails, Drop, Outputs
<1>5. CASE ActiveTeardown(e)
  BY <1>1, <1>2, <1>5, StopValue, GoIdleKeeps, IgnoreKeeps
  DEF ActiveTeardown, Drop, Outputs
<1>6. CASE ActiveIgnores(e)
  BY <1>6, IgnoreKeeps DEF ActiveIgnores
<1> QED
  BY <1>3, <1>4, <1>5, <1>6, SetupKeeps DEF HandleActive

\* Each handler of State::OpenSent keeps the invariant: the Open accepted starts
\* both session timers, unless the agreed hold time is 0.
LEMMA OpenSentKeeps ==
  ASSUME FSMInv, state = "OpenSent", NEW e, NEW w, GoodHoldTime(e),
         HandleOpenSent(e, w)
  PROVE  FSMInv'
<1> USE FSMConstants
<1>1. timers \in Timers /\ hold_time \in Nat
  BY DEF FSMInv, FSMTypeOK, Timers
<1>2. connect_retry_counter = 0 /\ Failed \in {0, 1}
  BY CounterOutsideIdle
<1>3. CASE OpenSentOpenMsg(e, w) /\ w = "error"
  <2> DEFINE t == Stop({"delay_open", "connect_retry"})
  <2>1. t \in Timers /\ t["hold"] = timers["hold"]
    BY <1>1, StopValue DEF TimerNames
  <2>2. Watched("OpenSent", hold_time, t)
    BY <2>1 DEF Watched, FSMInv, SessionWatched
  <2> QED
    BY <1>3, <2>1, <2>2, GotoKeeps DEF OpenSentOpenMsg, States, Outputs, Nothing
<1>4. CASE OpenSentOpenMsg(e, w) /\ w # "error"
  <2> DEFINE agreed == Min2(e.hold_time, hold_time)
             t == SessionTimers(agreed, {"delay_open", "connect_retry"})
  <2>1. e.hold_time \in OpenHoldTimes \cup {InitialHoldTime}
    BY <1>4 DEF OpenSentOpenMsg, GoodHoldTime
  <2>2. agreed \in Nat /\ agreed \in OpenHoldTimes \cup {InitialHoldTime}
    BY <2>1 DEF Min2, FSMInv, FSMTypeOK
  <2>3. t \in Timers /\ (agreed > 0 => t["hold"] = "on" /\ t["keepalive"] = "on")
    BY <1>1, <2>2, SessionTimersValue
  <2>4. /\ state' = "OpenConfirm" /\ hold_time' = agreed /\ timers' = t
        /\ out' \in Outputs
        /\ connect_retry_counter' = 0
    BY <1>2, <1>4 DEF OpenSentOpenMsg, Outputs, Nothing
  <2> HIDE DEF agreed, t
  <2> QED
    BY <2>2, <2>3, <2>4
    DEF FSMInv, FSMTypeOK, CounterDiscipline, SessionWatched, Timers, States
<1>5. CASE OpenSentTcpFails(e)
  BY <1>1, <1>5, RestartValue, GotoKeeps
  DEF OpenSentTcpFails, Watched, States, Outputs, Nothing
<1>6. CASE OpenSentTeardown(e)
  BY <1>1, <1>2, <1>6, StopValue, GoIdleKeeps
  DEF OpenSentTeardown, Drop, Outputs, Nothing
<1>7. CASE OpenSentIgnores(e)
  BY <1>7, IgnoreKeeps DEF OpenSentIgnores
<1> QED
  BY <1>3, <1>4, <1>5, <1>6, <1>7 DEF HandleOpenSent

\* Each handler of State::OpenConfirm keeps the invariant.
LEMMA OpenConfirmKeeps ==
  ASSUME FSMInv, state = "OpenConfirm", NEW e, HandleOpenConfirm(e)
  PROVE  FSMInv'
<1>1. timers \in Timers /\ Watched("OpenConfirm", hold_time, timers)
  BY DEF FSMInv, FSMTypeOK, SessionWatched, Timers, Watched
<1>2. connect_retry_counter = 0 /\ Failed \in {0, 1}
  BY CounterOutsideIdle
<1>3. "hold" \in TimerNames /\ "keepalive" \in TimerNames /\ "hold" # "keepalive"
  BY DEF TimerNames
<1>4. CASE OpenConfirmKeepAliveMsg(e)
  <2> DEFINE t == [timers EXCEPT !["hold"] = Armed(hold_time)]
  <2>1. t \in Timers /\ t["hold"] # "off" /\ t["keepalive"] = timers["keepalive"]
    BY <1>1, <1>3 DEF Armed, Timers, TimerStates
  <2>2. Watched("Established", hold_time, t)
    BY <1>1, <2>1 DEF Watched
  <2> QED
    BY <1>4, <2>1, <2>2, GotoKeeps
    DEF OpenConfirmKeepAliveMsg, States, Outputs
<1>5. CASE OpenConfirmKeepaliveExpires(e)
  <2> DEFINE t == Restart({}, {"keepalive"})
  <2>1. t \in Timers /\ t["hold"] = timers["hold"] /\ t["keepalive"] = "on"
    BY <1>1, <1>3, RestartValue
  <2>2. Watched("OpenConfirm", hold_time, t)
    BY <1>1, <2>1 DEF Watched
  <2> QED
    BY <1>5, <2>1, <2>2, GotoKeeps
    DEF OpenConfirmKeepaliveExpires, States, Outputs, Nothing
<1>6. CASE OpenConfirmTeardown(e)
  BY <1>1, <1>2, <1>6, StopValue, OrIdleHoldValue, GoIdleKeeps
  DEF OpenConfirmTeardown, Drop, Outputs, Nothing
<1>7. CASE OpenConfirmIgnores(e)
  BY <1>7, IgnoreKeeps DEF OpenConfirmIgnores
<1> QED
  BY <1>4, <1>5, <1>6, <1>7 DEF HandleOpenConfirm

\* Each handler of State::Established keeps the invariant.
LEMMA EstablishedKeeps ==
  ASSUME FSMInv, state = "Established", NEW e, NEW w,
         HandleEstablished(e, w)
  PROVE  FSMInv'
<1>1. timers \in Timers /\ Watched("Established", hold_time, timers)
  BY DEF FSMInv, FSMTypeOK, SessionWatched, Timers, Watched
<1>2. connect_retry_counter = 0 /\ Failed \in {0, 1}
  BY CounterOutsideIdle
<1>3. /\ Restart({}, {"keepalive"}) \in Timers
      /\ Watched("Established", hold_time, Restart({}, {"keepalive"}))
      /\ Restart({}, {"hold"}) \in Timers
      /\ Watched("Established", hold_time, Restart({}, {"hold"}))
  BY <1>1, RestartValue DEF Watched, TimerNames
<1>4. CASE EstablishedTeardown(e)
  BY <1>1, <1>2, <1>4, StopValue, OrIdleHoldValue, GoIdleKeeps
  DEF EstablishedTeardown, EstablishedTimersOff, Drop, Outputs
<1>5. CASE \/ EstablishedKeepaliveExpires(e, w)
           \/ EstablishedKeepAliveMsg(e)
           \/ EstablishedUpdateMsg(e)
           \/ EstablishedSendUpdateMsg(e, w)
  BY <1>1, <1>3, <1>5, GotoKeeps, IgnoreKeeps
  DEF EstablishedKeepaliveExpires, EstablishedKeepAliveMsg,
      EstablishedUpdateMsg, EstablishedSendUpdateMsg, States, Outputs, Nothing
<1>6. CASE EstablishedIgnores(e)
  BY <1>6, IgnoreKeeps DEF EstablishedIgnores
<1> QED
  BY <1>4, <1>5, <1>6 DEF HandleEstablished

\* A timer that runs out is due, not off: a session stays watched.
LEMMA ElapseKeeps ==
  ASSUME FSMInv, NEW t \in TimerNames, Elapse(t)
  PROVE  FSMInv'
BY DEF FSMInv, FSMTypeOK, CounterDiscipline, SessionWatched, Elapse,
       TimerNames, TimerStates, Outputs, Nothing

-----------------------------------------------------------------------------
(* The theorems.                                                           *)

\* FSM::default() satisfies the invariant.
LEMMA InitEstablishes == FSMInit => FSMInv
BY FSMConstants
DEF FSMInit, FSMInv, FSMTypeOK, CounterDiscipline, SessionWatched, States,
    TimerNames, TimerStates, Outputs, Nothing

\* Every event in every state keeps the invariant, whatever else it carries.
LEMMA HandleKeeps ==
  ASSUME FSMInv, NEW e, NEW w, GoodHoldTime(e), Handle(e, w)
  PROVE  FSMInv'
BY IdleKeeps, ConnectKeeps, ActiveKeeps, OpenSentKeeps, OpenConfirmKeeps,
   EstablishedKeeps DEF Handle

\* Every event in every state, and every expiration, keeps the invariant.
LEMMA StepKeeps == FSMInv /\ [FSMNext]_fsmVars => FSMInv'
<1> SUFFICES ASSUME FSMInv, [FSMNext]_fsmVars PROVE FSMInv'
  OBVIOUS
<1>1. CASE UNCHANGED fsmVars
  BY <1>1 DEF fsmVars, FSMInv, FSMTypeOK, CounterDiscipline, SessionWatched
<1>2. ASSUME NEW e \in Event, NEW w \in WriteResults, Handle(e, w)
      PROVE  FSMInv'
  BY <1>2, HandleKeeps DEF Event, GoodHoldTime
<1>3. ASSUME NEW t \in TimerNames, Elapse(t) PROVE FSMInv'
  BY <1>3, ElapseKeeps
<1> QED
  BY <1>1, <1>2, <1>3 DEF FSMNext

\* The inductive invariant holds of every behaviour of the FSM.
LEMMA InvariantHolds == FSMSpec => []FSMInv
BY InitEstablishes, StepKeeps, PTL DEF FSMSpec

\* The machine is type correct whatever events it is given in whatever order.
THEOREM TypeCorrect == FSMSpec => []FSMTypeOK
BY InvariantHolds, PTL DEF FSMInv

\* connect_retry_counter is at most 1, and 0 outside Idle, whatever the events:
\* the u16 additions of handle_event never overflow.
THEOREM CounterNeverOverflows == FSMSpec => []CounterDiscipline
BY InvariantHolds, PTL DEF FSMInv

\* No sequence of events leaves a session without the timers that end it.
THEOREM SessionsAreWatched == FSMSpec => []SessionWatched
BY InvariantHolds, PTL DEF FSMInv

-----------------------------------------------------------------------------
(* What a step may do to a session.                                        *)

\* Only handlers of Established run there, and only EstablishedTeardown leaves.
LEMMA ExitOfEstablished ==
  ASSUME FSMInv, state = "Established", NEW e \in Event, NEW w,
         HandleEstablished(e, w), state' # "Established"
  PROVE  /\ state' = "Idle" /\ out' = Drop
         /\ \A t \in {"connect_retry", "hold", "keepalive"} : timers'[t] = "off"
<1> DEFINE off == EstablishedTimersOff
<1>1. timers \in Timers
  BY DEF FSMInv, FSMTypeOK, Timers
<1>2. /\ off \in Timers
      /\ \A t \in {"connect_retry", "hold", "keepalive"} : off[t] = "off"
  BY <1>1, StopValue DEF EstablishedTimersOff, TimerNames
<1>3. \A t \in {"connect_retry", "hold", "keepalive"} :
        OrIdleHold(off)[t] = "off"
  BY <1>2 DEF OrIdleHold, Timers, TimerNames
<1>4. EstablishedTeardown(e)
  BY DEF HandleEstablished, EstablishedKeepaliveExpires,
         EstablishedKeepAliveMsg, EstablishedUpdateMsg,
         EstablishedSendUpdateMsg, EstablishedIgnores, Goto, Ignore
<1> HIDE DEF off
<1>5. /\ state' = "Idle" /\ out' = Drop
      /\ timers' = off \/ timers' = OrIdleHold(off)
  BY <1>4 DEF EstablishedTeardown, GoIdle, off
<1> QED
  BY <1>2, <1>3, <1>5

\* Every way out of Established drops the connection and stops its timers.
THEOREM SessionsEndCleanly == FSMSpec => EstablishedExitIsClean
<1> DEFINE Clean == state = "Established" /\ state' # "Established" =>
                      /\ state' = "Idle" /\ out' = Drop
                      /\ \A t \in {"connect_retry", "hold", "keepalive"} :
                           timers'[t] = "off"
<1>1. FSMInv /\ [FSMNext]_fsmVars => Clean
  <2> SUFFICES ASSUME FSMInv, [FSMNext]_fsmVars, state = "Established",
                      state' # "Established"
               PROVE  Clean
    OBVIOUS
  <2>1. PICK e \in Event, w \in WriteResults : Handle(e, w)
    BY DEF FSMNext, fsmVars, Elapse
  <2> QED
    BY <2>1, ExitOfEstablished DEF Handle
<1>2. FSMInv /\ [FSMNext]_fsmVars => [Clean]_fsmVars
  BY <1>1
<1> QED
  BY <1>2, InvariantHolds, PTL DEF FSMSpec, EstablishedExitIsClean

\* Only an Open that is accepted changes the hold time, and it lowers it.
LEMMA HoldTimeLowered ==
  ASSUME FSMInv, [FSMNext]_fsmVars, hold_time' # hold_time
  PROVE  /\ state = "OpenSent" /\ state' = "OpenConfirm"
         /\ hold_time' < hold_time
<1>1. PICK e \in Event, w \in WriteResults : Handle(e, w)
  BY DEF FSMNext, fsmVars, Elapse
<1> USE DEF Goto, GoIdle, Ignore
<1>2. ~(state = "Idle" /\ HandleIdle(e))
  BY DEF HandleIdle, IdleStart, IdleHoldTimerExpires, IdleIgnores
<1>3. ~(\/ SendOpen(e, w) \/ DelayOpenExpires(e, {})
        \/ DelayOpenExpires(e, {"connect_retry", "delay_open"})
        \/ OpenBeforeDelay(e) \/ VersionError(e))
  BY DEF SendOpen, DelayOpenExpires, OpenBeforeDelay, VersionError
<1>4. ~(state = "Connect" /\ HandleConnect(e, w))
  BY <1>3 DEF HandleConnect, ConnectRetryExpires, ConnectTcpFails,
              ConnectTeardown, ConnectIgnores
<1>5. ~(state = "Active" /\ HandleActive(e, w))
  BY <1>3 DEF HandleActive, ActiveRetry, ActiveTcpFails, ActiveTeardown,
              ActiveIgnores
<1>6. ~(state = "OpenConfirm" /\ HandleOpenConfirm(e))
  BY DEF HandleOpenConfirm, OpenConfirmKeepAliveMsg,
         OpenConfirmKeepaliveExpires, OpenConfirmTeardown, OpenConfirmIgnores
<1>7. ~(state = "Established" /\ HandleEstablished(e, w))
  BY DEF HandleEstablished, EstablishedTeardown,
         EstablishedKeepaliveExpires, EstablishedKeepAliveMsg,
         EstablishedUpdateMsg, EstablishedSendUpdateMsg, EstablishedIgnores
<1>8. state = "OpenSent" /\ OpenSentOpenMsg(e, w) /\ w # "error"
  BY <1>1, <1>2, <1>4, <1>5, <1>6, <1>7
  DEF Handle, HandleOpenSent, OpenSentOpenMsg, OpenSentTcpFails,
      OpenSentTeardown, OpenSentIgnores
<1>9. e.hold_time \in Nat /\ hold_time \in Nat
  BY <1>8, FSMConstants DEF OpenSentOpenMsg, Event, FSMInv, FSMTypeOK
<1> QED
  BY <1>8, <1>9 DEF OpenSentOpenMsg, Min2

\* The hold time of a neighbor is only ever lowered, by an Open it accepts.
THEOREM HoldTimeIsARatchet == FSMSpec => HoldTimeOnlyShrinks
<1>1. FSMInv /\ [FSMNext]_fsmVars =>
        [hold_time' # hold_time =>
           /\ state = "OpenSent" /\ state' = "OpenConfirm"
           /\ hold_time' < hold_time]_fsmVars
  BY HoldTimeLowered
<1> QED
  BY <1>1, InvariantHolds, PTL DEF FSMSpec, HoldTimeOnlyShrinks
=============================================================================
