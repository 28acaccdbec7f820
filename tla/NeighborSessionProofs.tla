------------------------ MODULE NeighborSessionProofs ------------------------
(***************************************************************************)
(* Theorems about NeighborSession, for any capacity of the watcher channel *)
(* and any peer: the event queue is bounded by the tokens in that channel, *)
(* so that no wakeup of the event loop is ever lost, the two halves of the *)
(* stream belong together, a session is on one connection, and the         *)
(* KeepAlive that establishes it came on that connection.                  *)
(*                                                                         *)
(* generate_event appends an event and a token together, and stops at the  *)
(* first token there is no room for (lemma GenerateKeeps).  The event loop *)
(* takes one token and then events until there are none.                   *)
(***************************************************************************)
EXTENDS NeighborSession, NeighborFSMProofs

USE DEF vars, fsmVars, taskVars, attemptVars, procVars, peerVars

\* The queues and what they are filled from.
QueuesTypeOK ==
  /\ events \in Seq(QueuedEvent)
  /\ tokens \in 0..WatcherCap
  /\ proc_rx \in Seq(Conns \cup {"Route"})
  /\ read_half \in Connection /\ write_half \in Connection
  /\ batch \in Seq(PeerMessages)
  /\ inbox \in [Conns -> Seq(PeerMessages)]

QueueInv == QueuesTypeOK /\ EventsBounded

-----------------------------------------------------------------------------
(* The events that are generated.                                          *)

\* They are of the types the program generates, and carry what such events do.
LEMMA EventsQueued ==
  /\ \A t \in GeneratedEvents : Plain(t) \in QueuedEvent
  /\ \A t \in GeneratedEvents, c \in Connection : OfConn(t, c) \in QueuedEvent
  /\ \A m \in PeerMessages, c \in Connection : Received(m, c) \in QueuedEvent
<1> USE SessionConstants DEF QueuedEvent, Connection
<1>1. \A t \in GeneratedEvents : t \in EventTypes
  OBVIOUS
<1>2. "empty" \in UpdateContents
  BY DEF UpdateContents
<1>3. ASSUME NEW t \in GeneratedEvents, NEW c \in Connection
      PROVE  /\ Plain(t) \in QueuedEvent
             /\ OfConn(t, c) = [Plain(t) EXCEPT !.conn = c]
             /\ OfConn(t, c) \in QueuedEvent
  BY <1>1, <1>2 DEF Plain, OfConn
<1>4. ASSUME NEW m \in PeerMessages, NEW c \in Connection
      PROVE  Received(m, c) \in QueuedEvent
  <2>1. /\ m.type \in EventTypes /\ m.content \in UpdateContents
        /\ m.hold_time \in OpenHoldTimes \cup {InitialHoldTime}
    BY <1>1 DEF GeneratedEvents
  <2> QED
    BY <2>1 DEF Received
<1>5. NoConn \in Connection
  OBVIOUS
<1> QED
  BY <1>3, <1>4, <1>5

\* Every event generated is paid for by a token, a panic included.
LEMMA GenerateKeeps ==
  ASSUME events \in Seq(QueuedEvent), tokens \in 0..WatcherCap, EventsBounded,
         NEW evs \in Seq(QueuedEvent), Generate(evs), UNCHANGED el_pc
  PROVE  /\ events' \in Seq(QueuedEvent) /\ tokens' \in 0..WatcherCap
         /\ EventsBounded'
<1> DEFINE done == Min2(Len(evs), Room)
<1>1. done \in 0..Len(evs) /\ tokens + done \in 0..WatcherCap
  BY SessionConstants DEF Min2, Room
<1>2. /\ SubSeq(evs, 1, done) \in Seq(QueuedEvent)
      /\ Len(SubSeq(evs, 1, done)) = done
  BY <1>1
<1>3. events' = events \o SubSeq(evs, 1, done) /\ tokens' = tokens + done
  BY DEF Generate
<1> HIDE DEF done
<1>4. events' \in Seq(QueuedEvent) /\ Len(events') = Len(events) + done
  BY <1>1, <1>2, <1>3
<1> QED
  BY <1>1, <1>3, <1>4 DEF EventsBounded

\* An expiration for each timer that is due.
LEMMA DueEventsQueued == DueEvents \in Seq(QueuedEvent)
<1> DEFINE If(t, type) == IF timers[t] = "due" THEN <<Plain(type)>> ELSE <<>>
<1>1. \A t, type : type \in TimerEvents => If(t, type) \in Seq(QueuedEvent)
  BY EventsQueued DEF GeneratedEvents
<1>2. /\ If("connect_retry", "ConnectRetryTimerExpires") \in Seq(QueuedEvent)
      /\ If("hold", "HoldTimerExpires") \in Seq(QueuedEvent)
      /\ If("keepalive", "KeepaliveTimerExpires") \in Seq(QueuedEvent)
      /\ If("delay_open", "DelayOpenTimerExpires") \in Seq(QueuedEvent)
      /\ If("idle_hold", "IdleHoldTimerExpires") \in Seq(QueuedEvent)
  BY <1>1 DEF TimerEvents
<1>3. DueEvents = If("connect_retry", "ConnectRetryTimerExpires")
                    \o If("hold", "HoldTimerExpires")
                    \o If("keepalive", "KeepaliveTimerExpires")
                    \o If("delay_open", "DelayOpenTimerExpires")
                    \o If("idle_hold", "IdleHoldTimerExpires")
  BY DEF DueEvents
<1> HIDE DEF If
<1> QED
  BY <1>2, <1>3

LEMMA DueEventsAreExpirations ==
  \A k \in 1..Len(DueEvents) : DueEvents[k].type \in TimerEvents
<1> DEFINE Expirations == [type : TimerEvents, hold_time : {InitialHoldTime},
                           content : {"empty"}, conn : {NoConn}]
           If(t, type) == IF timers[t] = "due" THEN <<Plain(type)>> ELSE <<>>
<1>1. \A t, type : type \in TimerEvents => If(t, type) \in Seq(Expirations)
  <2>1. \A type \in TimerEvents : Plain(type) \in Expirations
    BY DEF Plain
  <2> HIDE DEF Expirations
  <2> QED
    BY <2>1
<1>2. /\ If("connect_retry", "ConnectRetryTimerExpires") \in Seq(Expirations)
      /\ If("hold", "HoldTimerExpires") \in Seq(Expirations)
      /\ If("keepalive", "KeepaliveTimerExpires") \in Seq(Expirations)
      /\ If("delay_open", "DelayOpenTimerExpires") \in Seq(Expirations)
      /\ If("idle_hold", "IdleHoldTimerExpires") \in Seq(Expirations)
  BY <1>1 DEF TimerEvents
<1>3. DueEvents = If("connect_retry", "ConnectRetryTimerExpires")
                    \o If("hold", "HoldTimerExpires")
                    \o If("keepalive", "KeepaliveTimerExpires")
                    \o If("delay_open", "DelayOpenTimerExpires")
                    \o If("idle_hold", "IdleHoldTimerExpires")
  BY DEF DueEvents
<1> HIDE DEF If
<1>4. DueEvents \in Seq(Expirations)
  <2> HIDE DEF Expirations
  <2> QED
    BY <1>2, <1>3
<1>5. \A k \in 1..Len(DueEvents) : DueEvents[k] \in Expirations
  <2> HIDE DEF Expirations
  <2> QED
    BY <1>4
<1> QED
  BY <1>5

-----------------------------------------------------------------------------
(* The tasks.                                                              *)

\* A step that generates nothing, leaves the event loop where it is and fills
\* the other queues with what belongs there.
LEMMA QuietStep ==
  ASSUME QueueInv, UNCHANGED <<events, tokens, el_pc>>,
         proc_rx' \in Seq(Conns \cup {"Route"}),
         read_half' \in Connection, write_half' \in Connection,
         batch' \in Seq(PeerMessages), inbox' \in [Conns -> Seq(PeerMessages)]
  PROVE  QueueInv'
BY DEF QueueInv, QueuesTypeOK, EventsBounded

\* A step that generates events does the same for the other queues.
LEMMA GeneratingStep ==
  ASSUME QueueInv, NEW evs \in Seq(QueuedEvent), Generate(evs), UNCHANGED el_pc,
         proc_rx' \in Seq(Conns \cup {"Route"}),
         read_half' \in Connection, write_half' \in Connection,
         batch' \in Seq(PeerMessages), UNCHANGED inbox
  PROVE  QueueInv'
BY GenerateKeeps DEF QueueInv, QueuesTypeOK

\* The neighbor loop generates an event for a stream, a route, a message or a
\* closed connection, and appends to nothing without generate_event.
LEMMA NeighborLoopKeeps ==
  ASSUME QueueInv, NeighborLoop
  PROVE  QueueInv'
<1>1. QueuesTypeOK /\ NoConn \in Connection
  BY DEF QueueInv, Connection
<1> USE DEF QueuesTypeOK
<1>2. CASE NLTakeDrop
  BY <1>1, <1>2, QuietStep DEF NLTakeDrop
<1>3. CASE NLClearWriteHalf
  BY <1>1, <1>3, QuietStep DEF NLClearWriteHalf
<1>4. CASE NLStream
  <2>1. CASE active \/ proc_rx = <<>>
    BY <1>1, <1>4, <2>1, QuietStep DEF NLStream
  <2>2. CASE ~active /\ proc_rx # <<>> /\ Head(proc_rx) \in Conns
    <3> DEFINE c == Head(proc_rx)
               acked == <<OfConn("TcpCRAcked", c)>>
    <3>1. /\ c \in Connection /\ acked \in Seq(QueuedEvent)
          /\ Tail(proc_rx) \in Seq(Conns \cup {"Route"})
      <4>1. c \in Connection /\ "TcpCRAcked" \in GeneratedEvents
        BY <2>2 DEF Connection, GeneratedEvents
      <4>2. OfConn("TcpCRAcked", c) \in QueuedEvent
        BY <4>1, EventsQueued
      <4>3. Tail(proc_rx) \in Seq(Conns \cup {"Route"})
        BY <1>1, <2>2
      <4> QED
        BY <4>1, <4>2, <4>3
    <3>2. /\ Generate(acked) /\ write_half' = c
          /\ read_half' = NoConn \/ read_half' = c
          /\ proc_rx' = Tail(proc_rx)
          /\ UNCHANGED <<el_pc, batch, inbox>>
      BY <1>4, <2>2 DEF NLStream, NextOrDead
    <3> HIDE DEF c, acked
    <3> QED
      BY <1>1, <3>1, <3>2, GeneratingStep
  <2>3. CASE ~active /\ proc_rx # <<>> /\ Head(proc_rx) \notin Conns
    <3>1. /\ proc_rx' = Tail(proc_rx)
          /\ UNCHANGED <<events, tokens, el_pc, read_half, write_half, batch,
                         inbox>>
      BY <1>4, <2>3 DEF NLStream
    <3> QED
      BY <1>1, <2>3, <3>1, QuietStep
  <2> QED
    BY <2>1, <2>2, <2>3
<1>5. CASE NLRoutes
  <2>1. PICK n \in 0..Len(proc_rx) :
          LET evs == [i \in 1..n |-> Plain("SendUpdateMsg")]
              taken == IF Panics(evs) THEN Room + 1
                       ELSE Min2(n + 1, Len(proc_rx))
          IN /\ proc_rx' = SubSeq(proc_rx, taken + 1, Len(proc_rx))
             /\ Generate(evs)
             /\ NextOrDead(evs, "read", read_half)
    BY <1>5 DEF NLRoutes
  <2> DEFINE evs == [i \in 1..n |-> Plain("SendUpdateMsg")]
             taken == IF Panics(evs) THEN Room + 1
                      ELSE Min2(n + 1, Len(proc_rx))
  <2>2. evs \in Seq(QueuedEvent)
    BY EventsQueued DEF GeneratedEvents
  <2>3. taken \in Nat
    BY <1>1, SessionConstants DEF Room, Min2
  <2>4. /\ proc_rx' = SubSeq(proc_rx, taken + 1, Len(proc_rx))
        /\ Generate(evs)
        /\ read_half' = NoConn \/ read_half' = read_half
        /\ UNCHANGED <<el_pc, write_half, batch, inbox>>
    BY <1>5, <2>1 DEF NLRoutes, NextOrDead
  <2> HIDE DEF evs, taken
  <2>5. proc_rx' \in Seq(Conns \cup {"Route"})
    BY <1>1, <2>3, <2>4
  <2> QED
    BY <1>1, <2>2, <2>4, <2>5, GeneratingStep
<1>6. CASE NLRead
  <2>1. CASE inbox' = inbox /\ batch' = batch
    BY <1>1, <1>6, <2>1, QuietStep DEF NLRead
  <2>2. CASE /\ read_half # NoConn /\ inbox[read_half] # <<>>
             /\ batch' = Extracted(inbox[read_half])
             /\ inbox' = [inbox EXCEPT ![read_half] = <<>>]
    <3>1. inbox[read_half] \in Seq(PeerMessages)
      BY <1>1, <2>2 DEF Connection
    <3>2. batch' \in Seq(PeerMessages)
      BY <2>2, <3>1 DEF Extracted
    <3>3. inbox' \in [Conns -> Seq(PeerMessages)]
      <4>1. <<>> \in Seq(PeerMessages)
        OBVIOUS
      <4> QED
        BY <1>1, <2>2, <4>1
    <3> QED
      BY <1>1, <1>6, <3>2, <3>3, QuietStep DEF NLRead
  <2> QED
    BY <1>6, <2>1, <2>2 DEF NLRead
<1>7. CASE NLMessages
  <2> DEFINE evs == [i \in 1..Len(batch) |-> Received(batch[i], read_half)]
  <2>1. evs \in Seq(QueuedEvent)
    BY <1>1, EventsQueued
  <2>2. /\ Generate(evs) /\ batch' = <<>>
        /\ read_half' = NoConn \/ read_half' = read_half
        /\ UNCHANGED <<el_pc, proc_rx, write_half, inbox>>
    BY <1>7 DEF NLMessages, NextOrDead
  <2> HIDE DEF evs
  <2> QED
    BY <1>1, <2>1, <2>2, GeneratingStep
<1>8. CASE NLClosed
  <2>1. ClosedEvents \in Seq(QueuedEvent)
    BY EventsQueued DEF ClosedEvents, GeneratedEvents, TimerEvents
  <2>2. /\ Generate(ClosedEvents)
        /\ read_half' = NoConn \/ read_half' = read_half
        /\ UNCHANGED <<el_pc, proc_rx, write_half, batch, inbox>>
    BY <1>8 DEF NLClosed, NextOrDead
  <2> QED
    BY <1>1, <2>1, <2>2, GeneratingStep
<1> QED
  BY <1>2, <1>3, <1>4, <1>5, <1>6, <1>7, <1>8 DEF NeighborLoop

\* The event loop takes a token, then events, and stops when there are none.
LEMMA EventLoopKeeps ==
  ASSUME QueueInv, EventLoop
  PROVE  QueueInv'
<1> USE DEF QueueInv, QueuesTypeOK, EventsBounded
<1>1. CASE ELReceive
  BY <1>1, SessionConstants DEF ELReceive
<1>2. CASE ELLock
  BY <1>2 DEF ELLock
<1>3. CASE ELUnlock
  BY <1>3 DEF ELUnlock
<1>4. CASE ELHandle
  <2>1. /\ events # <<>> /\ events' = Tail(events) /\ el_pc = "drain"
        /\ UNCHANGED <<tokens, el_pc, proc_rx, read_half, write_half, batch,
                       inbox>>
    BY <1>4 DEF ELHandle, SignalProcess
  <2> QED
    BY <2>1
<1> QED
  BY <1>1, <1>2, <1>3, <1>4 DEF EventLoop

\* Everything else: the timer loop, the process and the peer.
LEMMA OthersKeep ==
  ASSUME QueueInv,
         \/ TimerLoop \/ TimePasses
         \/ ProcReceive \/ ProcSendRoute
         \/ PeerConnect \/ PeerClose \/ PeerSend
  PROVE  QueueInv'
<1>1. QueuesTypeOK
  BY DEF QueueInv
<1> USE DEF QueuesTypeOK
<1>2. CASE TLCheck
  BY <1>1, <1>2, DueEventsQueued, GeneratingStep DEF TLCheck
<1>3. CASE TLWake \/ TimePasses \/ ProcReceive \/ PeerClose
  BY <1>1, <1>3, QuietStep DEF TLWake, TimePasses, ProcReceive, PeerClose
<1>4. CASE ProcSendRoute
  <2>1. proc_rx' \in Seq(Conns \cup {"Route"})
    BY <1>1, <1>4 DEF ProcSendRoute
  <2> QED
    BY <1>1, <1>4, <2>1, QuietStep DEF ProcSendRoute
<1>5. CASE PeerConnect
  <2>1. proc_rx' \in Seq(Conns \cup {"Route"})
    BY <1>1, <1>5 DEF PeerConnect
  <2> QED
    BY <1>1, <1>5, <2>1, QuietStep DEF PeerConnect
<1>6. CASE PeerSend
  <2>1. inbox' \in [Conns -> Seq(PeerMessages)]
    <3>1. PICK c \in Conns, m \in PeerMessages :
            inbox' = [inbox EXCEPT ![c] = Append(@, m)]
      BY <1>6 DEF PeerSend
    <3>2. Append(inbox[c], m) \in Seq(PeerMessages)
      BY <1>1
    <3> QED
      BY <1>1, <3>1, <3>2
  <2> QED
    BY <1>1, <1>6, <2>1, QuietStep DEF PeerSend
<1> QED
  BY <1>2, <1>3, <1>4, <1>5, <1>6 DEF TimerLoop

-----------------------------------------------------------------------------
(* The theorems.                                                           *)

\* QueueInv is inductive.
LEMMA QueueInvariant == Spec => []QueueInv
<1>1. Init => QueueInv
  <2> SUFFICES ASSUME Init PROVE QueueInv
    OBVIOUS
  <2>1. /\ FirstConn \in Connection /\ NoConn \in Connection
        /\ 1 \in 0..WatcherCap
    BY SessionConstants DEF Connection
  <2>2. events \in Seq(QueuedEvent) /\ Len(events) = 2
    <3>1. /\ Plain("AutomaticStartWithPassiveTcpEstablishment") \in QueuedEvent
          /\ OfConn("TcpCRAcked", FirstConn) \in QueuedEvent
      BY <2>1, EventsQueued DEF GeneratedEvents
    <3> QED
      BY <3>1 DEF Init
  <2>3. tokens = 1 /\ el_pc = "lock" /\ read_half = FirstConn
        /\ write_half = FirstConn /\ batch = <<>> /\ proc_rx = <<>>
        /\ inbox = [c \in Conns |-> <<>>]
    BY DEF Init
  <2> QED
    BY <2>1, <2>2, <2>3 DEF QueueInv, QueuesTypeOK, EventsBounded
<1>2. QueueInv /\ [Next]_vars => QueueInv'
  <2> SUFFICES ASSUME QueueInv, [Next]_vars PROVE QueueInv'
    OBVIOUS
  <2>1. CASE UNCHANGED vars
    BY <2>1 DEF QueueInv, QueuesTypeOK, EventsBounded
  <2> QED
    BY <2>1, NeighborLoopKeeps, EventLoopKeeps, OthersKeep DEF Next
<1> QED
  BY <1>1, <1>2, PTL DEF Spec

\* The event queue never holds more events than the watcher channel has tokens,
\* but for those of the token being served.
THEOREM QueueIsBounded == Spec => []EventsBounded
BY QueueInvariant, PTL DEF QueueInv

\* The event loop never waits for a token while an event is queued for it.
THEOREM NoWakeupIsLost == Spec => []NoLostWakeup
<1>1. QueueInv => NoLostWakeup
  BY DEF QueueInv, QueuesTypeOK, EventsBounded, NoLostWakeup
<1> QED
  BY <1>1, QueueInvariant, PTL

-----------------------------------------------------------------------------
(* The two halves of the stream.                                           *)

\* HalvesAgree, and what it says between taking a DropTCP and clearing the write
\* half: the read half is gone already.  A dead loop has left the write half.
HalvesInv ==
  /\ HalvesAgree
  /\ nl_pc = "clear" => read_half = NoConn
  /\ nl_pc # "clear" => (active <=> write_half # NoConn)

\* A step that leaves both halves alone, and the loop outside "clear".
LEMMA HalvesUntouched ==
  ASSUME HalvesInv, UNCHANGED <<read_half, write_half, active>>,
         nl_pc' = "clear" => nl_pc = "clear",
         nl_pc \in {"clear", "dead"} => nl_pc' = nl_pc
  PROVE  HalvesInv'
BY DEF HalvesInv, HalvesAgree

\* The loop takes a stream only when it has none, and drops both halves.
LEMMA NeighborLoopKeepsHalves ==
  ASSUME QueueInv, HalvesInv, NeighborLoop
  PROVE  HalvesInv'
<1>1. CASE NLTakeDrop
  BY <1>1 DEF NLTakeDrop, HalvesInv, HalvesAgree
<1>2. CASE NLClearWriteHalf
  BY <1>2 DEF NLClearWriteHalf, HalvesInv, HalvesAgree
<1>3. CASE NLStream
  <2>1. CASE UNCHANGED <<read_half, write_half, active>> /\ nl_pc' = "routes"
    BY <1>3, <2>1, HalvesUntouched DEF NLStream
  <2>2. CASE ~active /\ proc_rx # <<>> /\ Head(proc_rx) \in Conns
    <3> DEFINE c == Head(proc_rx)
    <3>1. /\ write_half' = c /\ active' = TRUE
          /\ nl_pc' = "dead" \/ (nl_pc' = "routes" /\ read_half' = c)
      BY <1>3, <2>2 DEF NLStream, NextOrDead
    <3>2. c # NoConn
      BY <2>2, SessionConstants
    <3> HIDE DEF c
    <3> QED
      BY <3>1, <3>2 DEF HalvesInv, HalvesAgree
  <2> QED
    BY <1>3, <2>1, <2>2 DEF NLStream
<1>4. CASE NLRoutes \/ NLMessages \/ NLClosed
  <2>1. /\ nl_pc \in {"routes", "messages", "closed"}
        /\ UNCHANGED <<write_half, active>>
        /\ \/ nl_pc' = "dead"
           \/ nl_pc' \in {"read", "top"} /\ UNCHANGED read_half
    BY <1>4 DEF NLRoutes, NLMessages, NLClosed, NextOrDead
  <2> QED
    BY <2>1 DEF HalvesInv, HalvesAgree
<1>5. CASE NLRead
  BY <1>5, HalvesUntouched DEF NLRead
<1> QED
  BY <1>1, <1>2, <1>3, <1>4, <1>5 DEF NeighborLoop

\* HalvesInv is inductive with the types of the queues.
LEMMA HalvesInvariant == Spec => []HalvesInv
<1>1. Init => HalvesInv
  BY SessionConstants DEF Init, HalvesInv, HalvesAgree
<1>2. QueueInv /\ HalvesInv /\ [Next]_vars => HalvesInv'
  <2> SUFFICES ASSUME QueueInv, HalvesInv, [Next]_vars PROVE HalvesInv'
    OBVIOUS
  <2>1. CASE UNCHANGED vars
    BY <2>1 DEF HalvesInv, HalvesAgree
  <2>2. CASE EventLoop
    BY <2>2, HalvesUntouched
    DEF EventLoop, ELReceive, ELLock, ELUnlock, ELHandle
  <2>3. CASE \/ TimerLoop \/ TimePasses
             \/ ProcReceive \/ ProcSendRoute
             \/ PeerConnect \/ PeerClose \/ PeerSend
    BY <2>3, HalvesUntouched
    DEF TimerLoop, TLCheck, TLWake, TimePasses, ProcReceive, ProcSendRoute,
        PeerConnect, PeerClose, PeerSend
  <2> QED
    BY <2>1, <2>2, <2>3, NeighborLoopKeepsHalves DEF Next
<1> QED
  BY <1>1, <1>2, QueueInvariant, PTL DEF Spec

\* The neighbor loop's half of the TCP stream and the event loop's are halves of
\* the same connection, and is_tcp_stream_active says whether there is one.
THEOREM HalvesOfOneStream == Spec => []HalvesAgree
BY HalvesInvariant, PTL DEF HalvesInv

-----------------------------------------------------------------------------
(* Sessions.                                                               *)

\* An Open is only written to a stream, and neither it nor a DropTCP comes from a
\* handler that stays in the session.
LEMMA SessionHandlers ==
  ASSUME NEW e, NEW w, Handle(e, w)
  PROVE  /\ out' = "Open" => w = "ok"
         /\ InSession /\ InSession' => out' # Drop /\ out' # "Open"
<1> USE DEF Goto, GoIdle, Ignore, Nothing, Drop, InSession
<1>1. CASE state = "Idle" /\ HandleIdle(e)
  BY <1>1 DEF HandleIdle, IdleStart, IdleHoldTimerExpires, IdleIgnores
<1>2. CASE state = "Connect" /\ HandleConnect(e, w)
  BY <1>2 DEF HandleConnect, SendOpen, DelayOpenExpires, OpenBeforeDelay,
              VersionError, ConnectRetryExpires, ConnectTcpFails,
              ConnectTeardown, ConnectIgnores
<1>3. CASE state = "Active" /\ HandleActive(e, w)
  BY <1>3 DEF HandleActive, SendOpen, DelayOpenExpires, OpenBeforeDelay,
              VersionError, ActiveRetry, ActiveTcpFails, ActiveTeardown,
              ActiveIgnores
<1>4. CASE state = "OpenSent" /\ HandleOpenSent(e, w)
  BY <1>4 DEF HandleOpenSent, OpenSentOpenMsg, OpenSentTcpFails,
              OpenSentTeardown, OpenSentIgnores
<1>5. CASE state = "OpenConfirm" /\ HandleOpenConfirm(e)
  BY <1>5 DEF HandleOpenConfirm, OpenConfirmKeepAliveMsg,
              OpenConfirmKeepaliveExpires, OpenConfirmTeardown,
              OpenConfirmIgnores
<1>6. CASE state = "Established" /\ HandleEstablished(e, w)
  BY <1>6 DEF HandleEstablished, EstablishedTeardown,
              EstablishedKeepaliveExpires, EstablishedKeepAliveMsg,
              EstablishedUpdateMsg, EstablishedSendUpdateMsg,
              EstablishedIgnores
<1> QED
  BY <1>1, <1>2, <1>3, <1>4, <1>5, <1>6 DEF Handle

\* The event loop begins a session on the stream it has, or condemns it.
LEMMA HandlerKeepsConnection ==
  ASSUME HalvesInv, SessionOnOneConnection, ELHandle
  PROVE  SessionOnOneConnection'
<1> SUFFICES ASSUME InSession', ~condemned' PROVE SessionOnOneConnection'
  BY DEF SessionOnOneConnection
<1>1. PICK w \in WriteOutcomes : Handle(Head(events), w)
  BY DEF ELHandle
<1>2. /\ out' = "Open" => w = "ok"
      /\ InSession /\ InSession' => out' # Drop /\ out' # "Open"
  BY <1>1, SessionHandlers
<1>3. UNCHANGED <<read_half, write_half, active, nl_pc>>
  BY DEF ELHandle
<1>4. CASE InSession
  BY <1>2, <1>3, <1>4
  DEF ELHandle, NoteAttempt, SignalDrop, SessionOnOneConnection
<1>5. CASE ~InSession
  <2>1. out' = "Open" /\ opened' = write_half
    BY <1>5 DEF ELHandle, NoteAttempt
  <2>2. tcp_channel' = tcp_channel /\ tcp_channel # "full" /\ nl_pc # "clear"
    BY <1>5, <2>1 DEF ELHandle, NoteAttempt, SignalDrop, Drop
  <2>3. write_half # NoConn
    BY <1>2, <2>1 DEF WriteOutcomes
  <2> QED
    BY <1>3, <2>1, <2>2, <2>3 DEF HalvesInv, HalvesAgree, SessionOnOneConnection
<1> QED
  BY <1>4, <1>5

\* The neighbor loop takes a stream only without one, and no DropTCP is there.
LEMMA LoopKeepsConnection ==
  ASSUME SessionOnOneConnection, NeighborLoop
  PROVE  SessionOnOneConnection'
<1> USE DEF SessionOnOneConnection, InSession
<1>1. CASE NLTakeDrop \/ NLClearWriteHalf
  BY <1>1 DEF NLTakeDrop, NLClearWriteHalf
<1>2. CASE NLStream
  BY <1>2 DEF NLStream
<1>3. CASE NLRoutes \/ NLMessages \/ NLClosed
  BY <1>3 DEF NLRoutes, NLMessages, NLClosed, NextOrDead
<1>4. CASE NLRead
  BY <1>4 DEF NLRead
<1> QED
  BY <1>1, <1>2, <1>3, <1>4 DEF NeighborLoop

\* From OpenSent to the end of a session, its stream is the one our Open went out
\* on, both halves of it, and no DropTCP waits, unless one did from the start.
THEOREM OneConnectionPerSession == Spec => []SessionOnOneConnection
<1>1. Init => SessionOnOneConnection
  BY DEF Init, FSMInit, InSession, SessionOnOneConnection
<1>2. HalvesInv /\ SessionOnOneConnection /\ [Next]_vars
        => SessionOnOneConnection'
  <2> SUFFICES ASSUME HalvesInv, SessionOnOneConnection, [Next]_vars
               PROVE  SessionOnOneConnection'
    OBVIOUS
  <2>1. CASE UNCHANGED vars
    BY <2>1 DEF SessionOnOneConnection, InSession
  <2>2. CASE ELHandle
    BY <2>2, HandlerKeepsConnection
  <2>3. CASE NeighborLoop
    BY <2>3, LoopKeepsConnection
  <2>4. CASE \/ ELReceive \/ ELLock \/ ELUnlock
             \/ TimerLoop \/ TimePasses
             \/ ProcReceive \/ ProcSendRoute
             \/ PeerConnect \/ PeerClose \/ PeerSend
    BY <2>4
    DEF ELReceive, ELLock, ELUnlock, TimerLoop, TLCheck, TLWake, TimePasses,
        Elapse, ProcReceive, ProcSendRoute, PeerConnect, PeerClose, PeerSend,
        SessionOnOneConnection, InSession
  <2> QED
    BY <2>1, <2>2, <2>3, <2>4 DEF Next, EventLoop
<1> QED
  BY <1>1, <1>2, HalvesInvariant, PTL DEF Spec

-----------------------------------------------------------------------------
(* Types.                                                                  *)

\* What SessionTypeOK says beside QueuesTypeOK and the types of the FSM.
TasksTypeOK ==
  /\ tcp_channel \in {"empty", "full", "closed"}
  /\ active \in BOOLEAN
  /\ nl_pc \in {"wait", "top", "clear", "stream", "routes", "read", "messages",
                "closed", "dead"}
  /\ el_pc \in {"recv", "lock", "drain"}
  /\ tl_pc \in {"check", "sleep", "dead"}
  /\ opened \in Connection /\ condemned \in BOOLEAN
  /\ proc_token \in BOOLEAN /\ up_pending \in BOOLEAN
  /\ announce \in 0..MaxRoutes
  /\ peer \in [Conns -> {"unborn", "open", "closed"}]
  /\ sent \in 0..MaxMessages /\ elapsed \in 0..MaxElapses

\* The machine is given well-formed events by the queue, and its invariant holds
\* in the session as it does on its own.
LEMMA MachineKeeps ==
  ASSUME QueueInv, FSMInv, [Next]_vars
  PROVE  FSMInv'
<1>1. CASE UNCHANGED fsmVars
  BY <1>1 DEF FSMInv, FSMTypeOK, CounterDiscipline, SessionWatched
<1>2. CASE ELHandle
  <2>1. PICK w \in WriteOutcomes : Handle(Head(events), w)
    BY <1>2 DEF ELHandle
  <2>2. Head(events) \in QueuedEvent
    BY <1>2 DEF ELHandle, QueueInv, QueuesTypeOK
  <2>3. GoodHoldTime(Head(events))
    BY <2>2 DEF QueuedEvent, GoodHoldTime
  <2> QED
    BY <2>1, <2>3, HandleKeeps
<1>3. CASE TimePasses
  BY <1>3, ElapseKeeps DEF TimePasses
<1> QED
  BY <1>1, <1>2, <1>3
  DEF Next, NeighborLoop, NLTakeDrop, NLClearWriteHalf, NLStream, NLRoutes,
      NLRead, NLMessages, NLClosed, EventLoop, ELReceive, ELLock, ELUnlock,
      TimerLoop, TLCheck, TLWake, ProcReceive, ProcSendRoute, PeerConnect,
      PeerClose, PeerSend

\* The tasks, the process and the peer keep the types of what they change.
LEMMA TasksKeepTypes ==
  ASSUME QueueInv, TasksTypeOK, [Next]_vars
  PROVE  TasksTypeOK'
<1> USE SessionConstants DEF TasksTypeOK
<1>1. CASE UNCHANGED vars
  BY <1>1
<1>2. CASE NeighborLoop
  <2>1. active' \in BOOLEAN
    BY <1>2
    DEF NeighborLoop, NLTakeDrop, NLClearWriteHalf, NLStream, NLRoutes, NLRead,
        NLMessages, NLClosed
  <2>2. /\ tcp_channel' \in {"empty", "full", "closed"}
        /\ nl_pc' \in {"wait", "top", "clear", "stream", "routes", "read",
                      "messages", "closed", "dead"}
    BY <1>2
    DEF NeighborLoop, NLTakeDrop, NLClearWriteHalf, NLStream, NLRoutes, NLRead,
        NLMessages, NLClosed, NextOrDead
  <2>3. UNCHANGED <<el_pc, tl_pc, opened, condemned, proc_token, up_pending,
                    announce, peer, sent, elapsed>>
    BY <1>2
    DEF NeighborLoop, NLTakeDrop, NLClearWriteHalf, NLStream, NLRoutes, NLRead,
        NLMessages, NLClosed
  <2> QED
    BY <2>1, <2>2, <2>3
<1>3. CASE ELHandle
  <2>1. write_half \in Connection
    BY DEF QueueInv, QueuesTypeOK
  <2>2. opened' \in Connection /\ condemned' \in BOOLEAN
    BY <1>3, <2>1 DEF ELHandle, NoteAttempt
  <2>3. tcp_channel' \in {"empty", "full", "closed"}
    BY <1>3 DEF ELHandle, SignalDrop
  <2>4. proc_token' \in BOOLEAN /\ up_pending' \in BOOLEAN /\ announce' = announce
    BY <1>3 DEF ELHandle, SignalProcess
  <2> QED
    BY <1>3, <2>2, <2>3, <2>4 DEF ELHandle
<1>4. CASE ELReceive \/ ELLock \/ ELUnlock
  BY <1>4 DEF ELReceive, ELLock, ELUnlock
<1>5. CASE TimerLoop \/ TimePasses
  BY <1>5 DEF TimerLoop, TLCheck, TLWake, TimePasses
<1>6. CASE ProcReceive \/ ProcSendRoute
  <2>1. announce' \in 0..MaxRoutes
    BY <1>6 DEF ProcReceive, ProcSendRoute
  <2>2. proc_token' \in BOOLEAN /\ up_pending' \in BOOLEAN
    BY <1>6 DEF ProcReceive, ProcSendRoute
  <2> QED
    BY <1>6, <2>1, <2>2 DEF ProcReceive, ProcSendRoute
<1>7. CASE PeerConnect
  BY <1>7 DEF PeerConnect
<1>8. CASE PeerClose
  BY <1>8 DEF PeerClose
<1>9. CASE PeerSend
  BY <1>9 DEF PeerSend
<1> QED
  BY <1>1, <1>2, <1>3, <1>4, <1>5, <1>6, <1>7, <1>8, <1>9 DEF Next, EventLoop

\* The state of the session has its types, that of the machine included, whatever
\* the peer sends and the tasks do.
THEOREM SessionTypeCorrect == Spec => []SessionTypeOK
<1>1. Init => FSMInv /\ TasksTypeOK
  <2>1. Init => FSMInv
    BY InitEstablishes DEF Init
  <2>2. Init => TasksTypeOK
    <3> SUFFICES ASSUME Init PROVE TasksTypeOK
      OBVIOUS
    <3>1. /\ peer \in [Conns -> {"unborn", "open", "closed"}]
          /\ NoConn \in Connection
      BY DEF Init, Connection
    <3>2. /\ announce = 0 /\ sent = 0 /\ elapsed = 0
          /\ tcp_channel = "empty" /\ active = TRUE
          /\ nl_pc = "wait" /\ el_pc = "lock" /\ tl_pc = "check"
          /\ opened = NoConn /\ condemned = FALSE
          /\ proc_token = FALSE /\ up_pending = FALSE
      BY DEF Init
    <3>3. 0 \in 0..MaxRoutes /\ 0 \in 0..MaxMessages /\ 0 \in 0..MaxElapses
      BY SessionConstants
    <3> QED
      BY <3>1, <3>2, <3>3 DEF TasksTypeOK
  <2> QED
    BY <2>1, <2>2
<1>2. QueueInv /\ FSMInv /\ TasksTypeOK /\ [Next]_vars
        => FSMInv' /\ TasksTypeOK'
  BY MachineKeeps, TasksKeepTypes
<1>3. QueueInv /\ FSMInv /\ TasksTypeOK => SessionTypeOK
  BY DEF QueueInv, QueuesTypeOK, FSMInv, TasksTypeOK, SessionTypeOK
<1> QED
  BY <1>1, <1>2, <1>3, QueueInvariant, PTL DEF Spec

-----------------------------------------------------------------------------
(* Messages of an earlier connection.                                      *)
(*                                                                         *)
(* When the event loop begins a session, messages of the connection before *)
(* may still be queued behind the TcpCRAcked it handles.  There is at most *)
(* one: a stream taken while a DropTCP waits is read once before the loop  *)
(* comes to the DropTCP, and a read yields one message.                    *)

IsMessage(e) == e.type \in PeerEvents
IsAcked(e) == e.type = "TcpCRAcked"

\* Of the messages in the queue behind a, those after the first are of c; there is
\* one at most; there is none.
FirstMayStray(queue, c, a) ==
  \A l, k \in (a + 1)..Len(queue) :
    l < k /\ IsMessage(queue[l]) /\ IsMessage(queue[k]) => queue[k].conn = c
AtMostOne(queue, a) ==
  \A l, k \in (a + 1)..Len(queue) :
    l < k => ~IsMessage(queue[l]) \/ ~IsMessage(queue[k])
NoneBehind(queue, a) ==
  \A k \in (a + 1)..Len(queue) : ~IsMessage(queue[k])

\* A session may begin on the present stream, uncondemned.
Calm == tcp_channel # "full" /\ nl_pc # "clear"

\* What is queued: events that the program generates, messages of a connection.
Generated ==
  /\ Len(batch) <= 1
  /\ nl_pc = "messages" => read_half # NoConn
  /\ \A k \in 1..Len(events) :
       /\ events[k].type \in GeneratedEvents
       /\ IsMessage(events[k]) => events[k].conn # NoConn

BehindAcked ==
  \A a \in 1..Len(events) : IsAcked(events[a]) =>
    /\ Calm => FirstMayStray(events, write_half, a)
    /\ LockFree /\ tcp_channel = "full" =>
         \/ NoneBehind(events, a)
         \/ nl_pc = "top" /\ AtMostOne(events, a)
    /\ LockFree /\ nl_pc = "clear" => AtMostOne(events, a)

\* The stray message ends the session's OpenSent, or the session.
InUncondemned ==
  InSession /\ ~condemned =>
    /\ FirstMayStray(events, opened, 0)
    /\ state # "OpenSent" =>
         \A k \in 1..Len(events) :
           IsMessage(events[k]) => events[k].conn = opened

StrayInv == Generated /\ BehindAcked /\ InUncondemned

\* What holds of the messages behind a holds still when other events, or messages
\* of c, are queued, and when the first event is taken.
LEMMA QueueOthers ==
  ASSUME NEW queue \in Seq(QueuedEvent), NEW more \in Seq(QueuedEvent),
         \A k \in 1..Len(more) : ~IsMessage(more[k]),
         NEW a \in 0..Len(queue), NEW c
  PROVE  /\ FirstMayStray(queue, c, a) => FirstMayStray(queue \o more, c, a)
         /\ AtMostOne(queue, a) => AtMostOne(queue \o more, a)
         /\ NoneBehind(queue, a) => NoneBehind(queue \o more, a)
<1> DEFINE longer == queue \o more
<1>1. \A k \in (a + 1)..Len(longer) :
        IsMessage(longer[k]) => k \in (a + 1)..Len(queue) /\ longer[k] = queue[k]
  <2> SUFFICES ASSUME NEW k \in (a + 1)..Len(longer), k > Len(queue)
               PROVE  ~IsMessage(longer[k])
    OBVIOUS
  <2>1. longer[k] = more[k - Len(queue)] /\ k - Len(queue) \in 1..Len(more)
    OBVIOUS
  <2> QED
    BY <2>1
<1> HIDE DEF longer
<1>2. /\ FirstMayStray(queue, c, a) => FirstMayStray(longer, c, a)
      /\ AtMostOne(queue, a) => AtMostOne(longer, a)
      /\ NoneBehind(queue, a) => NoneBehind(longer, a)
  BY <1>1 DEF FirstMayStray, AtMostOne, NoneBehind
<1> QED
  BY <1>2 DEF longer

LEMMA QueueMessages ==
  ASSUME NEW queue \in Seq(QueuedEvent), NEW more \in Seq(QueuedEvent),
         NEW c, \A k \in 1..Len(more) : more[k].conn = c,
         NEW a \in 0..Len(queue)
  PROVE  /\ FirstMayStray(queue, c, a) => FirstMayStray(queue \o more, c, a)
         /\ NoneBehind(queue, a) /\ Len(more) <= 1 => AtMostOne(queue \o more, a)
<1> DEFINE longer == queue \o more
<1>1. \A k \in (a + 1)..Len(longer) :
        IF k <= Len(queue) THEN longer[k] = queue[k] ELSE longer[k].conn = c
  <2> SUFFICES ASSUME NEW k \in (a + 1)..Len(longer), k > Len(queue)
               PROVE  longer[k].conn = c
    OBVIOUS
  <2>1. longer[k] = more[k - Len(queue)] /\ k - Len(queue) \in 1..Len(more)
    OBVIOUS
  <2> QED
    BY <2>1
<1>2. Len(longer) = Len(queue) + Len(more) /\ Len(queue) \in Nat /\ Len(more) \in Nat
  OBVIOUS
<1> HIDE DEF longer
<1>3. FirstMayStray(queue, c, a) => FirstMayStray(longer, c, a)
  BY <1>1, <1>2 DEF FirstMayStray
<1>4. NoneBehind(queue, a) /\ Len(more) <= 1 => AtMostOne(longer, a)
  BY <1>1, <1>2 DEF NoneBehind, AtMostOne
<1> QED
  BY <1>3, <1>4 DEF longer

LEMMA TakeFirst ==
  ASSUME NEW queue \in Seq(QueuedEvent), queue # <<>>, NEW c
  PROVE  /\ Tail(queue) \in Seq(QueuedEvent) /\ Len(Tail(queue)) = Len(queue) - 1
         /\ \A k \in 1..Len(Tail(queue)) :
              k + 1 \in 1..Len(queue) /\ Tail(queue)[k] = queue[k + 1]
         /\ \A a \in 0..Len(Tail(queue)) :
              FirstMayStray(queue, c, a + 1) => FirstMayStray(Tail(queue), c, a)
         /\ FirstMayStray(queue, c, 0) => FirstMayStray(Tail(queue), c, 0)
<1> DEFINE rest == Tail(queue)
<1>1. /\ rest \in Seq(QueuedEvent) /\ Len(rest) = Len(queue) - 1
      /\ \A k \in 1..Len(rest) : k + 1 \in 1..Len(queue) /\ rest[k] = queue[k + 1]
  OBVIOUS
<1>2. Len(queue) \in Nat
  OBVIOUS
<1> HIDE DEF rest
<1>3. \A a \in 0..Len(rest) :
        FirstMayStray(queue, c, a + 1) => FirstMayStray(rest, c, a)
  BY <1>1, <1>2 DEF FirstMayStray
<1>4. FirstMayStray(queue, c, 0) => FirstMayStray(rest, c, 0)
  BY <1>1, <1>2 DEF FirstMayStray
<1> QED
  BY <1>1, <1>3, <1>4 DEF rest

\* generate_event queues the first events of evs.
LEMMA GenerateAppends ==
  ASSUME QueueInv, NEW evs \in Seq(QueuedEvent), Generate(evs)
  PROVE  \E more \in Seq(QueuedEvent) :
           /\ events' = events \o more
           /\ Len(more) <= Len(evs)
           /\ \A k \in 1..Len(more) : k \in 1..Len(evs) /\ more[k] = evs[k]
<1> DEFINE done == Min2(Len(evs), Room)
<1>1. done \in 0..Len(evs)
  BY SessionConstants DEF Min2, Room, QueueInv, QueuesTypeOK
<1>2. events' = events \o SubSeq(evs, 1, done)
  BY DEF Generate
<1> HIDE DEF done
<1>3. /\ SubSeq(evs, 1, done) \in Seq(QueuedEvent)
      /\ Len(SubSeq(evs, 1, done)) = done
      /\ \A k \in 1..done : SubSeq(evs, 1, done)[k] = evs[k]
  BY <1>1
<1> DEFINE more == SubSeq(evs, 1, done)
<1>4. /\ more \in Seq(QueuedEvent) /\ events' = events \o more
      /\ Len(more) <= Len(evs)
      /\ \A k \in 1..Len(more) : k \in 1..Len(evs) /\ more[k] = evs[k]
  BY <1>1, <1>2, <1>3
<1> HIDE DEF more
<1> QED
  BY <1>4

\* A step that queues no message and no TcpCRAcked, takes and signals no DropTCP
\* and leaves the session and the write half alone.
LEMMA NothingStrays ==
  ASSUME QueueInv, StrayInv,
         NEW more \in Seq(QueuedEvent), events' = events \o more,
         \A k \in 1..Len(more) : /\ more[k].type \in GeneratedEvents
                                 /\ ~IsMessage(more[k]) /\ ~IsAcked(more[k]),
         UNCHANGED <<state, opened, condemned, write_half>>,
         LockFree' => LockFree,
         Len(batch') <= 1, nl_pc' = "messages" => read_half' # NoConn,
         Calm' => Calm \/ (LockFree /\ tcp_channel = "full" /\ nl_pc # "top"),
         tcp_channel' = "full" =>
           tcp_channel = "full" /\ (nl_pc = "top" => nl_pc' = "top"),
         nl_pc' = "clear" => nl_pc = "clear"
  PROVE  StrayInv'
<1>1. /\ events \in Seq(QueuedEvent) /\ Len(events) \in Nat
      /\ Len(events') = Len(events) + Len(more)
      /\ \A k \in 1..Len(events) : events'[k] = events[k]
      /\ \A k \in 1..Len(events') : k \notin 1..Len(events) =>
           \E j \in 1..Len(more) : events'[k] = more[j]
  <2>1. events \in Seq(QueuedEvent)
    BY DEF QueueInv, QueuesTypeOK
  <2>2. \A k \in 1..Len(events') : k \notin 1..Len(events) =>
          k - Len(events) \in 1..Len(more) /\ events'[k] = more[k - Len(events)]
    BY <2>1
  <2> QED
    BY <2>1, <2>2
<1>2. \A k \in 1..Len(events') : IsMessage(events'[k]) \/ IsAcked(events'[k]) =>
        k \in 1..Len(events) /\ events'[k] = events[k]
  BY <1>1
<1>3. Generated'
  BY <1>1, <1>2 DEF StrayInv, Generated
<1>4. \A a \in 0..Len(events) : \A c :
        /\ FirstMayStray(events, c, a) => FirstMayStray(events', c, a)
        /\ AtMostOne(events, a) => AtMostOne(events', a)
        /\ NoneBehind(events, a) => NoneBehind(events', a)
  BY <1>1, QueueOthers
<1>5. BehindAcked'
  <2> SUFFICES ASSUME NEW a \in 1..Len(events'), IsAcked(events'[a])
               PROVE  /\ Calm' => FirstMayStray(events', write_half', a)
                      /\ LockFree' /\ tcp_channel' = "full" =>
                           \/ NoneBehind(events', a)
                           \/ nl_pc' = "top" /\ AtMostOne(events', a)
                      /\ LockFree' /\ nl_pc' = "clear" => AtMostOne(events', a)
    BY DEF BehindAcked
  <2>1. a \in 1..Len(events) /\ IsAcked(events[a])
    BY <1>2
  <2>2. /\ Calm => FirstMayStray(events, write_half, a)
        /\ LockFree /\ tcp_channel = "full" =>
             NoneBehind(events, a) \/ (nl_pc = "top" /\ AtMostOne(events, a))
        /\ LockFree /\ nl_pc = "clear" => AtMostOne(events, a)
    BY <2>1 DEF StrayInv, BehindAcked
  <2>3. NoneBehind(events, a) => FirstMayStray(events, write_half, a)
    BY DEF NoneBehind, FirstMayStray
  <2>4. a \in 0..Len(events)
    BY <2>1
  <2> QED
    BY <1>4, <2>2, <2>3, <2>4
<1>6. InUncondemned'
  <2>1. 0 \in 0..Len(events)
    BY <1>1
  <2> QED
    BY <1>2, <1>4, <2>1 DEF StrayInv, InUncondemned, InSession
<1> QED
  BY <1>3, <1>5, <1>6 DEF StrayInv

\* A step that queues nothing.
LEMMA NothingQueued ==
  ASSUME QueueInv, StrayInv,
         UNCHANGED <<events, state, opened, condemned, write_half>>,
         LockFree' => LockFree,
         Len(batch') <= 1, nl_pc' = "messages" => read_half' # NoConn,
         Calm' => Calm \/ (LockFree /\ tcp_channel = "full" /\ nl_pc # "top"),
         tcp_channel' = "full" =>
           tcp_channel = "full" /\ (nl_pc = "top" => nl_pc' = "top"),
         nl_pc' = "clear" => nl_pc = "clear"
  PROVE  StrayInv'
<1> DEFINE more == <<>>
<1>1. more \in Seq(QueuedEvent) /\ events' = events \o more
  BY DEF QueueInv, QueuesTypeOK
<1>2. \A k \in 1..Len(more) : /\ more[k].type \in GeneratedEvents
                              /\ ~IsMessage(more[k]) /\ ~IsAcked(more[k])
  OBVIOUS
<1> HIDE DEF more
<1> QED
  BY <1>1, <1>2, NothingStrays

\* The loop takes a stream when it has none, reads it once before it looks for a
\* DropTCP again, and what it reads is of that stream.
LEMMA LoopStrays ==
  ASSUME QueueInv, HalvesInv, SessionOnOneConnection, StrayInv, NeighborLoop
  PROVE  StrayInv'
<1>1. /\ events \in Seq(QueuedEvent) /\ Len(events) \in Nat
      /\ <<>> \in Seq(QueuedEvent) /\ events = events \o <<>>
      /\ \A k \in 1..Len(<<>>) : FALSE
  BY DEF QueueInv, QueuesTypeOK
<1>2. Generated /\ BehindAcked /\ InUncondemned
  BY DEF StrayInv
<1>3. \A a, c : NoneBehind(events, a) => AtMostOne(events, a)
                  /\ FirstMayStray(events, c, a)
  BY DEF NoneBehind, AtMostOne, FirstMayStray
<1>4. \A a, c : AtMostOne(events, a) => FirstMayStray(events, c, a)
  BY DEF AtMostOne, FirstMayStray
<1>5. CASE NLTakeDrop
  <2>1. CASE tcp_channel = "full"
    <3>1. /\ nl_pc = "top" /\ nl_pc' = "clear" /\ tcp_channel' = "empty"
          /\ UNCHANGED <<events, state, opened, condemned, batch, el_pc>>
      BY <1>5, <2>1 DEF NLTakeDrop
    <3>2. Generated' /\ InUncondemned'
      BY <1>2, <3>1 DEF Generated, InUncondemned, InSession
    <3>3. ASSUME NEW a \in 1..Len(events), IsAcked(events[a]), LockFree
          PROVE  AtMostOne(events, a)
      BY <1>2, <1>3, <2>1, <3>1, <3>3 DEF BehindAcked
    <3>4. BehindAcked'
      BY <3>1, <3>3 DEF BehindAcked, Calm, LockFree
    <3> QED
      BY <3>2, <3>4 DEF StrayInv
  <2>2. CASE tcp_channel # "full"
    <3>1. /\ nl_pc = "top" /\ nl_pc' = "stream" /\ UNCHANGED tcp_channel
          /\ UNCHANGED <<events, state, opened, condemned, write_half, batch, el_pc>>
      BY <1>5, <2>2 DEF NLTakeDrop
    <3> QED
      BY <1>2, <2>2, <3>1, NothingQueued DEF Generated, Calm, LockFree
  <2> QED
    BY <2>1, <2>2
<1>6. CASE NLClearWriteHalf
  <2>1. /\ nl_pc = "clear" /\ nl_pc' = "stream" /\ LockFree
        /\ UNCHANGED <<events, tcp_channel, state, opened, condemned, batch, el_pc>>
    BY <1>6 DEF NLClearWriteHalf
  <2>2. Generated' /\ InUncondemned'
    BY <1>2, <2>1 DEF Generated, InUncondemned, InSession
  <2>3. BehindAcked'
    BY <1>2, <1>3, <1>4, <2>1 DEF BehindAcked, Calm
  <2> QED
    BY <2>2, <2>3 DEF StrayInv
<1>7. CASE NLStream
  <2>1. CASE UNCHANGED <<events, tcp_channel, write_half>> /\ nl_pc' = "routes"
    <3>1. /\ nl_pc = "stream"
          /\ UNCHANGED <<state, opened, condemned, batch, el_pc>>
      BY <1>7 DEF NLStream
    <3> QED
      BY <1>2, <2>1, <3>1, NothingQueued DEF Generated, Calm, LockFree
  <2>2. CASE ~active /\ proc_rx # <<>> /\ Head(proc_rx) \in Conns
    <3> DEFINE c == Head(proc_rx)
               acked == <<OfConn("TcpCRAcked", c)>>
    <3>1. /\ LockFree /\ nl_pc = "stream"
          /\ write_half' = c /\ Generate(acked)
          /\ \/ nl_pc' = "dead" /\ tcp_channel' = "closed"
             \/ nl_pc' = "routes" /\ tcp_channel' = tcp_channel
          /\ UNCHANGED <<state, opened, condemned, batch, el_pc>>
      BY <1>7, <2>2 DEF NLStream, NextOrDead
    <3>2. /\ acked \in Seq(QueuedEvent) /\ Len(acked) = 1
          /\ acked[1].type = "TcpCRAcked" /\ "TcpCRAcked" \in GeneratedEvents
      <4>1. c \in Connection /\ "TcpCRAcked" \in GeneratedEvents
        BY <2>2 DEF Connection, GeneratedEvents
      <4>2. OfConn("TcpCRAcked", c) \in QueuedEvent
        BY <4>1, EventsQueued
      <4>3. OfConn("TcpCRAcked", c).type = "TcpCRAcked"
        BY DEF OfConn, Plain
      <4> QED
        BY <4>1, <4>2, <4>3
    <3> HIDE DEF c, acked
    <3>3. PICK more \in Seq(QueuedEvent) :
            /\ events' = events \o more /\ Len(more) <= Len(acked)
            /\ \A k \in 1..Len(more) : k \in 1..Len(acked) /\ more[k] = acked[k]
      BY <3>1, <3>2, GenerateAppends
    <3>4. /\ \A k \in 1..Len(more) : more[k].type = "TcpCRAcked"
          /\ \A k \in 1..Len(more) : ~IsMessage(more[k])
      BY <3>2, <3>3 DEF IsMessage, PeerEvents
    <3>5. ~InSession \/ condemned
      BY <2>2, <3>1 DEF HalvesInv, SessionOnOneConnection
    <3>6. /\ Len(events') = Len(events) + Len(more) /\ Len(more) \in 0..1
          /\ \A k \in 1..Len(events) : events'[k] = events[k]
          /\ \A k \in 1..Len(events') : k \notin 1..Len(events) =>
               /\ k = Len(events')
               /\ events'[k].type = "TcpCRAcked" /\ ~IsMessage(events'[k])
      <4>1. \A k \in 1..Len(events') : k \notin 1..Len(events) =>
              k - Len(events) \in 1..Len(more) /\ events'[k] = more[k - Len(events)]
        BY <1>1, <3>3
      <4>2. Len(events') = Len(events) + Len(more) /\ Len(more) \in 0..1
        BY <1>1, <3>2, <3>3
      <4> QED
        BY <1>1, <3>3, <3>4, <4>1, <4>2
    <3>7. Generated'
      BY <1>2, <3>1, <3>2, <3>6 DEF Generated
    <3>8. ASSUME NEW a \in 1..Len(events), IsAcked(events[a])
          PROVE  /\ AtMostOne(events', a) \/ ~Calm
                 /\ tcp_channel = "full" => NoneBehind(events', a)
                 /\ NoneBehind(events', a) => AtMostOne(events', a)
      <4>1. Calm => FirstMayStray(events, write_half, a)
        BY <1>2, <3>8 DEF BehindAcked
      <4>2. Calm => AtMostOne(events, a)
        <5>1. write_half = NoConn
          BY <2>2, <3>1 DEF HalvesInv
        <5>2. \A k \in 1..Len(events) :
                IsMessage(events[k]) => events[k].conn # NoConn
          BY <1>2 DEF Generated
        <5> QED
          BY <1>1, <4>1, <5>1, <5>2 DEF FirstMayStray, AtMostOne
      <4>3. tcp_channel = "full" => NoneBehind(events, a)
        BY <1>2, <3>1, <3>8 DEF BehindAcked
      <4>4. a \in 0..Len(events)
        BY <1>1
      <4> QED
        BY <1>1, <3>3, <3>4, <4>2, <4>3, <4>4, QueueOthers
        DEF NoneBehind, AtMostOne
    <3>9. BehindAcked'
      <4> SUFFICES ASSUME NEW a \in 1..Len(events'), IsAcked(events'[a])
                   PROVE  /\ Calm' => FirstMayStray(events', write_half', a)
                          /\ LockFree' /\ tcp_channel' = "full" =>
                               NoneBehind(events', a)
                          /\ nl_pc' # "clear"
        BY DEF BehindAcked
      <4>1. CASE a \in 1..Len(events)
        <5>1. IsAcked(events[a])
          BY <3>6, <4>1
        <5>2. AtMostOne(events', a) => FirstMayStray(events', write_half', a)
          BY DEF AtMostOne, FirstMayStray
        <5> QED
          BY <3>1, <3>8, <4>1, <5>1, <5>2 DEF Calm
      <4>2. CASE a \notin 1..Len(events)
        <5>1. a = Len(events') /\ Len(events') \in Nat
          BY <1>1, <3>6, <4>2
        <5> QED
          BY <3>1, <5>1 DEF FirstMayStray, NoneBehind
      <4> QED
        BY <4>1, <4>2
    <3>10. InUncondemned'
      BY <3>1, <3>5 DEF InUncondemned, InSession
    <3> QED
      BY <3>7, <3>9, <3>10 DEF StrayInv
  <2> QED
    BY <1>7, <2>1, <2>2 DEF NLStream
<1>8. CASE NLRoutes
  <2>1. PICK n \in 0..Len(proc_rx) :
          LET evs == [i \in 1..n |-> Plain("SendUpdateMsg")]
          IN Generate(evs) /\ NextOrDead(evs, "read", read_half)
    BY <1>8 DEF NLRoutes
  <2> DEFINE evs == [i \in 1..n |-> Plain("SendUpdateMsg")]
  <2>2. /\ evs \in Seq(QueuedEvent)
        /\ \A k \in 1..Len(evs) : evs[k].type = "SendUpdateMsg"
    <3>1. n \in Nat /\ "SendUpdateMsg" \in GeneratedEvents
      BY DEF GeneratedEvents
    <3>2. Plain("SendUpdateMsg") \in QueuedEvent
          /\ Plain("SendUpdateMsg").type = "SendUpdateMsg"
      BY <3>1, EventsQueued DEF Plain
    <3> QED
      BY <3>1, <3>2
  <2>3. /\ LockFree /\ nl_pc = "routes" /\ Generate(evs)
        /\ \/ nl_pc' = "dead" /\ tcp_channel' = "closed"
           \/ nl_pc' = "read" /\ tcp_channel' = tcp_channel
        /\ UNCHANGED <<write_half, batch, state, opened, condemned, el_pc>>
    BY <1>8, <2>1 DEF NLRoutes, NextOrDead
  <2> HIDE DEF evs
  <2>4. PICK more \in Seq(QueuedEvent) :
          /\ events' = events \o more
          /\ \A k \in 1..Len(more) : k \in 1..Len(evs) /\ more[k] = evs[k]
    BY <2>2, <2>3, GenerateAppends
  <2>5. \A k \in 1..Len(more) : /\ more[k].type \in GeneratedEvents
                                /\ ~IsMessage(more[k]) /\ ~IsAcked(more[k])
    BY <2>2, <2>4 DEF IsMessage, IsAcked, PeerEvents, GeneratedEvents
  <2> QED
    BY <1>2, <2>3, <2>4, <2>5, NothingStrays DEF Generated, Calm
<1>9. CASE NLRead
  <2>1. /\ nl_pc = "read" /\ nl_pc' \in {"top", "messages", "closed"}
        /\ nl_pc' = "messages" => read_half' # NoConn
        /\ UNCHANGED <<events, tcp_channel, write_half, state, opened, condemned,
                       el_pc>>
    BY <1>9 DEF NLRead
  <2>2. Len(batch') <= 1
    <3>1. \A messages : Len(Extracted(messages)) <= 1
      BY DEF Extracted
    <3> QED
      BY <1>2, <1>9, <3>1 DEF NLRead, Generated
  <2> QED
    BY <2>1, <2>2, NothingQueued DEF Calm, LockFree
<1>10. CASE NLClosed
  <2>1. /\ ClosedEvents \in Seq(QueuedEvent)
        /\ \A k \in 1..Len(ClosedEvents) :
             ClosedEvents[k].type \in
               {"TcpConnectionFails", "AutomaticStartWithPassiveTcpEstablishment"}
    BY EventsQueued DEF ClosedEvents, GeneratedEvents, TimerEvents, Plain
  <2>2. /\ LockFree /\ nl_pc = "closed" /\ Generate(ClosedEvents)
        /\ \/ nl_pc' = "dead" /\ tcp_channel' = "closed"
           \/ nl_pc' = "top" /\ tcp_channel' = tcp_channel
        /\ UNCHANGED <<write_half, batch, state, opened, condemned, el_pc>>
    BY <1>10 DEF NLClosed, NextOrDead
  <2>3. PICK more \in Seq(QueuedEvent) :
          /\ events' = events \o more
          /\ \A k \in 1..Len(more) :
               k \in 1..Len(ClosedEvents) /\ more[k] = ClosedEvents[k]
    BY <2>1, <2>2, GenerateAppends
  <2>4. \A k \in 1..Len(more) : /\ more[k].type \in GeneratedEvents
                                /\ ~IsMessage(more[k]) /\ ~IsAcked(more[k])
    BY <2>1, <2>3 DEF IsMessage, IsAcked, PeerEvents, GeneratedEvents
  <2> QED
    BY <1>2, <2>2, <2>3, <2>4, NothingStrays DEF Generated, Calm
<1>11. CASE NLMessages
  <2> DEFINE evs == [i \in 1..Len(batch) |-> Received(batch[i], read_half)]
  <2>1. /\ LockFree /\ nl_pc = "messages" /\ Generate(evs) /\ batch' = <<>>
        /\ \/ nl_pc' = "dead" /\ tcp_channel' = "closed"
           \/ nl_pc' = "top" /\ tcp_channel' = tcp_channel
        /\ UNCHANGED <<write_half, state, opened, condemned, el_pc>>
    BY <1>11 DEF NLMessages, NextOrDead
  <2>2. /\ evs \in Seq(QueuedEvent) /\ Len(evs) <= 1
        /\ \A k \in 1..Len(evs) :
             evs[k].conn = read_half /\ evs[k].type \in PeerEvents
    <3>1. batch \in Seq(PeerMessages) /\ Len(batch) <= 1 /\ read_half \in Connection
      BY <1>2 DEF QueueInv, QueuesTypeOK, Generated
    <3>2. \A m \in PeerMessages :
            /\ Received(m, read_half) \in QueuedEvent
            /\ Received(m, read_half).conn = read_half
            /\ Received(m, read_half).type \in PeerEvents
      BY <3>1, EventsQueued, SessionConstants DEF Received
    <3> QED
      BY <3>1, <3>2
  <2> HIDE DEF evs
  <2>3. PICK more \in Seq(QueuedEvent) :
          /\ events' = events \o more /\ Len(more) <= Len(evs)
          /\ \A k \in 1..Len(more) : k \in 1..Len(evs) /\ more[k] = evs[k]
    BY <2>1, <2>2, GenerateAppends
  <2>4. \A k \in 1..Len(more) :
          /\ more[k].conn = read_half /\ more[k].type \in GeneratedEvents
          /\ ~IsAcked(more[k])
    BY <2>2, <2>3 DEF IsAcked, PeerEvents, GeneratedEvents
  <2>12. Len(more) \in 0..1
    <3>1. Len(more) \in Nat
      OBVIOUS
    <3>2. Len(evs) \in Nat
      BY <2>2
    <3>3. Len(evs) <= 1
      BY <2>2
    <3>4. Len(more) <= Len(evs)
      BY <2>3
    <3>5. \A x, y \in Nat : x <= y /\ y <= 1 => x \in 0..1
      OBVIOUS
    <3> QED
      BY <3>1, <3>2, <3>3, <3>4, <3>5
  <2>5. read_half # NoConn /\ write_half = read_half
    BY <1>2, <2>1 DEF Generated, HalvesInv, HalvesAgree
  <2>6. /\ Len(events') = Len(events) + Len(more) /\ Len(more) \in 0..1
        /\ \A k \in 1..Len(events) : events'[k] = events[k]
        /\ \A k \in 1..Len(events') : k \notin 1..Len(events) =>
             /\ events'[k].conn = read_half
             /\ events'[k].type \in GeneratedEvents /\ ~IsAcked(events'[k])
    <3>1. \A k \in 1..Len(events') : k \notin 1..Len(events) =>
            k - Len(events) \in 1..Len(more) /\ events'[k] = more[k - Len(events)]
      BY <1>1, <2>3
    <3>2. Len(events') = Len(events) + Len(more) /\ Len(more) \in 0..1
      <4>1. Len(events \o more) = Len(events) + Len(more)
        BY <1>1
      <4> QED
        BY <2>3, <2>12, <4>1
    <3> QED
      BY <1>1, <2>3, <2>4, <3>1, <3>2
  <2>7. Generated'
    BY <1>2, <2>1, <2>5, <2>6 DEF Generated
  <2>8. \A a \in 0..Len(events) :
          /\ FirstMayStray(events, read_half, a) =>
               FirstMayStray(events', read_half, a)
          /\ NoneBehind(events, a) => AtMostOne(events', a)
    <3>1. /\ events' = events \o more
          /\ Len(more) <= 1
          /\ \A k \in 1..Len(more) : more[k].conn = read_half
      <4>1. \A x \in 0..1 : x <= 1
        OBVIOUS
      <4> QED
        BY <2>3, <2>4, <2>12, <4>1
    <3> QED
      BY <1>1, <3>1, QueueMessages
  <2>9. BehindAcked'
    <3> SUFFICES ASSUME NEW a \in 1..Len(events'), IsAcked(events'[a])
                 PROVE  /\ Calm' => FirstMayStray(events', read_half, a)
                        /\ LockFree' /\ tcp_channel' = "full" =>
                             nl_pc' = "top" /\ AtMostOne(events', a)
                        /\ nl_pc' # "clear"
      BY <2>1, <2>5 DEF BehindAcked
    <3>1. a \in 1..Len(events) /\ IsAcked(events[a]) /\ a \in 0..Len(events)
      BY <1>1, <2>6
    <3>2. /\ Calm => FirstMayStray(events, read_half, a)
          /\ tcp_channel = "full" => NoneBehind(events, a)
      BY <1>2, <2>1, <2>5, <3>1 DEF BehindAcked
    <3>3. AtMostOne(events', a) => FirstMayStray(events', read_half, a)
      BY DEF AtMostOne, FirstMayStray
    <3> QED
      BY <2>1, <2>8, <3>1, <3>2, <3>3 DEF Calm
  <2>10. InUncondemned'
    <3> SUFFICES ASSUME InSession, ~condemned
                 PROVE  /\ FirstMayStray(events', opened, 0)
                        /\ state # "OpenSent" =>
                             \A k \in 1..Len(events') :
                               IsMessage(events'[k]) => events'[k].conn = opened
      BY <2>1 DEF InUncondemned, InSession
    <3>1. read_half = opened
      BY <2>1 DEF SessionOnOneConnection
    <3>2. 0 \in 0..Len(events)
      BY <1>1
    <3> QED
      BY <1>2, <2>6, <2>8, <3>1, <3>2 DEF InUncondemned
  <2> QED
    BY <2>7, <2>9, <2>10 DEF StrayInv
<1> QED
  BY <1>5, <1>6, <1>7, <1>8, <1>9, <1>10, <1>11 DEF NeighborLoop

\* How a session goes on: it begins uncondemned with the Open that answers a
\* TcpCRAcked, leaves OpenSent with an OpenMsg only, and is established by a
\* KeepAliveMsg.
LEMMA SessionSteps ==
  ASSUME NEW e, NEW w, Handle(e, w), e.type \in GeneratedEvents
  PROVE  /\ ~InSession /\ InSession' /\ out' = "Open" =>
              IsAcked(e) /\ state' = "OpenSent"
         /\ InSession /\ InSession' /\ state' # "OpenSent" =>
              state # "OpenSent" \/ e.type = "OpenMsg"
         /\ state = "OpenConfirm" /\ state' = "Established" =>
              e.type = "KeepAliveMsg"
<1> USE DEF Goto, GoIdle, Ignore, Nothing, Drop, InSession, IsAcked
<1>1. e.type \in TcpEstablishedEvents => e.type = "TcpCRAcked"
  BY DEF TcpEstablishedEvents, GeneratedEvents, PeerEvents, TimerEvents
<1>2. CASE state = "Idle" /\ HandleIdle(e)
  BY <1>2 DEF HandleIdle, IdleStart, IdleHoldTimerExpires, IdleIgnores
<1>3. CASE state = "Connect" /\ HandleConnect(e, w)
  BY <1>1, <1>3
  DEF HandleConnect, SendOpen, DelayOpenExpires, OpenBeforeDelay, VersionError,
      ConnectRetryExpires, ConnectTcpFails, ConnectTeardown, ConnectIgnores
<1>4. CASE state = "Active" /\ HandleActive(e, w)
  BY <1>1, <1>4
  DEF HandleActive, SendOpen, DelayOpenExpires, OpenBeforeDelay, VersionError,
      ActiveRetry, ActiveTcpFails, ActiveTeardown, ActiveIgnores
<1>5. CASE state = "OpenSent" /\ HandleOpenSent(e, w)
  BY <1>5 DEF HandleOpenSent, OpenSentOpenMsg, OpenSentTcpFails,
              OpenSentTeardown, OpenSentIgnores
<1>6. CASE state = "OpenConfirm" /\ HandleOpenConfirm(e)
  BY <1>6 DEF HandleOpenConfirm, OpenConfirmKeepAliveMsg,
              OpenConfirmKeepaliveExpires, OpenConfirmTeardown,
              OpenConfirmIgnores
<1>7. CASE state = "Established" /\ HandleEstablished(e, w)
  BY <1>7 DEF HandleEstablished, EstablishedTeardown,
              EstablishedKeepaliveExpires, EstablishedKeepAliveMsg,
              EstablishedUpdateMsg, EstablishedSendUpdateMsg,
              EstablishedIgnores
<1> QED
  BY <1>2, <1>3, <1>4, <1>5, <1>6, <1>7 DEF Handle

\* What is behind the event that is handled, and what it does to the session.
LEMMA HandlerStrays ==
  ASSUME QueueInv, StrayInv, ELHandle
  PROVE  StrayInv'
<1> DEFINE e == Head(events)
<1>1. PICK w \in WriteOutcomes : Handle(e, w)
  BY DEF ELHandle
<1>2. /\ events \in Seq(QueuedEvent) /\ events # <<>> /\ events' = Tail(events)
      /\ e = events[1] /\ 1 \in 1..Len(events) /\ Len(events) \in Nat
      /\ ~LockFree /\ ~LockFree'
      /\ UNCHANGED <<write_half, read_half, batch, nl_pc>>
  BY DEF ELHandle, QueueInv, QueuesTypeOK, LockFree
<1>3. Generated /\ BehindAcked /\ InUncondemned
  BY DEF StrayInv
<1>4. e.type \in GeneratedEvents
  BY <1>2, <1>3 DEF Generated
<1> HIDE DEF e
<1>5. /\ ~InSession /\ InSession' /\ out' = "Open" =>
           IsAcked(e) /\ state' = "OpenSent"
      /\ InSession /\ InSession' /\ state' # "OpenSent" =>
           state # "OpenSent" \/ e.type = "OpenMsg"
  BY <1>1, <1>4, SessionSteps
<1>6. /\ Len(events') = Len(events) - 1
      /\ \A k \in 1..Len(events') :
           k + 1 \in 1..Len(events) /\ events'[k] = events[k + 1]
      /\ \A a \in 0..Len(events') : \A c :
           FirstMayStray(events, c, a + 1) => FirstMayStray(events', c, a)
      /\ \A c : FirstMayStray(events, c, 0) => FirstMayStray(events', c, 0)
  BY <1>2, TakeFirst
<1>7. Calm' => Calm
  BY <1>2 DEF ELHandle, SignalDrop, Calm
<1>8. Generated'
  BY <1>2, <1>3, <1>6 DEF Generated
<1>9. BehindAcked'
  <2> SUFFICES ASSUME NEW a \in 1..Len(events'), IsAcked(events'[a]), Calm'
               PROVE  FirstMayStray(events', write_half, a)
    BY <1>2 DEF BehindAcked
  <2>1. a + 1 \in 1..Len(events) /\ IsAcked(events[a + 1]) /\ Calm
    BY <1>6, <1>7
  <2>2. FirstMayStray(events, write_half, a + 1)
    BY <1>3, <2>1 DEF BehindAcked
  <2>3. a \in 0..Len(events')
    OBVIOUS
  <2> QED
    BY <1>6, <2>2, <2>3
<1>10. InUncondemned'
  <2> SUFFICES ASSUME InSession', ~condemned'
               PROVE  /\ FirstMayStray(events', opened', 0)
                      /\ state' # "OpenSent" =>
                           \A k \in 1..Len(events') :
                             IsMessage(events'[k]) => events'[k].conn = opened'
    BY DEF InUncondemned
  <2>1. CASE ~InSession
    <3>1. /\ out' = "Open" /\ opened' = write_half
          /\ tcp_channel # "full" /\ nl_pc # "clear"
      BY <2>1 DEF ELHandle, NoteAttempt
    <3>2. IsAcked(events[1]) /\ state' = "OpenSent"
      BY <1>2, <1>5, <2>1, <3>1
    <3>3. FirstMayStray(events, write_half, 1)
      BY <1>2, <1>3, <3>1, <3>2 DEF BehindAcked, Calm
    <3>4. 0 \in 0..Len(events') /\ 0 + 1 = 1
      BY <1>2, <1>6
    <3>5. FirstMayStray(events', write_half, 0)
      BY <1>6, <3>3, <3>4
    <3> QED
      BY <3>1, <3>2, <3>5
  <2>2. CASE InSession
    <3>1. opened' = opened /\ ~condemned
      <4>1. out' # "Open"
        BY <1>1, <2>2, SessionHandlers
      <4> QED
        BY <2>2, <4>1 DEF ELHandle, NoteAttempt
    <3>2. /\ FirstMayStray(events, opened, 0)
          /\ state # "OpenSent" =>
               \A k \in 1..Len(events) :
                 IsMessage(events[k]) => events[k].conn = opened
      BY <1>3, <2>2, <3>1 DEF InUncondemned
    <3>3. ASSUME state' # "OpenSent", NEW k \in 1..Len(events'),
                 IsMessage(events'[k])
          PROVE  events'[k].conn = opened
      <4>1. /\ k + 1 \in 1..Len(events) /\ events'[k] = events[k + 1]
            /\ IsMessage(events[k + 1])
        BY <1>6, <3>3
      <4>2. CASE state # "OpenSent"
        BY <3>2, <4>1, <4>2
      <4>3. CASE e.type = "OpenMsg"
        <5>1. IsMessage(events[1])
          BY <1>2, <4>3 DEF IsMessage, PeerEvents
        <5>2. 1 < k + 1 /\ 1 \in (0 + 1)..Len(events)
              /\ k + 1 \in (0 + 1)..Len(events)
          BY <1>2, <4>1
        <5> QED
          BY <3>2, <4>1, <5>1, <5>2 DEF FirstMayStray
      <4> QED
        BY <1>5, <2>2, <3>3, <4>2, <4>3
    <3> QED
      BY <1>6, <3>1, <3>2, <3>3
  <2> QED
    BY <2>1, <2>2
<1> QED
  BY <1>8, <1>9, <1>10 DEF StrayInv

\* StrayInv is inductive with the invariants before it.
LEMMA StrayInvariant == Spec => []StrayInv
<1>1. Init => StrayInv
  <2> SUFFICES ASSUME Init PROVE StrayInv
    OBVIOUS
  <2>1. /\ Len(events) = 2
        /\ events[1].type = "AutomaticStartWithPassiveTcpEstablishment"
        /\ events[2].type = "TcpCRAcked"
        /\ batch = <<>> /\ nl_pc = "wait" /\ tcp_channel = "empty"
        /\ state = "Idle"
    BY DEF Init, FSMInit, Plain, OfConn
  <2>2. \A k \in 1..Len(events) :
          events[k].type \in GeneratedEvents /\ ~IsMessage(events[k])
    <3>1. \A k \in 1..Len(events) : k = 1 \/ k = 2
      BY <2>1
    <3> QED
      BY <2>1, <3>1 DEF IsMessage, PeerEvents, GeneratedEvents
  <2>3. Generated
    BY <2>1, <2>2 DEF Generated
  <2>4. BehindAcked
    <3>1. \A a \in 1..Len(events) : \A c : FirstMayStray(events, c, a)
      BY <2>1, <2>2 DEF FirstMayStray
    <3> QED
      BY <2>1, <3>1 DEF BehindAcked
  <2>5. InUncondemned
    BY <2>1 DEF InUncondemned, InSession
  <2> QED
    BY <2>3, <2>4, <2>5 DEF StrayInv
<1>2. QueueInv /\ HalvesInv /\ SessionOnOneConnection /\ StrayInv /\ [Next]_vars
        => StrayInv'
  <2> SUFFICES ASSUME QueueInv, HalvesInv, SessionOnOneConnection, StrayInv,
                      [Next]_vars
               PROVE  StrayInv'
    OBVIOUS
  <2>1. Generated
    BY DEF StrayInv
  <2>2. CASE UNCHANGED vars
    BY <2>2, <2>1, NothingQueued DEF Generated, Calm, LockFree
  <2>3. CASE NeighborLoop
    BY <2>3, LoopStrays
  <2>4. CASE ELHandle
    BY <2>4, HandlerStrays
  <2>5. CASE ELReceive \/ ELLock
    BY <2>5, <2>1, NothingQueued DEF ELReceive, ELLock, Generated, Calm, LockFree
  <2>6. CASE ELUnlock
    <3>1. /\ events = <<>> /\ events' = <<>>
          /\ nl_pc' = "messages" => nl_pc = "messages"
          /\ UNCHANGED <<state, opened, condemned, batch, read_half>>
      BY <2>6 DEF ELUnlock
    <3>2. Generated' /\ BehindAcked' /\ InUncondemned'
      BY <3>1, <2>1 DEF Generated, BehindAcked, InUncondemned, FirstMayStray
    <3> QED
      BY <3>2 DEF StrayInv
  <2>7. CASE TLCheck
    <3>1. /\ LockFree /\ Generate(DueEvents)
          /\ UNCHANGED <<state, opened, condemned, write_half, read_half, batch,
                         nl_pc, tcp_channel, el_pc>>
      BY <2>7 DEF TLCheck
    <3>2. PICK more \in Seq(QueuedEvent) :
            /\ events' = events \o more
            /\ \A k \in 1..Len(more) :
                 k \in 1..Len(DueEvents) /\ more[k] = DueEvents[k]
      BY <3>1, DueEventsQueued, GenerateAppends
    <3>3. \A k \in 1..Len(more) :
            /\ more[k].type \in GeneratedEvents
            /\ ~IsMessage(more[k]) /\ ~IsAcked(more[k])
      BY <3>2, DueEventsAreExpirations
      DEF TimerEvents, GeneratedEvents, IsMessage, IsAcked, PeerEvents
    <3> QED
      BY <2>1, <3>1, <3>2, <3>3, NothingStrays DEF Generated, Calm, LockFree
  <2>8. CASE \/ TLWake \/ TimePasses
             \/ ProcReceive \/ ProcSendRoute
             \/ PeerConnect \/ PeerClose \/ PeerSend
    <3>1. UNCHANGED <<events, state, opened, condemned, write_half, read_half,
                      batch, nl_pc, tcp_channel, el_pc>>
      BY <2>8 DEF TLWake, TimePasses, Elapse, ProcReceive, ProcSendRoute,
                  PeerConnect, PeerClose, PeerSend
    <3> QED
      BY <2>1, <3>1, NothingQueued DEF Generated, Calm, LockFree
  <2> QED
    BY <2>2, <2>3, <2>4, <2>5, <2>6, <2>7, <2>8 DEF Next, EventLoop, TimerLoop
<1> QED
  BY <1>1, <1>2, QueueInvariant, HalvesInvariant, OneConnectionPerSession, PTL
  DEF Spec

\* The KeepAlive that establishes a session came in on the connection our Open was
\* written to, whatever the connections before it left in the queue.
THEOREM NoStrayEstablishes == Spec => EstablishedByItsOwnPeer
<1>1. QueueInv /\ StrayInv /\ [Next]_vars =>
        [state = "OpenConfirm" /\ state' = "Established" /\ ~condemned =>
           Head(events).conn = opened]_vars
  <2> SUFFICES ASSUME QueueInv, StrayInv, Next, state = "OpenConfirm",
                      state' = "Established", ~condemned
               PROVE  Head(events).conn = opened
    OBVIOUS
  <2>1. ELHandle
    BY DEF Next, NeighborLoop, NLTakeDrop, NLClearWriteHalf, NLStream, NLRoutes,
           NLRead, NLMessages, NLClosed, EventLoop, ELReceive, ELLock, ELUnlock,
           TimerLoop, TLCheck, TLWake, TimePasses, Elapse, ProcReceive,
           ProcSendRoute, PeerConnect, PeerClose, PeerSend
  <2>2. PICK w \in WriteOutcomes : Handle(Head(events), w)
    BY <2>1 DEF ELHandle
  <2>3. Head(events) = events[1] /\ 1 \in 1..Len(events)
    BY <2>1 DEF ELHandle, QueueInv, QueuesTypeOK
  <2>4. events[1].type \in GeneratedEvents
    BY <2>3 DEF StrayInv, Generated
  <2>5. IsMessage(events[1])
    BY <2>2, <2>3, <2>4, SessionSteps DEF IsMessage, PeerEvents
  <2> QED
    BY <2>3, <2>5 DEF StrayInv, InUncondemned, InSession
<1> QED
  BY <1>1, QueueInvariant, StrayInvariant, PTL DEF Spec, EstablishedByItsOwnPeer

=============================================================================
