--------------------------- MODULE NeighborSession ---------------------------
(***************************************************************************)
(* One neighbor at run time: the three tasks that share its mutex          *)
(* (run_neighbor_loop, run_event_loop and run_timer_loop, neighbors.rs),   *)
(* the queues between them, the TCP connections of the peer and the        *)
(* messages of the BGP process.                                            *)
(*                                                                         *)
(* The neighbor loop and the timer loop never wait for anything while they *)
(* hold the mutex, so each of their critical sections is one step, enabled *)
(* when the event loop does not hold it.  The event loop keeps the mutex   *)
(* from its first event to its last (el_pc = "drain") and may wait inside. *)
(***************************************************************************)
EXTENDS NeighborFSM, Functions

CONSTANTS WatcherCap,     \* capacity of the event watcher channel (5)
          Conns,          \* TCP connections the peer may open
          FirstConn,      \* the one run_neighbor_loop is started with
          NoConn,         \* None
          PeerMessages,   \* what the peer may send
          MaxMessages,    \* bound: messages the peer sends
          MaxElapses,     \* bound: timer expirations
          MaxRoutes,      \* bound: paths in the process's adj_rib_in
          InboxCap        \* bound: messages waiting in the socket

\* The events some task of the program generates.
PeerEvents == {"OpenMsg", "KeepAliveMsg", "UpdateMsg", "NotifMsg"}
GeneratedEvents ==
  PeerEvents \cup TimerEvents
    \cup {"AutomaticStartWithPassiveTcpEstablishment", "TcpCRAcked",
          "TcpConnectionFails", "SendUpdateMsg"}

ASSUME SessionConstants ==
  /\ ~DelayOpen /\ PassiveTcpEstablishment   \* FSM::default()
  /\ GeneratedEvents \subseteq EventTypes
  /\ PeerMessages \subseteq [type : PeerEvents,
                             hold_time : OpenHoldTimes \cup {InitialHoldTime},
                             content : UpdateContents]
  /\ WatcherCap \in Nat \ {0}
  /\ FirstConn \in Conns /\ NoConn \notin Conns /\ "Route" \notin Conns
  /\ MaxMessages \in Nat /\ MaxElapses \in Nat /\ MaxRoutes \in Nat
  /\ InboxCap \in 0..2   \* Extracted tells apart one message and two

VARIABLES events,       \* neighbor.events
          tokens,       \* MessageWaiting tokens in the event watcher channel
          tcp_channel,  \* the DropTCP channel of capacity 1
          proc_rx,      \* proc_channel.rx: routes and TCP streams
          read_half,    \* tcp_read_stream, a local of the neighbor loop
          write_half,   \* neighbor.tcp_write_stream
          active,       \* is_tcp_stream_active, a local of the neighbor loop
          batch,        \* messages extracted from the last read
          nl_pc, el_pc, tl_pc,
          opened,       \* history: the connection our last Open was written to
          condemned,    \* history: this attempt's Open was not written, or
                        \*   while a DropTCP waited for its connection
          proc_token,   \* a token waits in the process's watcher channel
          announce,     \* routes the process has yet to send for a NeighborUp
          up_pending,   \* a NeighborUp waits in the process's channel
          peer,         \* each connection: unborn, open, closed by the peer
          inbox,        \* messages received on a connection and not read
          sent, elapsed \* counters for the bounds

attemptVars == <<opened, condemned>>
taskVars == <<events, tokens, tcp_channel, read_half, write_half, active, batch,
              nl_pc, el_pc, tl_pc, attemptVars>>
procVars == <<proc_rx, proc_token, announce, up_pending>>
peerVars == <<peer, inbox, sent>>
vars == <<fsmVars, taskVars, procVars, peerVars, elapsed>>

-----------------------------------------------------------------------------
(* Helpers                                                                 *)

Plain(type) == [type |-> type, hold_time |-> InitialHoldTime,
                content |-> "empty", conn |-> NoConn]
OfConn(type, c) == [Plain(type) EXCEPT !.conn = c]
Received(m, c) == [type |-> m.type, hold_time |-> m.hold_time,
                   content |-> m.content, conn |-> c]

LockFree == el_pc # "drain"

\* generate_event for each of evs in turn.  try_send().unwrap() panics when the
\* watcher channel is full: the calling task dies with the rest not generated.
Room == WatcherCap - tokens
Panics(evs) == Len(evs) > Room

\* Mutants: the capacity is not looked at; the event is pushed before the panic.
GenerateUnbounded(evs) ==
  events' = events \o evs /\ tokens' = tokens + Len(evs)
GeneratePushesFirst(evs) ==
  events' = events \o evs /\ tokens' = tokens + Min2(Len(evs), Room)

Generate(evs) ==
  LET done == Min2(Len(evs), Room) IN
  /\ events' = events \o SubSeq(evs, 1, done)
  /\ tokens' = tokens + done

\* extract_messages_from_rec_data and parse_packet_type on all the bytes of one
\* read: of two messages that arrived together only the first is found, and as
\* every extractor is given the whole buffer an Open with bytes behind it is
\* rejected.
Extracted(msgs) ==
  IF Len(msgs) > 1 /\ msgs[1].type = "OpenMsg" THEN <<>> ELSE <<msgs[1]>>

-----------------------------------------------------------------------------
(* run_neighbor_loop                                                       *)

\* The neighbor loop goes on at pc, or is gone when generate_event panicked:
\* its locals are dropped, among them the receiver of the DropTCP channel.
NextOrDead(evs, pc, newRead) ==
  IF Panics(evs)
  THEN nl_pc' = "dead" /\ tcp_channel' = "closed" /\ read_half' = NoConn
  ELSE nl_pc' = pc /\ UNCHANGED tcp_channel /\ read_half' = newRead

\* tcp_channel_rx.try_recv(), without the mutex.  Mutant: the signal is looked at
\* and left in the channel.
NLTakeDropPeeks ==
  /\ nl_pc = "top"
  /\ nl_pc' = IF tcp_channel = "full" THEN "clear" ELSE "stream"
  /\ read_half' = IF tcp_channel = "full" THEN NoConn ELSE read_half
  /\ UNCHANGED <<fsmVars, events, tokens, tcp_channel, write_half, active, batch,
                 el_pc, tl_pc, attemptVars, procVars, peerVars, elapsed>>

NLTakeDrop ==
  /\ nl_pc = "top"
  /\ IF tcp_channel = "full"
     THEN tcp_channel' = "empty" /\ read_half' = NoConn /\ nl_pc' = "clear"
     ELSE nl_pc' = "stream" /\ UNCHANGED <<tcp_channel, read_half>>
  /\ UNCHANGED <<fsmVars, events, tokens, write_half, active, batch, el_pc,
                 tl_pc, attemptVars, procVars, peerVars, elapsed>>

\* Mutant: only the read half is dropped.
NLClearNothing ==
  /\ nl_pc = "clear" /\ LockFree
  /\ active' = FALSE
  /\ nl_pc' = "stream"
  /\ UNCHANGED <<fsmVars, events, tokens, tcp_channel, read_half, write_half,
                 batch, el_pc, tl_pc, attemptVars, procVars, peerVars, elapsed>>

NLClearWriteHalf ==
  /\ nl_pc = "clear" /\ LockFree
  /\ write_half' = NoConn
  /\ active' = FALSE
  /\ nl_pc' = "stream"
  /\ UNCHANGED <<fsmVars, events, tokens, tcp_channel, read_half, batch, el_pc,
                 tl_pc, attemptVars, procVars, peerVars, elapsed>>

\* Mutant: a stream replaces the active one.
NLStreamWhileActive ==
  /\ nl_pc = "stream" /\ LockFree
  /\ IF proc_rx # <<>> /\ Head(proc_rx) \in Conns
     THEN LET acked == <<OfConn("TcpCRAcked", Head(proc_rx))>>
          IN /\ write_half' = Head(proc_rx)
             /\ active' = TRUE
             /\ proc_rx' = Tail(proc_rx)
             /\ Generate(acked)
             /\ NextOrDead(acked, "routes", Head(proc_rx))
     ELSE /\ nl_pc' = "routes"
          /\ UNCHANGED <<events, tokens, tcp_channel, proc_rx, read_half,
                         write_half, active>>
  /\ UNCHANGED <<fsmVars, batch, el_pc, tl_pc, attemptVars, proc_token, announce,
                 up_pending, peerVars, elapsed>>

\* reestablish_neighbor_streams, when there is no active stream.  Whatever is at
\* the head of the channel is taken: a route there is lost.
NLStream ==
  /\ nl_pc = "stream"
  /\ IF active \/ proc_rx = <<>>
     THEN /\ active \/ LockFree
          /\ nl_pc' = "routes"
          /\ UNCHANGED <<events, tokens, tcp_channel, proc_rx, read_half,
                         write_half, active>>
     ELSE /\ LockFree
          /\ proc_rx' = Tail(proc_rx)
          /\ IF Head(proc_rx) \in Conns
             THEN LET c == Head(proc_rx)
                      acked == <<OfConn("TcpCRAcked", c)>>
                  IN /\ write_half' = c
                     /\ active' = TRUE
                     /\ Generate(acked)
                     /\ NextOrDead(acked, "routes", c)
             ELSE /\ nl_pc' = "routes"
                  /\ UNCHANGED <<events, tokens, tcp_channel, read_half,
                                 write_half, active>>
  /\ UNCHANGED <<fsmVars, batch, el_pc, tl_pc, attemptVars, proc_token, announce,
                 up_pending, peerVars, elapsed>>

\* recv_routes_from_bgp_proc: a SendUpdateMsg for every route at the head of the
\* channel.  The item that ends the run of routes is taken too: a TCP stream
\* there is lost.
IsRouteRun(n) ==
  /\ \A i \in 1..n : proc_rx[i] = "Route"
  /\ n < Len(proc_rx) => proc_rx[n + 1] # "Route"

NLRoutes ==
  /\ nl_pc = "routes" /\ LockFree
  /\ \E n \in 0..Len(proc_rx) :
       LET evs == [i \in 1..n |-> Plain("SendUpdateMsg")]
           taken == IF Panics(evs) THEN Room + 1 ELSE Min2(n + 1, Len(proc_rx))
       IN /\ IsRouteRun(n)
          /\ proc_rx' = SubSeq(proc_rx, taken + 1, Len(proc_rx))
          /\ Generate(evs)
          /\ NextOrDead(evs, "read", read_half)
  /\ UNCHANGED <<fsmVars, write_half, active, batch, el_pc, tl_pc, attemptVars,
                 proc_token, announce, up_pending, peerVars, elapsed>>

\* readable().await and try_read_buf.  With no stream the loop starts over; on a
\* stream with neither bytes nor an end it waits, for nothing else.
NLRead ==
  /\ nl_pc = "read"
  /\ IF read_half = NoConn
     THEN nl_pc' = "top" /\ UNCHANGED <<batch, inbox>>
     ELSE IF inbox[read_half] # <<>>
     THEN /\ batch' = Extracted(inbox[read_half])
          /\ inbox' = [inbox EXCEPT ![read_half] = <<>>]
          /\ nl_pc' = "messages"
     ELSE /\ peer[read_half] = "closed"
          /\ nl_pc' = "closed"
          /\ UNCHANGED <<batch, inbox>>
  /\ UNCHANGED <<fsmVars, events, tokens, tcp_channel, read_half, write_half,
                 active, el_pc, tl_pc, attemptVars, procVars, peer, sent, elapsed>>

\* process_neighbor_message for each message of the read.
NLMessages ==
  /\ nl_pc = "messages" /\ LockFree
  /\ LET evs == [i \in 1..Len(batch) |-> Received(batch[i], read_half)]
     IN Generate(evs) /\ NextOrDead(evs, "top", read_half)
  /\ batch' = <<>>
  /\ UNCHANGED <<fsmVars, write_half, active, el_pc, tl_pc, attemptVars, procVars,
                 peerVars, elapsed>>

\* generate_events_for_closed_tcp_connection, after Ok(0) or a read error.
\* Mutant: an established session is not told of its closed connection.
ClosedEventsIdleOnly ==
  IF state = "Idle" /\ PassiveTcpEstablishment
  THEN <<Plain("AutomaticStartWithPassiveTcpEstablishment")>>
  ELSE <<>>

ClosedEvents ==
  IF state = "Established" THEN <<Plain("TcpConnectionFails")>>
  ELSE IF state = "Idle" /\ PassiveTcpEstablishment
  THEN <<Plain("AutomaticStartWithPassiveTcpEstablishment")>>
  ELSE <<>>

NLClosed ==
  /\ nl_pc = "closed" /\ LockFree
  /\ Generate(ClosedEvents)
  /\ NextOrDead(ClosedEvents, "top", read_half)
  /\ UNCHANGED <<fsmVars, write_half, active, batch, el_pc, tl_pc, attemptVars,
                 procVars, peerVars, elapsed>>

NeighborLoop ==
  \/ NLTakeDrop \/ NLClearWriteHalf \/ NLStream \/ NLRoutes
  \/ NLRead \/ NLMessages \/ NLClosed

-----------------------------------------------------------------------------
(* run_event_loop                                                          *)

\* watcher.recv(): one token, whatever the number of events.
ELReceive ==
  /\ el_pc = "recv" /\ tokens > 0
  /\ tokens' = tokens - 1
  /\ el_pc' = "lock"
  /\ UNCHANGED <<fsmVars, events, tcp_channel, read_half, write_half, active,
                 batch, nl_pc, tl_pc, attemptVars, procVars, peerVars, elapsed>>

ELLock ==
  /\ el_pc = "lock"
  /\ el_pc' = "drain"
  /\ UNCHANGED <<fsmVars, events, tokens, tcp_channel, read_half, write_half,
                 active, batch, nl_pc, tl_pc, attemptVars, procVars, peerVars,
                 elapsed>>

\* Mutant: one event for each token.
ELUnlockAfterOne ==
  /\ el_pc = "drain"
  /\ el_pc' = "recv"
  /\ nl_pc' = IF nl_pc = "wait" THEN "top" ELSE nl_pc
  /\ UNCHANGED <<fsmVars, events, tokens, tcp_channel, read_half, write_half,
                 active, batch, tl_pc, attemptVars, procVars, peerVars, elapsed>>

\* The queue is empty: the mutex is released.  The first drain is the one
\* run_neighbor_loop waits for before its own loop.
ELUnlock ==
  /\ el_pc = "drain" /\ events = <<>>
  /\ el_pc' = "recv"
  /\ nl_pc' = IF nl_pc = "wait" THEN "top" ELSE nl_pc
  /\ UNCHANGED <<fsmVars, events, tokens, tcp_channel, read_half, write_half,
                 active, batch, tl_pc, attemptVars, procVars, peerVars, elapsed>>

\* A write succeeds while the peer has the connection open; once the peer has
\* closed it, it may also fail.
WriteOutcomes ==
  IF write_half = NoConn THEN {"none"}
  ELSE IF peer[write_half] = "open" THEN {"ok"} ELSE {"ok", "error"}

\* send_tcp_drop_signal_to_neighbor_loop waits for room in the channel, holding
\* the mutex; when the neighbor loop is gone the error is only logged.
SignalDrop ==
  IF out' = Drop
  THEN /\ tcp_channel # "full"
       /\ tcp_channel' = IF tcp_channel = "closed" THEN "closed" ELSE "full"
  ELSE UNCHANGED tcp_channel

\* bring_up, send_route and withdraw_route wait for room for their token.
ToProcess == out' \in {"NeighborUp", "Route", "WithdrawRoute"}

SignalProcess ==
  /\ IF ToProcess THEN ~proc_token /\ proc_token' = TRUE
     ELSE UNCHANGED proc_token
  /\ up_pending' = (up_pending \/ out' = "NeighborUp")
  /\ UNCHANGED <<proc_rx, announce>>

\* The attempt this step begins or goes on with.
InSession == state \in {"OpenSent", "OpenConfirm", "Established"}

NoteAttempt ==
  /\ opened' = IF out' = "Open" THEN write_half ELSE opened
  /\ condemned' = IF InSession' /\ ~InSession
                  THEN out' # "Open" \/ tcp_channel = "full" \/ nl_pc = "clear"
                  ELSE condemned

\* handle_event for the head of the queue.  What it does before it waits for a
\* channel is hidden by the mutex, so the handler is one step, enabled when the
\* channel it sends to has room.  (The start event that IdleHoldTimerExpires
\* generates is not queued here: a passive neighbor never starts idle_hold_timer.)
ELHandle ==
  /\ el_pc = "drain" /\ events # <<>>
  /\ \E w \in WriteOutcomes : Handle(Head(events), w)
  /\ events' = Tail(events)
  /\ SignalDrop
  /\ SignalProcess
  /\ NoteAttempt
  /\ UNCHANGED <<tokens, read_half, write_half, active, batch, nl_pc, el_pc,
                 tl_pc, peerVars, elapsed>>

EventLoop == ELReceive \/ ELLock \/ ELUnlock \/ ELHandle

-----------------------------------------------------------------------------
(* run_timer_loop                                                          *)

\* The expirations check_timers_and_generate_events finds, in its order.  The
\* timers stay due, and are found again at the next check, until handled.
DueEvents ==
  LET If(t, type) == IF timers[t] = "due" THEN <<Plain(type)>> ELSE <<>>
  IN If("connect_retry", "ConnectRetryTimerExpires")
       \o If("hold", "HoldTimerExpires")
       \o If("keepalive", "KeepaliveTimerExpires")
       \o If("delay_open", "DelayOpenTimerExpires")
       \o If("idle_hold", "IdleHoldTimerExpires")

TLCheck ==
  /\ tl_pc = "check" /\ LockFree /\ DueEvents # <<>>
  /\ Generate(DueEvents)
  /\ tl_pc' = IF Panics(DueEvents) THEN "dead" ELSE "sleep"
  /\ UNCHANGED <<fsmVars, tcp_channel, read_half, write_half, active, batch,
                 nl_pc, el_pc, attemptVars, procVars, peerVars, elapsed>>

\* sleep(1000 ms).  Nothing says how far the other tasks come in that time.
TLWake ==
  /\ tl_pc = "sleep"
  /\ tl_pc' = "check"
  /\ UNCHANGED <<fsmVars, events, tokens, tcp_channel, read_half, write_half,
                 active, batch, nl_pc, el_pc, attemptVars, procVars, peerVars,
                 elapsed>>

TimerLoop == TLCheck \/ TLWake

\* Time passes for a running timer.
TimePasses ==
  /\ elapsed < MaxElapses
  /\ \E t \in TimerNames : Elapse(t)
  /\ elapsed' = elapsed + 1
  /\ UNCHANGED <<taskVars, procVars, peerVars>>

-----------------------------------------------------------------------------
(* The BGP process (run_recv_message_channel_loop, accept loop) and the    *)
(* peer, as this neighbor sees them.                                       *)

\* The receive loop drains this neighbor's channel.
ProcReceive ==
  /\ proc_token
  /\ proc_token' = FALSE
  /\ up_pending' = FALSE
  /\ announce = 0
  /\ announce' \in (IF up_pending THEN 0..MaxRoutes ELSE {0})
  /\ UNCHANGED <<fsmVars, taskVars, proc_rx, peerVars, elapsed>>

\* send_route_vec
ProcSendRoute ==
  /\ announce > 0
  /\ announce' = announce - 1
  /\ proc_rx' = Append(proc_rx, "Route")
  /\ UNCHANGED <<fsmVars, taskVars, proc_token, up_pending, peerVars, elapsed>>

\* The peer connects again once its last connection is gone; the accept loop
\* hands the stream to the running neighbor.
PeerConnect ==
  /\ \A c \in Conns : peer[c] # "open"
  /\ \E c \in Conns :
       /\ peer[c] = "unborn"
       /\ peer' = [peer EXCEPT ![c] = "open"]
       /\ proc_rx' = Append(proc_rx, c)
  /\ UNCHANGED <<fsmVars, taskVars, proc_token, announce, up_pending, inbox,
                 sent, elapsed>>

PeerClose ==
  /\ \E c \in Conns : peer[c] = "open" /\ peer' = [peer EXCEPT ![c] = "closed"]
  /\ UNCHANGED <<fsmVars, taskVars, procVars, inbox, sent, elapsed>>

PeerSend ==
  /\ sent < MaxMessages
  /\ sent' = sent + 1
  /\ \E c \in Conns, m \in PeerMessages :
       /\ peer[c] = "open"
       /\ Len(inbox[c]) < InboxCap
       /\ inbox' = [inbox EXCEPT ![c] = Append(@, m)]
  /\ UNCHANGED <<fsmVars, taskVars, procVars, peer, elapsed>>

-----------------------------------------------------------------------------

\* run_process_loop has queued AutomaticStartWithPassiveTcpEstablishment (no
\* token: the channel did not exist yet) and TcpCRAcked, and run_neighbor_loop
\* has split the stream and started the other two tasks.
Init ==
  /\ FSMInit
  /\ events = <<Plain("AutomaticStartWithPassiveTcpEstablishment"),
                OfConn("TcpCRAcked", FirstConn)>>
  /\ tokens = 1
  /\ tcp_channel = "empty"
  /\ proc_rx = <<>>
  /\ read_half = FirstConn /\ write_half = FirstConn
  /\ active = TRUE
  /\ batch = <<>>
  /\ nl_pc = "wait" /\ el_pc = "lock" /\ tl_pc = "check"
  /\ opened = NoConn /\ condemned = FALSE
  /\ proc_token = FALSE /\ announce = 0 /\ up_pending = FALSE
  /\ peer = [c \in Conns |-> IF c = FirstConn THEN "open" ELSE "unborn"]
  /\ inbox = [c \in Conns |-> <<>>]
  /\ sent = 0 /\ elapsed = 0

Next ==
  \/ NeighborLoop
  \/ EventLoop
  \/ TimerLoop
  \/ TimePasses
  \/ ProcReceive \/ ProcSendRoute
  \/ PeerConnect \/ PeerClose \/ PeerSend

Spec == Init /\ [][Next]_vars

\* The event loop runs when it can (WF).  The mutex is tokio's, which queues its
\* waiters: the neighbor loop asks for it again and again and gets it (SF).  Nothing
\* is assumed of the timer loop, of time, of the peer, nor of the BGP process, whose
\* receive loop can wait for ever for room in the channel of a neighbor
\* (ProcessRib!TableSendStuck).
Fairness ==
  /\ WF_vars(EventLoop)
  /\ SF_vars(NeighborLoop)

FairSpec == Spec /\ Fairness

-----------------------------------------------------------------------------
(* Properties                                                              *)

QueuedEvent == [type : EventTypes,
                hold_time : OpenHoldTimes \cup {InitialHoldTime},
                content : UpdateContents, conn : Conns \cup {NoConn}]
Connection == Conns \cup {NoConn}

SessionTypeOK ==
  /\ FSMTypeOK
  /\ events \in Seq(QueuedEvent)
  /\ tokens \in 0..WatcherCap
  /\ tcp_channel \in {"empty", "full", "closed"}
  /\ proc_rx \in Seq(Conns \cup {"Route"})
  /\ read_half \in Connection /\ write_half \in Connection
  /\ active \in BOOLEAN
  /\ batch \in Seq(PeerMessages)
  /\ nl_pc \in {"wait", "top", "clear", "stream", "routes", "read", "messages",
                "closed", "dead"}
  /\ el_pc \in {"recv", "lock", "drain"}
  /\ tl_pc \in {"check", "sleep", "dead"}
  /\ opened \in Connection /\ condemned \in BOOLEAN
  /\ proc_token \in BOOLEAN /\ up_pending \in BOOLEAN
  /\ announce \in 0..MaxRoutes
  /\ peer \in [Conns -> {"unborn", "open", "closed"}]
  /\ inbox \in [Conns -> Seq(PeerMessages)]
  /\ sent \in 0..MaxMessages /\ elapsed \in 0..MaxElapses

\* No lost wakeup: the event loop never waits for a token while an event is
\* queued and no token is left, although one token wakes it for any number of
\* events and the tokens and the queue are taken from at different times.
NoLostWakeup == events # <<>> /\ el_pc = "recv" => tokens > 0

\* The event queue, a VecDeque without a bound of its own, is bounded by the
\* watcher channel: an event in it is paid for by a token, except those of the
\* token being served.  (generate_event pushes after try_send, so a panic leaves
\* no event without a token.)
EventsBounded ==
  Len(events) <= tokens + (IF el_pc = "recv" THEN 0 ELSE 1)

\* The two halves of the TCP stream, one a local of the neighbor loop and the
\* other in the shared Neighbor, belong to the same connection whenever the loop
\* is not between taking a DropTCP and clearing the write half, and
\* is_tcp_stream_active says whether there is one.
HalvesAgree ==
  nl_pc \notin {"clear", "dead"} =>
    /\ read_half = write_half
    /\ active <=> read_half # NoConn

\* A session is on one connection, from OpenSent on: the one our Open went out on
\* is the one written to and read from, and no DropTCP for an older one is pending,
\* whatever connections the peer opened and closed meanwhile.  Not so when the
\* handler that dropped a connection and the one that sends the Open ran before the
\* neighbor loop took the DropTCP: the new connection is dropped with the session
\* on it.
SessionOnOneConnection ==
  InSession /\ ~condemned =>
    /\ write_half = opened /\ opened # NoConn
    /\ active /\ tcp_channel # "full" /\ nl_pc # "clear"
    /\ nl_pc = "dead" \/ read_half = opened

\* The KeepAlive that establishes a session came in on the connection our Open
\* was written to, not on an earlier one of the same peer.
EstablishedByItsOwnPeer ==
  [][state = "OpenConfirm" /\ state' = "Established" /\ ~condemned =>
       Head(events).conn = opened]_vars

\* The handler of the first event waits for room in the channel that one of outs
\* goes to, with the neighbor's mutex.
HandlerWaits(outs) ==
  /\ el_pc = "drain" /\ events # <<>>
  /\ ~ENABLED ELHandle
  /\ ENABLED (\E w \in WriteOutcomes : Handle(Head(events), w) /\ out' \in outs)

\* The event loop waits for room in the DropTCP channel while the neighbor loop,
\* which makes the room, waits for the mutex the event loop holds.
CircularWait ==
  /\ tcp_channel = "full" /\ HandlerWaits({Drop})
  /\ \/ nl_pc \in {"clear", "routes", "messages", "closed"}
     \/ nl_pc = "stream" /\ ~active

\* The event loop waits to give the BGP process its token, until the process takes
\* the one before it.
WaitsForProcess ==
  proc_token /\ HandlerWaits({"NeighborUp", "Route", "WithdrawRoute"})

\* What is queued is handled: the event loop drains the queue again and again.
\* Two waits can stop it, each with the mutex held: the circular one (see
\* NoCircularWait), and the one for a BGP process that takes no token any more (as
\* in ProcessRib!TableSendStuck).  Nothing else does, whatever the timer loop, the
\* neighbor loop and the peer do, or stop doing.
EventsHandled ==
  events # <<>> ~> events = <<>> \/ CircularWait \/ []WaitsForProcess

\* A session whose connection the peer has closed is given up, unless the neighbor
\* loop died before, the session lost its connection to a DropTCP (condemned), or
\* the event loop waits for the process for ever.
ClosedSessionEnds ==
  \A c \in Conns :
    (state = "Established" /\ ~condemned /\ opened = c /\ peer[c] = "closed") ~>
      (state # "Established" \/ nl_pc = "dead" \/ []WaitsForProcess)

\* A DropTCP is taken, and the connection closed, unless the neighbor loop waits
\* in readable() for a peer that leaves the connection open and sends nothing (the
\* session is over, the connection is not, and the peer is not told), or for the
\* mutex of an event loop that itself waits for ever.
WaitsForSilentPeer ==
  /\ nl_pc = "read" /\ read_half # NoConn
  /\ peer[read_half] = "open" /\ inbox[read_half] = <<>>

DropIsTaken ==
  tcp_channel = "full" ~>
    \/ tcp_channel # "full" \/ WaitsForSilentPeer
    \/ CircularWait \/ []WaitsForProcess

(***************************************************************************)
(* What the code or the README says and the program does not do.           *)
(***************************************************************************)

\* try_send(..).unwrap() in generate_event: the watcher channel always has room.
\* Violated: each round of the neighbor loop on a closed connection generates an
\* event, and nothing makes it wait for the event loop.
NoTaskDies == nl_pc # "dead" /\ tl_pc # "dead"

\* A neighbor that goes down resumes ("Resuming of neighbors after they go
\* down"): its tasks are not left waiting for each other for ever.  Violated: two
\* DropTCP in one drain, the neighbor loop at a lock.
NoCircularWait == ~CircularWait

\* "Resuming of neighbors after they go down": a new connection handed to the
\* neighbor, and which the peer leaves open, gets our Open.  Violated: the FSM
\* ignores TcpCRAcked in Idle, where every teardown leaves it, and nothing starts
\* it again; also, NLRoutes may take the stream from the channel and drop it.
ReconnectionResumes ==
  \A c \in Conns :
    ((write_half = c \/ c \in Range(proc_rx)) /\ peer[c] = "open") ~>
      (opened = c \/ peer[c] # "open" \/ ~NoTaskDies)

=============================================================================
