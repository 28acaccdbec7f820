----------------------------- MODULE ProcessRib -----------------------------
(***************************************************************************)
(* The BGP process (process.rs): the accept loop of run_process_loop, the  *)
(* receive loop run_recv_message_channel_loop with its routing tables, and *)
(* the channels between the process and the neighbors (channels.rs).       *)
(*                                                                         *)
(* A neighbor is what the process sees of NeighborSession: an event loop   *)
(* that sends a message and then its token, holding the neighbor's mutex,  *)
(* and a neighbor loop that takes what the process sent.  Routes are       *)
(* reduced to their prefix and the neighbor they came from.                *)
(***************************************************************************)
EXTENDS Naturals, Sequences, Functions

CONSTANTS Configured,    \* the addresses of configured_neighbors, in order
          Strangers,     \* other addresses that connect
          Prefixes, Networks,  \* the NLRIs, and configured_networks
          Local,         \* the origin of a configured network
          Nobody,        \* no neighbor is being visited
          ChannelCap,    \* capacity of a neighbor's channels (65535)
          MaxSends,      \* bound: messages a neighbor sends
          MaxAccepts     \* bound: connections accepted or refused

Neighbors == Range(Configured)

ASSUME ProcessConstants ==
  /\ Configured \in Seq(Neighbors) /\ Configured # <<>>
  /\ Strangers \cap Neighbors = {}
  /\ Networks \subseteq Prefixes
  /\ Local \notin Neighbors /\ Nobody \notin Neighbors
  /\ ChannelCap \in Nat \ {0} /\ MaxSends \in Nat /\ MaxAccepts \in Nat

\* ChannelMessage, from a neighbor to the process and back.
Up == [type |-> "NeighborUp"]
RouteOf(p) == [type |-> "Route", nlri |-> p]
WithdrawOf(p) == [type |-> "WithdrawRoute", nlri |-> p]
ToProcess == {Up} \cup {RouteOf(p) : p \in Prefixes}
                  \cup {WithdrawOf(p) : p \in Prefixes}
Stream == [type |-> "TcpEstablished"]
ToNeighbor == {Stream} \cup {RouteOf(p) : p \in Prefixes}

VARIABLES adj_rib_in,   \* adj_rib_in: for each prefix the origins of its paths
          local_rib,    \* the prefixes of local_rib
          to_proc, to_neighbor,  \* the two channels of each neighbor
          token,        \* a MessageWaiting in the watcher channel (capacity 1)
          calc,         \* routes_need_best_path_calc
          recv_pc, visiting, unvisited,  \* the receive loop
          sending,      \* paths left to send to `visiting` for its NeighborUp
          waiting,      \* all_neighbors: those that never connected
          up, sender,   \* each neighbor: Established; its event loop
          rib_in, rib_out,  \* each neighbor: its own adj_rib_in, adj_rib_out
          applied,      \* history: the messages handled, with their senders
          sends, accepts  \* counters for the bounds

ribVars == <<adj_rib_in, local_rib, calc, applied>>
recvVars == <<recv_pc, visiting, unvisited, sending>>
acceptVars == <<waiting, accepts>>
sessionVars == <<up, sender, rib_in, sends>>
vars == <<ribVars, to_proc, to_neighbor, token, recvVars, acceptVars,
          sessionVars, rib_out>>

Running(n) == n \notin waiting
Nothing == [p \in Prefixes |-> 0]

-----------------------------------------------------------------------------
(* The neighbors                                                           *)

\* Mutant: try_send, a message that finds the channel full is lost.
SendMessageOrLose(n, m) ==
  /\ Running(n) /\ sender[n] = "idle"
  /\ to_proc' = IF Len(to_proc[n]) < ChannelCap
                THEN [to_proc EXCEPT ![n] = Append(@, m)] ELSE to_proc
  /\ sender' = [sender EXCEPT ![n] = "token"]
  /\ sends[n] < MaxSends
  /\ sends' = [sends EXCEPT ![n] = @ + 1]
  /\ UNCHANGED <<ribVars, to_neighbor, token, recvVars, acceptVars, rib_out>>

\* The first half of bring_up, send_route and withdraw_route: the message.
SendMessage(n, m) ==
  /\ Running(n) /\ sender[n] = "idle"
  /\ Len(to_proc[n]) < ChannelCap
  /\ to_proc' = [to_proc EXCEPT ![n] = Append(@, m)]
  /\ sender' = [sender EXCEPT ![n] = "token"]
  /\ sends[n] < MaxSends
  /\ sends' = [sends EXCEPT ![n] = @ + 1]
  /\ UNCHANGED <<ribVars, to_neighbor, token, recvVars, acceptVars, rib_out>>

SessionUp(n) ==
  /\ ~up[n] /\ up' = [up EXCEPT ![n] = TRUE]
  /\ SendMessage(n, Up)
  /\ UNCHANGED rib_in

\* process_routes_from_update_message, one NLRI at a time.
Announce(n, p) ==
  /\ up[n] /\ rib_in' = [rib_in EXCEPT ![n] = @ \cup {p}]
  /\ SendMessage(n, RouteOf(p))
  /\ UNCHANGED up

\* withdraw_routes_from_message
Withdraw(n, p) ==
  /\ up[n] /\ rib_in' = [rib_in EXCEPT ![n] = @ \ {p}]
  /\ SendMessage(n, WithdrawOf(p))
  /\ UNCHANGED up

\* The second half: the token, for which it waits while the channel is full.
SendToken(n) ==
  /\ sender[n] = "token" /\ ~token
  /\ token' = TRUE
  /\ sender' = [sender EXCEPT ![n] = "idle"]
  /\ UNCHANGED <<ribVars, to_proc, to_neighbor, recvVars, acceptVars, up,
                 rib_in, sends, rib_out>>

\* Leaving Established tells the process nothing (take_down is commented out).
SessionDown(n) ==
  /\ up[n] /\ sender[n] = "idle"
  /\ up' = [up EXCEPT ![n] = FALSE]
  /\ UNCHANGED <<ribVars, to_proc, to_neighbor, token, recvVars, acceptVars,
                 sender, rib_in, sends, rib_out>>

\* The neighbor loop takes the next item, with the mutex.  A route is put in
\* adj_rib_out, unless the loop was looking for a stream (NLStream).
TakeItem(n) ==
  /\ Running(n) /\ sender[n] = "idle"
  /\ to_neighbor[n] # <<>>
  /\ to_neighbor' = [to_neighbor EXCEPT ![n] = Tail(@)]
  /\ LET item == Head(to_neighbor[n]) IN
     \/ rib_out' = rib_out
     \/ /\ item.type = "Route"
        /\ rib_out' = [rib_out EXCEPT ![n] = @ \cup {item.nlri}]
  /\ UNCHANGED <<ribVars, to_proc, token, recvVars, acceptVars, sessionVars>>

Neighbor(n) ==
  \/ SessionUp(n) \/ SessionDown(n) \/ SendToken(n) \/ TakeItem(n)
  \/ \E p \in Prefixes : Announce(n, p) \/ Withdraw(n, p)

-----------------------------------------------------------------------------
(* run_recv_message_channel_loop                                           *)

\* The top of the loop: the best path of every changed prefix is computed and
\* the result goes nowhere (see BestPath).
CalcBestPaths ==
  /\ recv_pc = "calc"
  /\ calc' = {}
  /\ recv_pc' = "recv"
  /\ UNCHANGED <<adj_rib_in, local_rib, applied, to_proc, to_neighbor, token,
                 visiting, unvisited, sending, acceptVars, sessionVars,
                 rib_out>>

\* Mutant: the token is looked at and not taken.
WakePeeks ==
  /\ recv_pc = "recv" /\ token
  /\ recv_pc' = "visit"
  /\ unvisited' = Neighbors
  /\ UNCHANGED <<ribVars, to_proc, to_neighbor, token, visiting, sending,
                 acceptVars, sessionVars, rib_out>>

\* watcher.recv() and the lock of all_neighbors_channels.
Wake ==
  /\ recv_pc = "recv" /\ token
  /\ token' = FALSE
  /\ recv_pc' = "visit"
  /\ unvisited' = Neighbors
  /\ UNCHANGED <<ribVars, to_proc, to_neighbor, visiting, sending, acceptVars,
                 sessionVars, rib_out>>

Visit(n) ==
  /\ recv_pc = "visit" /\ visiting = Nobody /\ n \in unvisited
  /\ visiting' = n
  /\ unvisited' = unvisited \ {n}
  /\ UNCHANGED <<ribVars, to_proc, to_neighbor, token, recv_pc, sending,
                 acceptVars, sessionVars, rib_out>>

\* Mutant: the last message is taken, not the first.
AppliedLast(n, m) ==
  /\ visiting = n /\ sending = Nothing
  /\ to_proc[n] # <<>> /\ m = to_proc[n][Len(to_proc[n])]
  /\ to_proc' = [to_proc EXCEPT ![n] = SubSeq(@, 1, Len(@) - 1)]
  /\ applied' = Append(applied, <<n, m>>)
  /\ UNCHANGED <<to_neighbor, token, recv_pc, visiting, unvisited, acceptVars,
                 sessionVars, rib_out>>

\* try_recv() of a message: applied in one step, except that a NeighborUp sends.
Applied(n, m) ==
  /\ visiting = n /\ sending = Nothing
  /\ to_proc[n] # <<>> /\ m = Head(to_proc[n])
  /\ to_proc' = [to_proc EXCEPT ![n] = Tail(@)]
  /\ applied' = Append(applied, <<n, m>>)
  /\ UNCHANGED <<to_neighbor, token, recv_pc, visiting, unvisited, acceptVars,
                 sessionVars, rib_out>>

\* A path is added to those of its prefix, nothing is replaced.
RecvRoute(n) ==
  \E p \in Prefixes :
    /\ Applied(n, RouteOf(p))
    /\ adj_rib_in' = [adj_rib_in EXCEPT ![p] = Append(@, n)]
    /\ calc' = calc \cup {p}
    /\ UNCHANGED <<local_rib, sending>>

\* Only local_rib is touched.
RecvWithdraw(n) ==
  \E p \in Prefixes :
    /\ Applied(n, WithdrawOf(p))
    /\ local_rib' = local_rib \ {p}
    /\ calc' = calc \cup {p}
    /\ UNCHANGED <<adj_rib_in, sending>>

\* Every path of adj_rib_in is sent, the neighbor's own included.
RecvUp(n) ==
  /\ Applied(n, Up)
  /\ sending' = [p \in Prefixes |-> Len(adj_rib_in[p])]
  /\ UNCHANGED <<adj_rib_in, local_rib, calc>>

\* send_route_vec: waits while the neighbor's channel is full, with the mutexes
\* of the process and of all_neighbors_channels.
SendPath(n, p) ==
  /\ visiting = n /\ sending[p] > 0
  /\ Len(to_neighbor[n]) < ChannelCap
  /\ to_neighbor' = [to_neighbor EXCEPT ![n] = Append(@, RouteOf(p))]
  /\ sending' = [sending EXCEPT ![p] = @ - 1]
  /\ UNCHANGED <<ribVars, to_proc, token, recv_pc, visiting, unvisited,
                 acceptVars, sessionVars, rib_out>>

\* Mutant: one message for each visit.
LeaveUndrained(n) ==
  /\ visiting = n /\ sending = Nothing
  /\ visiting' = Nobody
  /\ UNCHANGED <<ribVars, to_proc, to_neighbor, token, recv_pc, unvisited,
                 sending, acceptVars, sessionVars, rib_out>>

\* try_recv() finds nothing: on to the next neighbor.
Leave(n) ==
  /\ visiting = n /\ sending = Nothing
  /\ to_proc[n] = <<>>
  /\ visiting' = Nobody
  /\ UNCHANGED <<ribVars, to_proc, to_neighbor, token, recv_pc, unvisited,
                 sending, acceptVars, sessionVars, rib_out>>

\* Mutant: a token that came in during the visits is thrown away.
EndVisitsClearToken ==
  /\ recv_pc = "visit" /\ visiting = Nobody /\ unvisited = {}
  /\ recv_pc' = "calc"
  /\ token' = FALSE
  /\ UNCHANGED <<ribVars, to_proc, to_neighbor, visiting, unvisited, sending,
                 acceptVars, sessionVars, rib_out>>

EndVisits ==
  /\ recv_pc = "visit" /\ visiting = Nobody /\ unvisited = {}
  /\ recv_pc' = "calc"
  /\ UNCHANGED <<ribVars, to_proc, to_neighbor, token, visiting, unvisited,
                 sending, acceptVars, sessionVars, rib_out>>

RecvLoop ==
  \/ CalcBestPaths \/ Wake \/ EndVisits
  \/ \E n \in Neighbors :
       \/ Visit(n) \/ Leave(n)
       \/ RecvRoute(n) \/ RecvWithdraw(n) \/ RecvUp(n)
       \/ \E p \in Prefixes : SendPath(n, p)

-----------------------------------------------------------------------------
(* The accept loop of run_process_loop                                     *)

\* validate_neighbor_ip_is_configured: the loop returns on its first round.
Validated(ip) == ip = Configured[1]

\* The mutex of the process is free: no NeighborUp is being answered.
AcceptOne ==
  /\ sending = Nothing
  /\ accepts < MaxAccepts /\ accepts' = accepts + 1

Refuse(ip) ==
  /\ AcceptOne /\ ~Validated(ip)
  /\ UNCHANGED <<ribVars, to_proc, to_neighbor, token, recvVars, waiting,
                 sessionVars, rib_out>>

\* The first connection: the neighbor leaves all_neighbors for a task.
StartNeighbor(n) ==
  /\ AcceptOne /\ Validated(n) /\ n \in waiting
  /\ waiting' = waiting \ {n}
  /\ UNCHANGED <<ribVars, to_proc, to_neighbor, token, recvVars, sessionVars,
                 rib_out>>

\* Mutant: the stream is passed to a full channel.
PassStreamWhenFull(n) ==
  /\ AcceptOne /\ Validated(n) /\ Running(n)
  /\ recv_pc # "visit"
  /\ to_neighbor' = [to_neighbor EXCEPT ![n] = Append(@, Stream)]
  /\ UNCHANGED <<ribVars, to_proc, token, recvVars, waiting,
                 sessionVars, rib_out>>

\* send_tcp_conn_to_neighbor, with the mutex of all_neighbors_channels; when the
\* channel is full the stream is dropped and the error logged.
PassStream(n) ==
  /\ AcceptOne /\ Validated(n) /\ Running(n)
  /\ recv_pc # "visit"
  /\ to_neighbor' = IF Len(to_neighbor[n]) < ChannelCap
                    THEN [to_neighbor EXCEPT ![n] = Append(@, Stream)]
                    ELSE to_neighbor
  /\ UNCHANGED <<ribVars, to_proc, token, recvVars, waiting,
                 sessionVars, rib_out>>

AcceptLoop ==
  \/ \E ip \in Neighbors \cup Strangers : Refuse(ip)
  \/ \E n \in Neighbors : StartNeighbor(n) \/ PassStream(n)

-----------------------------------------------------------------------------

\* populate_local_rib_from_config, populate_neighbors_from_config
Init ==
  /\ adj_rib_in =
       [p \in Prefixes |-> IF p \in Networks THEN <<Local>> ELSE <<>>]
  /\ local_rib = {} /\ calc = {} /\ applied = <<>>
  /\ to_proc = [n \in Neighbors |-> <<>>]
  /\ to_neighbor = [n \in Neighbors |-> <<>>]
  /\ token = FALSE
  /\ recv_pc = "calc" /\ visiting = Nobody /\ unvisited = {}
  /\ sending = Nothing
  /\ waiting = Neighbors
  /\ up = [n \in Neighbors |-> FALSE]
  /\ sender = [n \in Neighbors |-> "idle"]
  /\ rib_in = [n \in Neighbors |-> {}]
  /\ rib_out = [n \in Neighbors |-> {}]
  /\ sends = [n \in Neighbors |-> 0] /\ accepts = 0

Next ==
  \/ RecvLoop
  \/ AcceptLoop
  \/ \E n \in Neighbors : Neighbor(n)

Spec == Init /\ [][Next]_vars

\* The receive loop is one task, which runs when it can (WF).  The senders that
\* wait for room in the watcher channel are queued by tokio (SF).  Nothing is
\* assumed of when neighbors take what they are sent.
Fairness == WF_vars(RecvLoop) /\ \A n \in Neighbors : SF_vars(SendToken(n))

FairSpec == Spec /\ Fairness

-----------------------------------------------------------------------------
(* Properties                                                              *)

RibTypeOK ==
  /\ adj_rib_in \in [Prefixes -> Seq(Neighbors \cup {Local})]
  /\ local_rib \subseteq Prefixes /\ calc \subseteq Prefixes
  /\ applied \in Seq(Neighbors \X ToProcess)
  /\ to_proc \in [Neighbors -> Seq(ToProcess)]
  /\ to_neighbor \in [Neighbors -> Seq(ToNeighbor)]
  /\ \A n \in Neighbors :
       Len(to_proc[n]) <= ChannelCap /\ Len(to_neighbor[n]) <= ChannelCap
  /\ token \in BOOLEAN
  /\ recv_pc \in {"calc", "recv", "visit"}
  /\ visiting \in Neighbors \cup {Nobody} /\ unvisited \subseteq Neighbors
  /\ sending \in [Prefixes -> Nat]
  /\ waiting \subseteq Neighbors
  /\ up \in [Neighbors -> BOOLEAN]
  /\ sender \in [Neighbors -> {"idle", "token"}]
  /\ rib_in \in [Neighbors -> SUBSET Prefixes]
  /\ rib_out \in [Neighbors -> SUBSET Prefixes]
  /\ sends \in [Neighbors -> Nat] /\ accepts \in Nat

\* No message is stranded: one token in a channel of capacity 1, shared by all
\* neighbors, is enough for any number of messages, because a message is sent
\* before its token and the loop takes the token before it visits the channels.
NoStrandedMessage ==
  \A n \in Neighbors :
    to_proc[n] # <<>> =>
      \/ token \/ sender[n] = "token"
      \/ recv_pc = "visit" /\ (visiting = n \/ n \in unvisited)

\* The process learns of what a neighbor holds: a prefix in the adj_rib_in of a
\* neighbor is one the process has a path of that neighbor for, or will have: when
\* messages about it are still in the channel, the last of them announces it,
\* whatever the neighbor announced and withdrew before and however full the channel
\* was.  (The other direction does not hold: what a neighbor withdrew stays in
\* adj_rib_in, see RecvWithdraw.)
About(n, p) ==
  {i \in DOMAIN to_proc[n] : to_proc[n][i] \in {RouteOf(p), WithdrawOf(p)}}

AnnouncedLast(n, p) ==
  \E i \in About(n, p) :
    to_proc[n][i] = RouteOf(p) /\ \A j \in About(n, p) : j <= i

AnnouncementsArrive ==
  \A n \in Neighbors, p \in Prefixes :
    p \in rib_in[n] =>
      \/ AnnouncedLast(n, p)
      \/ About(n, p) = {} /\ n \in Range(adj_rib_in[p])

\* The receive loop waits for room in the channel of a neighbor, whose loop waits
\* for the mutex that its event loop holds while it waits to send its token.
TableSendStuck ==
  \E n \in Neighbors :
    /\ visiting = n /\ sending # Nothing /\ Len(to_neighbor[n]) = ChannelCap
    /\ sender[n] = "token" /\ token

\* An event loop that waits for room for its token, holding the mutex of its
\* neighbor, is not kept waiting for ever, unless by a full channel.
SenderUnblocks ==
  \A n \in Neighbors :
    sender[n] = "token" ~> sender[n] = "idle" \/ TableSendStuck

Mailbox == INSTANCE RouteMailbox WITH Messages <- ToProcess, pending <- to_proc

\* Every message is applied at most once and in the order it was sent.
AppliedInOrder == Mailbox!MailboxSpec

\* Every message is applied, eventually, unless a full channel stops the receive
\* loop for ever: that of a neighbor that takes nothing any more.
AppliedEventually ==
  \A n \in Neighbors :
    \/ Mailbox!AppliesAll(n)
    \/ <>[](\E k \in Neighbors :
              /\ visiting = k /\ sending # Nothing
              /\ Len(to_neighbor[k]) = ChannelCap)

(***************************************************************************)
(* What the README says and the program does not do.                       *)
(***************************************************************************)

\* The table is sent to a neighbor that came up ("Sending routes").  Violated
\* when it is longer than the channel: process and neighbor wait for each other.
TableSendNeverStuck == ~TableSendStuck

=============================================================================
