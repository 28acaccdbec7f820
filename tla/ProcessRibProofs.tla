--------------------------- MODULE ProcessRibProofs ---------------------------
(***************************************************************************)
(* Theorems about ProcessRib, for any number of neighbors, prefixes and    *)
(* messages and any capacity of the channels: no message is stranded by    *)
(* the shared token, the process learns of what a neighbor holds, and it   *)
(* implements the safety part of RouteMailbox.                             *)
(*                                                                         *)
(* The three invariants are proved one after the other, each from those    *)
(* before it.                                                              *)
(***************************************************************************)
EXTENDS ProcessRib, TLAPS

USE DEF vars, ribVars, recvVars, acceptVars, sessionVars

\* The messages a neighbor sends are messages to the process.
LEMMA MessagesToProcess ==
  /\ Up \in ToProcess
  /\ \A p \in Prefixes : RouteOf(p) \in ToProcess /\ WithdrawOf(p) \in ToProcess
BY DEF ToProcess

-----------------------------------------------------------------------------
(* Channels: a sequence for each neighbor, of at most ChannelCap items.    *)

Channels(M) == {c \in [Neighbors -> Seq(M)] :
                  \A n \in Neighbors : Len(c[n]) <= ChannelCap}

\* Sending to a channel that has room.
LEMMA ChannelSend ==
  ASSUME NEW M, NEW c \in Channels(M), NEW n \in Neighbors, NEW m \in M,
         Len(c[n]) < ChannelCap
  PROVE  [c EXCEPT ![n] = Append(@, m)] \in Channels(M)
<1> DEFINE d == [c EXCEPT ![n] = Append(@, m)]
<1>1. c \in [Neighbors -> Seq(M)] /\ ChannelCap \in Nat
  BY ProcessConstants DEF Channels
<1>2. Append(c[n], m) \in Seq(M) /\ Len(Append(c[n], m)) = Len(c[n]) + 1
  BY <1>1
<1>3. d \in [Neighbors -> Seq(M)]
  BY <1>1, <1>2
<1>4. ASSUME NEW k \in Neighbors PROVE Len(d[k]) <= ChannelCap
  <2>1. CASE k = n
    BY <1>1, <1>2, <2>1
  <2>2. CASE k # n
    BY <1>1, <2>2 DEF Channels
  <2> QED
    BY <2>1, <2>2
<1> QED
  BY <1>3, <1>4 DEF Channels

\* Taking the first item.
LEMMA ChannelTake ==
  ASSUME NEW M, NEW c \in Channels(M), NEW n \in Neighbors, c[n] # <<>>
  PROVE  /\ [c EXCEPT ![n] = Tail(@)] \in Channels(M)
         /\ Head(c[n]) \in M
<1> DEFINE d == [c EXCEPT ![n] = Tail(@)]
<1>1. c \in [Neighbors -> Seq(M)] /\ ChannelCap \in Nat
  BY ProcessConstants DEF Channels
<1>2. /\ Tail(c[n]) \in Seq(M) /\ Len(Tail(c[n])) = Len(c[n]) - 1
      /\ Len(c[n]) \in Nat /\ Head(c[n]) \in M
  BY <1>1
<1>3. d \in [Neighbors -> Seq(M)]
  BY <1>1, <1>2
<1>4. ASSUME NEW k \in Neighbors PROVE Len(d[k]) <= ChannelCap
  <2>1. CASE k = n
    BY <1>1, <1>2, <2>1 DEF Channels
  <2>2. CASE k # n
    BY <1>1, <2>2 DEF Channels
  <2> QED
    BY <2>1, <2>2
<1> QED
  BY <1>2, <1>3, <1>4 DEF Channels

\* The conjuncts of RibTypeOK about the two channels.
LEMMA ChannelsOfTypeOK ==
  /\ RibTypeOK => to_proc \in Channels(ToProcess)
                    /\ to_neighbor \in Channels(ToNeighbor)
  /\ \A c : c \in Channels(ToProcess) \/ c \in Channels(ToNeighbor) =>
            \A n \in Neighbors : Len(c[n]) <= ChannelCap
  /\ Channels(ToProcess) \subseteq [Neighbors -> Seq(ToProcess)]
  /\ Channels(ToNeighbor) \subseteq [Neighbors -> Seq(ToNeighbor)]
BY DEF Channels, RibTypeOK

-----------------------------------------------------------------------------
(* Type correctness.                                                       *)

\* The tables and channels start with the right types.
LEMMA InitTypeOK == Init => RibTypeOK
<1> SUFFICES ASSUME Init PROVE RibTypeOK
  OBVIOUS
<1>1. adj_rib_in \in [Prefixes -> Seq(Neighbors \cup {Local})]
  <2>1. /\ <<Local>> \in Seq(Neighbors \cup {Local})
        /\ <<>> \in Seq(Neighbors \cup {Local})
    OBVIOUS
  <2> QED
    BY <2>1 DEF Init
<1>2. sending \in [Prefixes -> Nat]
  BY DEF Init, Nothing
<1>3. /\ \A n \in Neighbors : Len(to_proc[n]) <= ChannelCap
                              /\ Len(to_neighbor[n]) <= ChannelCap
      /\ to_proc \in [Neighbors -> Seq(ToProcess)]
      /\ to_neighbor \in [Neighbors -> Seq(ToNeighbor)]
  BY ProcessConstants DEF Init
<1>4. applied \in Seq(Neighbors \X ToProcess)
  BY DEF Init
<1>5. rib_in \in [Neighbors -> SUBSET Prefixes]
      /\ rib_out \in [Neighbors -> SUBSET Prefixes]
  BY DEF Init
<1> QED
  BY <1>1, <1>2, <1>3, <1>4, <1>5 DEF Init, RibTypeOK

\* What a neighbor does keeps the types and its channel's capacity.
LEMMA NeighborTypeOK ==
  ASSUME RibTypeOK, NEW n \in Neighbors, Neighbor(n)
  PROVE  RibTypeOK'
<1> USE DEF RibTypeOK
<1>1. ASSUME NEW m \in ToProcess, SendMessage(n, m),
             up' \in [Neighbors -> BOOLEAN],
             rib_in' \in [Neighbors -> SUBSET Prefixes]
      PROVE  RibTypeOK'
  <2>1. to_proc' \in Channels(ToProcess)
    BY <1>1, ChannelSend, ChannelsOfTypeOK DEF SendMessage
  <2> QED
    BY <1>1, <2>1, ChannelsOfTypeOK DEF SendMessage
<1>2. CASE SessionUp(n)
  BY <1>1, <1>2, MessagesToProcess DEF SessionUp
<1>3. CASE SessionDown(n)
  BY <1>3 DEF SessionDown
<1>4. CASE SendToken(n)
  BY <1>4 DEF SendToken
<1>5. CASE TakeItem(n)
  <2>1. /\ Head(to_neighbor[n]) \in ToNeighbor
        /\ to_neighbor' \in Channels(ToNeighbor)
    BY <1>5, ChannelTake, ChannelsOfTypeOK DEF TakeItem
  <2>2. Head(to_neighbor[n]).type = "Route" =>
          Head(to_neighbor[n]).nlri \in Prefixes
    BY <2>1 DEF ToNeighbor, Stream, RouteOf
  <2> DEFINE item == Head(to_neighbor[n])
  <2> HIDE DEF item
  <2>3. \/ rib_out' = rib_out
        \/ /\ item.type = "Route"
           /\ rib_out' = [rib_out EXCEPT ![n] = @ \cup {item.nlri}]
    BY <1>5 DEF TakeItem, item
  <2>4. item.type = "Route" => rib_out[n] \cup {item.nlri} \in SUBSET Prefixes
    BY <2>2 DEF item
  <2>5. rib_out' \in [Neighbors -> SUBSET Prefixes]
    BY <2>3, <2>4
  <2>6. UNCHANGED <<ribVars, to_proc, token, recvVars, acceptVars, sessionVars>>
    BY <1>5 DEF TakeItem
  <2>7. /\ to_neighbor' \in [Neighbors -> Seq(ToNeighbor)]
        /\ \A k \in Neighbors : Len(to_neighbor'[k]) <= ChannelCap
    BY <2>1, ChannelsOfTypeOK
  <2> QED
    BY <2>5, <2>6, <2>7
<1>6. ASSUME NEW p \in Prefixes, Announce(n, p) \/ Withdraw(n, p)
      PROVE  RibTypeOK'
  <2>1. rib_in[n] \cup {p} \in SUBSET Prefixes
        /\ rib_in[n] \ {p} \in SUBSET Prefixes
    OBVIOUS
  <2>2. rib_in' \in [Neighbors -> SUBSET Prefixes]
    BY <1>6, <2>1 DEF Announce, Withdraw
  <2>3. up' \in [Neighbors -> BOOLEAN]
    BY <1>6 DEF Announce, Withdraw
  <2>4. \E m \in ToProcess : SendMessage(n, m)
    BY <1>6, MessagesToProcess DEF Announce, Withdraw
  <2> QED
    BY <1>1, <2>2, <2>3, <2>4
<1> QED
  BY <1>2, <1>3, <1>4, <1>5, <1>6 DEF Neighbor

\* What the receive loop does keeps the types and the capacities.
LEMMA RecvLoopTypeOK ==
  ASSUME RibTypeOK, RecvLoop
  PROVE  RibTypeOK'
<1> USE DEF RibTypeOK
<1>1. ASSUME NEW n \in Neighbors, NEW m \in ToProcess, Applied(n, m),
             adj_rib_in' \in [Prefixes -> Seq(Neighbors \cup {Local})],
             local_rib' \subseteq Prefixes, calc' \subseteq Prefixes,
             sending' \in [Prefixes -> Nat]
      PROVE  RibTypeOK'
  <2>1. applied' \in Seq(Neighbors \X ToProcess)
    BY <1>1 DEF Applied
  <2>2. to_proc' \in Channels(ToProcess)
    BY <1>1, ChannelTake, ChannelsOfTypeOK DEF Applied
  <2> QED
    BY <1>1, <2>1, <2>2, ChannelsOfTypeOK DEF Applied
<1>2. CASE CalcBestPaths \/ Wake \/ EndVisits
  BY <1>2 DEF CalcBestPaths, Wake, EndVisits
<1>3. ASSUME NEW n \in Neighbors, Visit(n) \/ Leave(n)
      PROVE  RibTypeOK'
  BY <1>3 DEF Visit, Leave
<1>4. ASSUME NEW n \in Neighbors, RecvRoute(n) \/ RecvWithdraw(n) \/ RecvUp(n)
      PROVE  RibTypeOK'
  <2>1. CASE RecvRoute(n)
    <3>1. PICK p \in Prefixes :
            /\ Applied(n, RouteOf(p))
            /\ adj_rib_in' = [adj_rib_in EXCEPT ![p] = Append(@, n)]
            /\ calc' = calc \cup {p}
            /\ UNCHANGED <<local_rib, sending>>
      BY <2>1 DEF RecvRoute
    <3>2. Append(adj_rib_in[p], n) \in Seq(Neighbors \cup {Local})
      OBVIOUS
    <3>3. adj_rib_in' \in [Prefixes -> Seq(Neighbors \cup {Local})]
      BY <3>1, <3>2
    <3> QED
      BY <1>1, <3>1, <3>3, MessagesToProcess
  <2>2. CASE RecvWithdraw(n)
    BY <1>1, <2>2, MessagesToProcess DEF RecvWithdraw
  <2>3. CASE RecvUp(n)
    <3>1. \A p \in Prefixes : Len(adj_rib_in[p]) \in Nat
      OBVIOUS
    <3>2. sending' \in [Prefixes -> Nat]
      BY <2>3, <3>1 DEF RecvUp
    <3> QED
      BY <1>1, <2>3, <3>2, MessagesToProcess DEF RecvUp
  <2> QED
    BY <1>4, <2>1, <2>2, <2>3
<1>5. ASSUME NEW n \in Neighbors, NEW p \in Prefixes, SendPath(n, p)
      PROVE  RibTypeOK'
  <2>1. sending' \in [Prefixes -> Nat]
    BY <1>5 DEF SendPath
  <2>2. RouteOf(p) \in ToNeighbor
    BY DEF ToNeighbor
  <2>3. to_neighbor' \in Channels(ToNeighbor)
    BY <1>5, <2>2, ChannelSend, ChannelsOfTypeOK DEF SendPath
  <2> QED
    BY <1>5, <2>1, <2>3, ChannelsOfTypeOK DEF SendPath
<1> QED
  BY <1>2, <1>3, <1>4, <1>5 DEF RecvLoop

\* What the accept loop does keeps the types and the capacities.
LEMMA AcceptLoopTypeOK ==
  ASSUME RibTypeOK, AcceptLoop
  PROVE  RibTypeOK'
<1> USE DEF RibTypeOK, AcceptOne
<1>1. ASSUME NEW ip \in Neighbors \cup Strangers, Refuse(ip)
      PROVE  RibTypeOK'
  BY <1>1 DEF Refuse
<1>2. ASSUME NEW n \in Neighbors, StartNeighbor(n)
      PROVE  RibTypeOK'
  BY <1>2 DEF StartNeighbor
<1>3. ASSUME NEW n \in Neighbors, PassStream(n)
      PROVE  RibTypeOK'
  <2>1. Stream \in ToNeighbor
    BY DEF ToNeighbor
  <2>2. to_neighbor' \in Channels(ToNeighbor)
    BY <1>3, <2>1, ChannelSend, ChannelsOfTypeOK DEF PassStream
  <2>3. /\ to_neighbor' \in [Neighbors -> Seq(ToNeighbor)]
        /\ \A k \in Neighbors : Len(to_neighbor'[k]) <= ChannelCap
    BY <2>2, ChannelsOfTypeOK
  <2>4. /\ UNCHANGED <<ribVars, to_proc, token, recvVars, waiting, sessionVars,
                       rib_out>>
        /\ accepts' \in Nat
    BY <1>3 DEF PassStream
  <2> QED
    BY <2>3, <2>4
<1> QED
  BY <1>1, <1>2, <1>3 DEF AcceptLoop

\* The state of the process and its channels is type correct, and no channel is
\* ever longer than its capacity.
THEOREM RibTypeCorrect == Spec => []RibTypeOK
<1>1. RibTypeOK /\ [Next]_vars => RibTypeOK'
  <2> SUFFICES ASSUME RibTypeOK, [Next]_vars PROVE RibTypeOK'
    OBVIOUS
  <2>1. CASE UNCHANGED vars
    BY <2>1 DEF RibTypeOK
  <2> QED
    BY <2>1, NeighborTypeOK, RecvLoopTypeOK, AcceptLoopTypeOK DEF Next
<1> QED
  BY <1>1, InitTypeOK, PTL DEF Spec

-----------------------------------------------------------------------------
(* The shared token.                                                       *)

\* A message is sent before its token, and the token is left in the channel.
LEMMA NeighborStrandsNone ==
  ASSUME RibTypeOK, NoStrandedMessage, NEW n \in Neighbors, Neighbor(n)
  PROVE  NoStrandedMessage'
<1> USE DEF NoStrandedMessage, RibTypeOK
<1>1. ASSUME NEW m, SendMessage(n, m) PROVE NoStrandedMessage'
  BY <1>1 DEF SendMessage
<1>2. CASE SessionDown(n)
  BY <1>2 DEF SessionDown
<1>3. CASE SendToken(n)
  BY <1>3 DEF SendToken
<1>4. CASE TakeItem(n)
  BY <1>4 DEF TakeItem
<1> QED
  BY <1>1, <1>2, <1>3, <1>4 DEF Neighbor, SessionUp, Announce, Withdraw

\* The token is taken before the visits: a round of visits that ends leaves no
\* message behind but those whose token is still to be taken.
LEMMA RecvLoopStrandsNone ==
  ASSUME RibTypeOK, NoStrandedMessage, RecvLoop
  PROVE  NoStrandedMessage'
<1> USE DEF NoStrandedMessage
<1>1. CASE CalcBestPaths
  BY <1>1 DEF CalcBestPaths
<1>2. CASE Wake
  BY <1>2 DEF Wake
<1>3. CASE EndVisits
  BY <1>3, ProcessConstants DEF EndVisits
<1>4. ASSUME NEW n \in Neighbors, Visit(n) PROVE NoStrandedMessage'
  BY <1>4, ProcessConstants DEF Visit
<1>5. ASSUME NEW n \in Neighbors, Leave(n) PROVE NoStrandedMessage'
  BY <1>5 DEF Leave
<1>6. ASSUME NEW n \in Neighbors, NEW m, Applied(n, m) PROVE NoStrandedMessage'
  BY <1>6 DEF Applied, RibTypeOK
<1>7. ASSUME NEW n \in Neighbors, NEW p \in Prefixes, SendPath(n, p)
      PROVE  NoStrandedMessage'
  BY <1>7 DEF SendPath
<1> QED
  BY <1>1, <1>2, <1>3, <1>4, <1>5, <1>6, <1>7
  DEF RecvLoop, RecvRoute, RecvWithdraw, RecvUp

\* The accept loop touches neither the channels to the process nor the token.
LEMMA AcceptLoopStrandsNone ==
  NoStrandedMessage /\ AcceptLoop => NoStrandedMessage'
BY DEF NoStrandedMessage, AcceptLoop, Refuse, StartNeighbor, PassStream

\* One token for all neighbors is enough: a message in a channel always has a
\* token, a sender about to send one, or a visit to come.
THEOREM NothingIsStranded == Spec => []NoStrandedMessage
<1>1. Init => NoStrandedMessage
  BY DEF Init, NoStrandedMessage
<1>2. RibTypeOK /\ NoStrandedMessage /\ [Next]_vars => NoStrandedMessage'
  <2> SUFFICES ASSUME RibTypeOK, NoStrandedMessage, [Next]_vars
               PROVE  NoStrandedMessage'
    OBVIOUS
  <2>1. CASE UNCHANGED vars
    BY <2>1 DEF NoStrandedMessage
  <2> QED
    BY <2>1, NeighborStrandsNone, RecvLoopStrandsNone, AcceptLoopStrandsNone
    DEF Next
<1> QED
  BY <1>1, <1>2, RibTypeCorrect, PTL DEF Spec

-----------------------------------------------------------------------------
(* The process implements RouteMailbox (its safety part).                  *)

\* A neighbor's step sends one message or none.
LEMMA NeighborImplements ==
  ASSUME RibTypeOK, NEW n \in Neighbors, Neighbor(n)
  PROVE  Mailbox!Send(n) \/ UNCHANGED <<to_proc, applied>>
<1>1. ASSUME NEW m \in ToProcess, SendMessage(n, m) PROVE Mailbox!Send(n)
  BY <1>1 DEF SendMessage, Mailbox!Send
<1>2. CASE SessionUp(n)
  BY <1>1, <1>2, MessagesToProcess DEF SessionUp
<1>3. ASSUME NEW p \in Prefixes, Announce(n, p) \/ Withdraw(n, p)
      PROVE  Mailbox!Send(n)
  BY <1>1, <1>3, MessagesToProcess DEF Announce, Withdraw
<1>4. CASE SessionDown(n) \/ SendToken(n) \/ TakeItem(n)
  BY <1>4 DEF SessionDown, SendToken, TakeItem
<1> QED
  BY <1>2, <1>3, <1>4 DEF Neighbor

\* A step of the receive loop applies the first message of a channel, or none.
LEMMA RecvLoopImplements ==
  ASSUME RecvLoop
  PROVE  \/ \E n \in Neighbors : Mailbox!Apply(n)
         \/ UNCHANGED <<to_proc, applied>>
<1>1. ASSUME NEW n \in Neighbors, NEW m, Applied(n, m) PROVE Mailbox!Apply(n)
  BY <1>1 DEF Applied, Mailbox!Apply
<1>2. ASSUME NEW n \in Neighbors, RecvRoute(n) \/ RecvWithdraw(n) \/ RecvUp(n)
      PROVE  Mailbox!Apply(n)
  BY <1>1, <1>2 DEF RecvRoute, RecvWithdraw, RecvUp
<1>3. ASSUME NEW n \in Neighbors, NEW p \in Prefixes,
             Visit(n) \/ Leave(n) \/ SendPath(n, p)
      PROVE  UNCHANGED <<to_proc, applied>>
  BY <1>3 DEF Visit, Leave, SendPath
<1>4. CASE CalcBestPaths \/ Wake \/ EndVisits
  BY <1>4 DEF CalcBestPaths, Wake, EndVisits
<1>5. ASSUME NEW n \in Neighbors, Visit(n) \/ Leave(n)
      PROVE  UNCHANGED <<to_proc, applied>>
  BY <1>5 DEF Visit, Leave
<1> QED
  BY <1>2, <1>3, <1>4, <1>5 DEF RecvLoop

\* Every message a neighbor sends is applied at most once and in the order sent:
\* a step of the process is a step of the mailbox or leaves it alone.
THEOREM RefinesMailbox == Spec => AppliedInOrder
<1>1. Init => Mailbox!MailboxInit
  BY DEF Init, Mailbox!MailboxInit
<1>2. RibTypeOK /\ [Next]_vars => [Mailbox!MailboxNext]_<<to_proc, applied>>
  <2> SUFFICES ASSUME RibTypeOK, [Next]_vars
               PROVE  [Mailbox!MailboxNext]_<<to_proc, applied>>
    OBVIOUS
  <2>1. CASE UNCHANGED vars
    BY <2>1
  <2>2. CASE RecvLoop
    BY <2>2, RecvLoopImplements DEF Mailbox!MailboxNext
  <2>3. CASE AcceptLoop
    BY <2>3 DEF AcceptLoop, Refuse, StartNeighbor, PassStream
  <2>4. ASSUME NEW n \in Neighbors, Neighbor(n)
        PROVE  [Mailbox!MailboxNext]_<<to_proc, applied>>
    BY <2>4, NeighborImplements DEF Mailbox!MailboxNext
  <2> QED
    BY <2>1, <2>2, <2>3, <2>4 DEF Next
<1> QED
  BY <1>1, <1>2, RibTypeCorrect, PTL DEF Spec, AppliedInOrder, Mailbox!MailboxSpec

-----------------------------------------------------------------------------
(* What a neighbor holds, the process learns of.                           *)

\* One neighbor n and one prefix p, with its channel s and the origins K of the
\* paths: what AnnouncementsArrive says once the neighbor holds the prefix.
Told(s, n, K, p) ==
  \/ \E i \in DOMAIN s :
       /\ s[i] = RouteOf(p)
       /\ \A j \in DOMAIN s : s[j] \in {RouteOf(p), WithdrawOf(p)} => j <= i
  \/ n \in K /\ \A j \in DOMAIN s : s[j] \notin {RouteOf(p), WithdrawOf(p)}

\* AnnouncementsArrive says so for every neighbor and every prefix it holds.
LEMMA ArriveIsTold ==
  /\ AnnouncementsArrive <=>
       \A n \in Neighbors, p \in Prefixes :
         p \in rib_in[n] => Told(to_proc[n], n, Range(adj_rib_in[p]), p)
  /\ AnnouncementsArrive' <=>
       \A n \in Neighbors, p \in Prefixes :
         p \in rib_in'[n] => Told(to_proc'[n], n, Range(adj_rib_in'[p]), p)
BY DEF AnnouncementsArrive, AnnouncedLast, About, Told

\* The messages about a prefix are told from those about another.
LEMMA MessagesDiffer ==
  \A p, q : /\ RouteOf(p) # WithdrawOf(q) /\ RouteOf(p) # Up /\ WithdrawOf(p) # Up
            /\ RouteOf(p) = RouteOf(q) => p = q
            /\ WithdrawOf(p) = WithdrawOf(q) => p = q
<1>1. \A p : /\ RouteOf(p).type = "Route" /\ RouteOf(p).nlri = p
             /\ WithdrawOf(p).type = "WithdrawRoute" /\ WithdrawOf(p).nlri = p
  BY DEF RouteOf, WithdrawOf
<1>2. Up.type = "NeighborUp"
  BY DEF Up
<1>3. "Route" # "WithdrawRoute" /\ "Route" # "NeighborUp"
      /\ "WithdrawRoute" # "NeighborUp"
  OBVIOUS
<1> QED
  BY <1>1, <1>2, <1>3

\* Sending an announcement of p makes it the last message about p; sending a
\* message about something else changes nothing for p.
LEMMA ToldBySending ==
  ASSUME NEW M, NEW s \in Seq(M), NEW m \in M, NEW n, NEW K, NEW p,
         \/ m = RouteOf(p)
         \/ m \notin {RouteOf(p), WithdrawOf(p)} /\ Told(s, n, K, p)
  PROVE  Told(Append(s, m), n, K, p)
<1> DEFINE a == Append(s, m)
<1>1. /\ DOMAIN s = 1..Len(s) /\ Len(s) \in Nat
      /\ DOMAIN a = 1..(Len(s) + 1) /\ a[Len(s) + 1] = m
      /\ \A i \in 1..Len(s) : a[i] = s[i]
  OBVIOUS
<1> HIDE DEF a
<1>2. CASE m = RouteOf(p)
  <2>1. Len(s) + 1 \in DOMAIN a /\ \A j \in DOMAIN a : j <= Len(s) + 1
    BY <1>1
  <2> QED
    BY <1>1, <1>2, <2>1 DEF Told, a
<1>3. CASE m \notin {RouteOf(p), WithdrawOf(p)} /\ Told(s, n, K, p)
  <2>1. \A j \in DOMAIN a : a[j] \in {RouteOf(p), WithdrawOf(p)} =>
          j \in DOMAIN s /\ s[j] = a[j]
    BY <1>1, <1>3
  <2>2. \A i \in DOMAIN s : i \in DOMAIN a /\ a[i] = s[i]
    BY <1>1
  <2>3. Told(a, n, K, p)
    BY <1>3, <2>1, <2>2 DEF Told
  <2> QED
    BY <2>3 DEF a
<1> QED
  BY <1>2, <1>3

\* Taking the first message, which makes p known if it announces p.
LEMMA ToldByTaking ==
  ASSUME NEW M, NEW s \in Seq(M), s # <<>>, NEW n, NEW K, NEW L, NEW p,
         n \in K => n \in L, Head(s) = RouteOf(p) => n \in L, Told(s, n, K, p)
  PROVE  Told(Tail(s), n, L, p)
<1> DEFINE t == Tail(s)
<1>1. /\ DOMAIN s = 1..Len(s) /\ Len(s) \in Nat \ {0} /\ Head(s) = s[1]
      /\ DOMAIN t = 1..(Len(s) - 1)
      /\ \A i \in 1..(Len(s) - 1) : t[i] = s[i + 1] /\ i + 1 \in 1..Len(s)
  OBVIOUS
<1> HIDE DEF t
<1>2. CASE n \in K /\ \A j \in DOMAIN s : s[j] \notin {RouteOf(p), WithdrawOf(p)}
  <2>1. Told(t, n, L, p)
    BY <1>1, <1>2 DEF Told
  <2> QED
    BY <2>1 DEF t
<1>3. ASSUME NEW i \in DOMAIN s, s[i] = RouteOf(p),
             \A j \in DOMAIN s : s[j] \in {RouteOf(p), WithdrawOf(p)} => j <= i
      PROVE  Told(Tail(s), n, L, p)
  <2>1. CASE i = 1
    <3>1. n \in L
      BY <1>1, <1>3, <2>1
    <3>2. \A j \in DOMAIN t : t[j] \notin {RouteOf(p), WithdrawOf(p)}
      BY <1>1, <1>3, <2>1
    <3> QED
      BY <3>1, <3>2 DEF Told, t
  <2>2. CASE i # 1
    <3>1. i - 1 \in DOMAIN t /\ t[i - 1] = RouteOf(p)
      BY <1>1, <1>3, <2>2
    <3>2. \A j \in DOMAIN t : t[j] \in {RouteOf(p), WithdrawOf(p)} => j <= i - 1
      BY <1>1, <1>3
    <3> QED
      BY <3>1, <3>2 DEF Told, t
  <2> QED
    BY <2>1, <2>2
<1> QED
  BY <1>2, <1>3 DEF Told

\* A path that is added to others is among them.
LEMMA RangeOfAppend ==
  ASSUME NEW M, NEW s \in Seq(M), NEW x \in M
  PROVE  Range(s) \cup {x} \subseteq Range(Append(s, x))
<1> DEFINE a == Append(s, x)
<1>1. /\ DOMAIN s = 1..Len(s) /\ Len(s) \in Nat
      /\ DOMAIN a = 1..(Len(s) + 1) /\ a[Len(s) + 1] = x
      /\ \A i \in 1..Len(s) : a[i] = s[i]
  OBVIOUS
<1> HIDE DEF a
<1>2. ASSUME NEW y \in Range(s) \cup {x} PROVE y \in Range(a)
  <2>1. CASE y = x
    BY <1>1, <2>1 DEF Range
  <2>2. CASE y \in Range(s)
    <3>1. PICK i \in 1..Len(s) : y = s[i]
      BY <1>1, <2>2 DEF Range
    <3>2. i \in 1..(Len(s) + 1) /\ y = a[i]
      BY <1>1, <3>1
    <3> QED
      BY <1>1, <3>2 DEF Range
  <2> QED
    BY <1>2, <2>1, <2>2
<1>3. Range(s) \cup {x} \subseteq Range(a)
  BY <1>2
<1> QED
  BY <1>3 DEF a

\* A neighbor sends m, with what it holds changed only in what m announces or
\* withdraws.
LEMMA SendTells ==
  ASSUME AnnouncementsArrive, NEW n \in Neighbors, NEW m \in ToProcess,
         to_proc \in [Neighbors -> Seq(ToProcess)],
         to_proc' = [to_proc EXCEPT ![n] = Append(@, m)],
         adj_rib_in' = adj_rib_in,
         \A k \in Neighbors \ {n} : rib_in'[k] = rib_in[k],
         \A p \in Prefixes :
           /\ p \in rib_in'[n] => p \in rib_in[n] \/ m = RouteOf(p)
           /\ m = WithdrawOf(p) => p \notin rib_in'[n]
  PROVE  AnnouncementsArrive'
<1> SUFFICES ASSUME NEW k \in Neighbors, NEW p \in Prefixes, p \in rib_in'[k]
             PROVE  Told(to_proc'[k], k, Range(adj_rib_in'[p]), p)
  BY ArriveIsTold
<1>1. p \in rib_in[k] => Told(to_proc[k], k, Range(adj_rib_in[p]), p)
  BY ArriveIsTold
<1>2. CASE k # n
  <2>1. to_proc'[k] = to_proc[k] /\ p \in rib_in[k]
    BY <1>2
  <2> QED
    BY <1>1, <2>1
<1>3. CASE k = n
  <2>1. to_proc'[k] = Append(to_proc[k], m) /\ to_proc[k] \in Seq(ToProcess)
    BY <1>3
  <2>2. \/ m = RouteOf(p)
        \/ m \notin {RouteOf(p), WithdrawOf(p)} /\ p \in rib_in[k]
    <3>1. p \in rib_in'[n]
      BY <1>3
    <3>2. m # WithdrawOf(p) /\ (p \in rib_in[n] \/ m = RouteOf(p))
      BY <3>1
    <3> QED
      BY <1>3, <3>2
  <2>3. Told(Append(to_proc[k], m), k, Range(adj_rib_in[p]), p)
    BY <1>1, <2>1, <2>2, ToldBySending
  <2> QED
    BY <2>1, <2>3
<1> QED
  BY <1>2, <1>3

\* A neighbor puts a prefix in its table and the announcement in the channel in
\* one step, and takes it out with a withdrawal.
LEMMA NeighborTells ==
  ASSUME RibTypeOK, AnnouncementsArrive, NEW n \in Neighbors, Neighbor(n)
  PROVE  AnnouncementsArrive'
<1>1. to_proc \in [Neighbors -> Seq(ToProcess)]
      /\ rib_in \in [Neighbors -> SUBSET Prefixes]
  BY DEF RibTypeOK
<1>2. CASE SessionUp(n)
  <2>1. /\ to_proc' = [to_proc EXCEPT ![n] = Append(@, Up)]
        /\ adj_rib_in' = adj_rib_in /\ rib_in' = rib_in
    BY <1>2 DEF SessionUp, SendMessage
  <2>2. Up \in ToProcess /\ \A p \in Prefixes : Up # WithdrawOf(p)
    BY MessagesToProcess, MessagesDiffer
  <2> QED
    BY <1>1, <2>1, <2>2, SendTells
<1>3. ASSUME NEW q \in Prefixes, Announce(n, q) PROVE AnnouncementsArrive'
  <2>1. /\ to_proc' = [to_proc EXCEPT ![n] = Append(@, RouteOf(q))]
        /\ adj_rib_in' = adj_rib_in
        /\ rib_in' = [rib_in EXCEPT ![n] = @ \cup {q}]
    BY <1>3 DEF Announce, SendMessage
  <2>2. /\ RouteOf(q) \in ToProcess
        /\ \A p \in Prefixes : RouteOf(q) # WithdrawOf(p)
    BY MessagesToProcess, MessagesDiffer
  <2>3. /\ \A k \in Neighbors \ {n} : rib_in'[k] = rib_in[k]
        /\ rib_in'[n] = rib_in[n] \cup {q}
    BY <1>1, <2>1
  <2> QED
    BY <1>1, <2>1, <2>2, <2>3, SendTells
<1>4. ASSUME NEW q \in Prefixes, Withdraw(n, q) PROVE AnnouncementsArrive'
  <2>1. /\ to_proc' = [to_proc EXCEPT ![n] = Append(@, WithdrawOf(q))]
        /\ adj_rib_in' = adj_rib_in
        /\ rib_in' = [rib_in EXCEPT ![n] = @ \ {q}]
    BY <1>4 DEF Withdraw, SendMessage
  <2>2. /\ WithdrawOf(q) \in ToProcess
        /\ \A p \in Prefixes : WithdrawOf(q) = WithdrawOf(p) => p = q
    BY MessagesToProcess, MessagesDiffer
  <2>3. /\ \A k \in Neighbors \ {n} : rib_in'[k] = rib_in[k]
        /\ rib_in'[n] = rib_in[n] \ {q}
    BY <1>1, <2>1
  <2> QED
    BY <1>1, <2>1, <2>2, <2>3, SendTells
<1>5. CASE SessionDown(n) \/ SendToken(n) \/ TakeItem(n)
  BY <1>5 DEF SessionDown, SendToken, TakeItem, AnnouncementsArrive,
              AnnouncedLast, About
<1> QED
  BY <1>2, <1>3, <1>4, <1>5 DEF Neighbor

\* The receive loop takes the first message, and adds the path it announces.
LEMMA RecvLoopTells ==
  ASSUME RibTypeOK, AnnouncementsArrive, RecvLoop
  PROVE  AnnouncementsArrive'
<1>1. ASSUME NEW n \in Neighbors, NEW m, Applied(n, m),
             \A k \in Neighbors, p \in Prefixes :
               /\ k \in Range(adj_rib_in[p]) => k \in Range(adj_rib_in'[p])
               /\ m = RouteOf(p) => n \in Range(adj_rib_in'[p])
      PROVE  AnnouncementsArrive'
  <2>1. /\ to_proc \in [Neighbors -> Seq(ToProcess)]
        /\ to_proc' = [to_proc EXCEPT ![n] = Tail(@)]
        /\ to_proc[n] # <<>> /\ m = Head(to_proc[n])
        /\ rib_in' = rib_in
    BY <1>1 DEF Applied, RibTypeOK
  <2> SUFFICES ASSUME NEW k \in Neighbors, NEW p \in Prefixes, p \in rib_in'[k]
               PROVE  Told(to_proc'[k], k, Range(adj_rib_in'[p]), p)
    BY ArriveIsTold
  <2> DEFINE K == Range(adj_rib_in[p])
  <2> DEFINE L == Range(adj_rib_in'[p])
  <2>2. Told(to_proc[k], k, K, p) /\ (k \in K => k \in L)
    BY <1>1, <2>1, ArriveIsTold
  <2>3. k = n /\ Head(to_proc[k]) = RouteOf(p) => k \in L
    BY <1>1, <2>1
  <2> HIDE DEF K, L
  <2>4. CASE k # n
    <3>1. to_proc'[k] = to_proc[k]
      BY <2>1, <2>4
    <3>2. Told(to_proc[k], k, L, p)
      BY <2>2 DEF Told
    <3> QED
      BY <3>1, <3>2 DEF L
  <2>5. CASE k = n
    <3>1. to_proc'[k] = Tail(to_proc[k]) /\ to_proc[k] \in Seq(ToProcess)
          /\ to_proc[k] # <<>>
      BY <2>1, <2>5
    <3>2. Told(Tail(to_proc[k]), k, L, p)
      BY <2>2, <2>3, <2>5, <3>1, ToldByTaking
    <3> QED
      BY <3>1, <3>2 DEF L
  <2> QED
    BY <2>4, <2>5
<1>2. ASSUME NEW n \in Neighbors, RecvRoute(n) PROVE AnnouncementsArrive'
  <2>1. PICK q \in Prefixes :
          /\ Applied(n, RouteOf(q))
          /\ adj_rib_in' = [adj_rib_in EXCEPT ![q] = Append(@, n)]
    BY <1>2 DEF RecvRoute
  <2>2. /\ adj_rib_in \in [Prefixes -> Seq(Neighbors \cup {Local})]
        /\ adj_rib_in[q] \in Seq(Neighbors \cup {Local})
    BY DEF RibTypeOK
  <2>3. /\ adj_rib_in'[q] = Append(adj_rib_in[q], n)
        /\ \A p \in Prefixes \ {q} : adj_rib_in'[p] = adj_rib_in[p]
    BY <2>1, <2>2
  <2>4. Range(adj_rib_in[q]) \cup {n} \subseteq Range(adj_rib_in'[q])
    BY <2>2, <2>3, RangeOfAppend
  <2>5. \A k \in Neighbors, p \in Prefixes :
          /\ k \in Range(adj_rib_in[p]) => k \in Range(adj_rib_in'[p])
          /\ RouteOf(q) = RouteOf(p) => n \in Range(adj_rib_in'[p])
    BY <2>3, <2>4, MessagesDiffer
  <2> QED
    BY <1>1, <2>1, <2>5
<1>3. ASSUME NEW n \in Neighbors, RecvWithdraw(n) \/ RecvUp(n)
      PROVE  AnnouncementsArrive'
  <2>1. PICK m : /\ Applied(n, m) /\ \A p \in Prefixes : m # RouteOf(p)
                 /\ adj_rib_in' = adj_rib_in
    BY <1>3, MessagesDiffer DEF RecvWithdraw, RecvUp
  <2> QED
    BY <1>1, <2>1
<1>4. CASE CalcBestPaths \/ Wake \/ EndVisits
  BY <1>4 DEF CalcBestPaths, Wake, EndVisits, AnnouncementsArrive, AnnouncedLast,
              About
<1>5. ASSUME NEW n \in Neighbors, NEW p \in Prefixes,
             Visit(n) \/ Leave(n) \/ SendPath(n, p)
      PROVE  AnnouncementsArrive'
  BY <1>5 DEF Visit, Leave, SendPath, AnnouncementsArrive, AnnouncedLast, About
<1>6. ASSUME NEW n \in Neighbors, Visit(n) \/ Leave(n)
      PROVE  AnnouncementsArrive'
  BY <1>6 DEF Visit, Leave, AnnouncementsArrive, AnnouncedLast, About
<1> QED
  BY <1>2, <1>3, <1>4, <1>5, <1>6 DEF RecvLoop

\* The accept loop touches neither the tables nor the channels to the process.
LEMMA AcceptLoopTells ==
  AnnouncementsArrive /\ AcceptLoop => AnnouncementsArrive'
BY DEF AnnouncementsArrive, AnnouncedLast, About, AcceptLoop, Refuse,
       StartNeighbor, PassStream

\* A prefix in the table of a neighbor is known to the process as that neighbor's,
\* or its announcement is on the way with no withdrawal behind it.
THEOREM AnnouncementsReach == Spec => []AnnouncementsArrive
<1>1. Init => AnnouncementsArrive
  BY DEF Init, AnnouncementsArrive
<1>2. RibTypeOK /\ AnnouncementsArrive /\ [Next]_vars => AnnouncementsArrive'
  <2> SUFFICES ASSUME RibTypeOK, AnnouncementsArrive, [Next]_vars
               PROVE  AnnouncementsArrive'
    OBVIOUS
  <2>1. CASE UNCHANGED vars
    BY <2>1 DEF AnnouncementsArrive, AnnouncedLast, About
  <2> QED
    BY <2>1, NeighborTells, RecvLoopTells, AcceptLoopTells DEF Next
<1> QED
  BY <1>1, <1>2, RibTypeCorrect, PTL DEF Spec
=============================================================================
