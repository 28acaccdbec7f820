---------------------------- MODULE RouteMailbox ----------------------------
(***************************************************************************)
(* What the neighbors are promised of the BGP process: every message a     *)
(* neighbor sends it (channels.rs: Route, WithdrawRoute, NeighborUp) is    *)
(* applied exactly once, in the order it was sent, and eventually.         *)
(* ProcessRib implements it with a channel for each neighbor and one       *)
(* watcher channel of capacity 1 that all of them share.                   *)
(***************************************************************************)
EXTENDS Sequences

CONSTANTS Neighbors, Messages

VARIABLES pending,   \* each neighbor's messages that are not applied yet
          applied    \* the messages applied, with their senders

MailboxInit ==
  /\ pending = [n \in Neighbors |-> <<>>]
  /\ applied = <<>>

Send(n) ==
  /\ \E m \in Messages : pending' = [pending EXCEPT ![n] = Append(@, m)]
  /\ UNCHANGED applied

Apply(n) ==
  /\ pending[n] # <<>>
  /\ pending' = [pending EXCEPT ![n] = Tail(@)]
  /\ applied' = Append(applied, <<n, Head(pending[n])>>)

MailboxNext == \E n \in Neighbors : Send(n) \/ Apply(n)

MailboxSpec == MailboxInit /\ [][MailboxNext]_<<pending, applied>>

\* The next message of n is applied, eventually.
AppliesAll(n) == WF_<<pending, applied>>(Apply(n))

FairMailboxSpec == MailboxSpec /\ \A n \in Neighbors : AppliesAll(n)
=============================================================================
