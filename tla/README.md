# Formal models of RustyBGP

TLA+ modules that model the core of RustyBGP, the TLC configurations that check
them on small instances, and proofs of most of the safety properties for every
instance. Paths such as `neighbors.rs` are relative to `src/src/`.

## 1. The system

RustyBGP is a BGP speaker on tokio. It listens for TCP connections of its
configured neighbors, runs one state machine per neighbor, keeps the routes the
neighbors announce, and sends its table to a neighbor that comes up.

| component | state | operations | correct when |
|---|---|---|---|
| **Neighbor FSM** (`Neighbor::handle_event`, `FSM`, `Timer`) | state, retry counter, hold time, five timers | one arm per state and event | a session is always watched by a timer, ends cleanly, the counter never overflows, the agreed hold time is legal |
| **Neighbor tasks** (`run_neighbor_loop`, `run_event_loop`, `run_timer_loop`) | the event queue and its watcher channel, the DropTCP channel, the two halves of the TCP stream, the channel from the process | read and dispatch messages, drain events, check timers, take over a new stream | no event is forgotten, no task dies or waits for ever, a session is one on one connection, a neighbor that went down comes back |
| **BGP process** (`run_process_loop`, `run_recv_message_channel_loop`) | `adj_rib_in`, `local_rib`, the channels of every neighbor, one watcher channel, the neighbors that never connected | accept, start or resume a neighbor, apply Route / WithdrawRoute / NeighborUp, send the table | messages are applied once, in order, eventually; a withdrawn route is gone; every configured neighbor is accepted |
| **Best path** (`compare_*`, top of the receive loop) | the scan of a prefix's paths | compare, choose | the choice follows the attributes and not the order of arrival |
| **Framing** (`extract_messages_from_rec_data`) | the buffer of one read | find the messages | each message of the read is found |
| **Message codecs** (`messages/*.rs`), capabilities | the read buffer; `negotiated_capabilities` across sessions | encode, decode, negotiate | a standard peer is understood and understands us, no panic, one width of AS numbers |
| Startup, configuration (`main.rs`, `config.rs`) | none | read the TOML file | — |

How they interact:

- The *accept loop* of the process starts the three tasks of a neighbor on its
  first connection; later connections go through the neighbor's channel
  (`TcpEstablished`), which also carries the routes to announce.
- The *neighbor loop* reads the stream without the neighbor's mutex and takes it
  to generate events. The *timer loop* generates events once a second. Each
  event is pushed on `events` and a token is put in a watcher channel of
  capacity 5 (`try_send().unwrap()`).
- The *event loop* wakes for one token, takes the mutex and handles every event
  there is. A handler may send a `DropTCP` to the neighbor loop (capacity 1, it
  waits), or a message and then a token to the process (capacity 65535 and 1).
- The *receive loop* of the process wakes for a token and visits every
  neighbor's channel, holding the mutex of all channels, and that of the
  process while it applies a message.

Hard behaviour: four tasks per neighbor share one mutex and wait for channels
while they hold it; state is read before an `await` and used after it; a dropped
connection and its successor overlap in channels and buffers; timers, closed
connections and messages race; lengths come from the peer and index a buffer.
`PROJECT.json` lists each hazard at its line with
the properties about it.

## 2. The modules

| module | models | composes |
|---|---|---|
| `NeighborFSM` | `handle_event` and the timers: one operator per arm or group of arms | |
| `NeighborSession` | the three tasks of one neighbor, its peer and the process as it sees them | extends `NeighborFSM`: `ELHandle` is `Handle` for the head of the queue |
| `Keepalives` | the FSM in time: durations, a check every second, silence of either side | extends `NeighborFSM`: `HandleEvent` is `Handle` and what it does to the time left |
| `RouteMailbox` | abstract: each message is applied once, in order, eventually | |
| `ProcessRib` | accept loop, receive loop, tables, channels, neighbors reduced to their messages | implements `RouteMailbox` |
| `BestPath` | the scan and the four comparisons | its result is dropped in the code, so nothing uses it |
| `Framing` | the loop over the bytes of a read | its effect on reads is `Extracted` in `NeighborSession` |
| `Octets` | bytes of a read, the octets of a prefix | |
| `UpdateDecoder` | `extract_update_message`, one step per iteration of its loops | extends `Octets` |
| `UpdateEncoder` | the bytes of our Update; the standard encoding, as the reference | extends `Octets` |
| `OpenCodec` | Open and Notification in both directions, the capabilities | extends `UpdateEncoder` |
| `Messages` | successive sessions of a neighbor and a standard peer, byte by byte | extends `OpenCodec`, `UpdateDecoder` |
| `*Proofs` | the theorems about the module of that name | |
| `MC*` | the sets the configurations use | |

### Correspondence and abstractions

**NeighborFSM.** `state`, `connect_retry_counter`, `hold_time` are the fields of
`FSM`; `timers` the five `Timer`s, each off (`None`), on, or due (elapsed). A
handler holds the mutex to its end, so `Handle(e, w)` is one step; `w` is the
outcome of the write it may try (there is no stream, it fails, it succeeds), and
`out` what it hands to others. `Restart` starts timers for positive times, as all
of the code's starts are but one, for which `Armed` lets 0 be due at once.
Durations are left to `Keepalives`: any running timer may elapse at any time.
`damp_peer_oscillations` is false and its branches are TODOs. The AS check of
OpenSent only concerns `AS::AS2` neighbors, which the program never creates.
`FSM::default()` is what `Neighbor::new` really uses: it builds an FSM with the
configured hold time and drops it (`neighbors.rs` 158-165).

**NeighborSession.** `nl_pc`, `el_pc`, `tl_pc` are the places where a task may be
interrupted. The neighbor loop and the timer loop never wait inside a critical
section, so each is one step, enabled when the event loop does not drain. The
event loop keeps the mutex from its first event to its last and may wait inside:
`ELHandle` is enabled when the channel its handler sends to has room.
`generate_event` on a full watcher channel ends the task (`dead`) with its locals;
tokio's mutex is not poisoned, the other tasks go on. `opened` and `condemned` are
history variables. A read of several messages is reduced to what the framing and
`parse_packet_type` leave of it; messages cut by a read are in `Framing` only. An
Update carries what the handler tells apart: routes, withdrawals, an NLRI
without attributes, neither. The process answers a `NeighborUp` with some number
of routes.

**ProcessRib.** A path is the neighbor it came from, an NLRI a model value. A
withdrawal or an Update names one prefix at a time. What a neighbor does is
reduced to: come up and go down, send a message and then its token (with its
mutex, so that `TakeItem` waits), take an item. `refused` and `applied` are
histories.

**BestPath.** The attributes compared, with `Unset` for `None`; whether our AS is
in an external path is an input (`own_as`), with the error of `to_u16` on a
4-byte AS.

**Framing.** A byte is a marker byte, a length byte or something else: bodies
hold no marker, and a length is at least that of a header and below 255 * 256,
so that its first byte is not one of a marker: the protocol's messages have 4096
bytes at most. A marker has two bytes or more (16 in the code).

**Keepalives.** `left` is the time to the end of each running timer, and `Tick` a
second. `Started` says which timers a handler starts, `Duration` for how long:
the constants of `FSM`, 240 seconds in OpenSent, the agreed hold time after. A
timer is looked at once a second and later when the loop is late (`MaxUnchecked`).
What is queued is handled within the second (`Tick` needs an empty queue), and
channels have room: where the tasks wait for each other is the matter of
`NeighborSession`. `silence`, `since`, `postponed`, `late` and `left_over` are
histories; `Note` keeps them. A peer is `late` when it let the hold timer run out
in this session, or when the session began with an expiration of that timer,
from an attempt before, in the queue.

**Octets, UpdateDecoder, UpdateEncoder, OpenCodec.** Buffers are sequences of
octets, indexed from 0 as in the code. `get(..n).is_some()` is `Has`, an index or
a slice past the end and a match without an arm a panic. The decoder has the
variables of the function (`current_idx`, `pa_idx`, what was extracted) and a
step per iteration; the encoders and `extract_open_message` are operators. An AS
number is its octets. The flags of a received attribute and the data of a
Notification are stored by the code and never looked at; they are left out.

**Messages.** The peer encodes by the standard (`StandardMessage`,
`StandardOpen`: RFC 4271, 6793), with four octets per AS number when both Opens
offered it. A session is down, up or stranded. Messages of a read are found as by
`Framing` and parsed from the whole buffer. A panic in the neighbor loop is the
`pc` "panic", one in the event loop `event_loop` = "dead". `MessagesConstants`
says what the constants are: configured families the program knows, octets that
are octets, a peer's parameters no longer than the octet that counts them, NLRI
that `NLRI::new` makes, routes with an AS path that is not empty, and reads of what
a conforming peer may write (`PeerMessage`): prefixes without octets past their
mask, attributes of at most 255 octets of data in messages of at most 4096, NLRI
only with attributes, Notifications with the codes 1 to 6.

### Not modelled

Configuration and `main.rs` (I/O), error and data types. In the codecs: the
withdrawn routes that `UpdateMessage::convert_to_bytes` could write (no caller has
any), `route_refresh.rs` (an empty type). Route refresh and collision detection are
not implemented by the program; the arms of `handle_event` for their events are.

## 3. The runs

Run a configuration with `tlc -config <run>.cfg <module>`. Each property of a
passing run is challenged by a mutated definition (`PROJECT.json`, "mutants"; it
stands beside the original, marked `Mutant`).

| run | module | shows |
|---|---|---|
| `fsm` | `MCNeighborFSM` | the FSM under every variant of `Event`, in any order, with delayed open and active establishment (the program's own configuration is in the session runs; the proofs cover all) |
| `session_safety` | `MCNeighborSession` | two successive connections, three messages, a timer expiration, a route: all interleavings (5.0 million states) |
| `session_liveness` | | one connection, three messages, one expiration: queued events are handled, closed sessions end, a DropTCP is taken (0.4 million states) |
| `keepalives` | `MCKeepalives` | hold times of none, 1 and 5 seconds, keepalives every 2, checks up to 2 seconds apart, a peer that sends, closes and returns (3.0 million states) |
| `messages` | `MCMessages` | two successive sessions, every combination of 5 configurations, 7 Opens, 40 reads and 10 routes: what is accepted was sent, what may be refused or panic, when our bytes and widths are right |
| `rib` | `MCProcessRib` | two configured neighbors and a stranger, two prefixes, four messages, channels of capacity 2 that fill: what neighbors announce reaches the process, once, in order, eventually |
| `best_path` | `MCBestPath` | all lists of up to three paths: the comparisons are strict weak orders, for which three paths suffice |
| `framing` | `MCFraming` | all reads of one to four messages with bodies of 0 to 2 bytes, cut anywhere in the last, a marker of three bytes: only messages of the read are found, and the loop ends |

The runs that end in a violation check one statement of the code or the README
each:

| run | the statement | what happens |
|---|---|---|
| `session_panic` | the watcher channel has room (`unwrap`) | a closed connection fills it: the task panics |
| `session_circular_wait` | neighbors resume | two DropTCP in one drain: event loop and neighbor loop wait for each other |
| `session_resume` | "Resuming of neighbors after they go down" | Idle ignores the new connection's TcpCRAcked; `NLRoutes` may also drop the stream |
| `rib_full_channel` | "Sending routes" | a table longer than the channel stops process and neighbor |

**Other observations.** While modelling, these came up as well. They are what the
definitions named do, as the code does it. No property asks for them: the
properties leave these cases out, or bound what may come of them. Sessions and timers:

- a session can be established on a connection that is about to be dropped: the
  retry timer expires in Connect as a new connection comes in, the DropTCP it sends
  is meant for no connection or an older one, and the Open goes out before the
  neighbor loop takes it. The new connection is dropped, and the state machine
  stays in a session without one until its hold timer expires, or for ever with a
  hold time of 0; no event tells it. `condemned` marks these sessions,
  `SessionOnOneConnection`, `EstablishedByItsOwnPeer` and `ClosedSessionEnds` are
  about the others;
- the KeepAlive that establishes a session starts the hold timer even for a hold
  time of 0, when it is due at once (`OpenConfirmKeepAliveMsg`, `neighbors.rs` 953;
  the comment at 1112 says "hold_time is 0, skipping");
- an expiration of the keepalive timer in OpenConfirm sends nothing, received
  Updates postpone our Keepalives (`postponed`) and do not restart the hold timer
  (`StartedEstablished`), and `keepalive_time` is 30 for every hold time;
- hold and keepalive timers left by an attempt that failed in OpenSent or
  OpenConfirm end later attempts (`left_over`), and a failed write of the Open
  leaves Active without a timer (`OnlyAFailedOpenStrands`);
- a session given up in OpenConfirm because of an Update and seven other events
  keeps its TCP connection (`OpenConfirmQuietFailures`), although the arms say
  "drop TCP conn" (`neighbors.rs` 966);
- an Open with a hold time of 1 or 2 seconds is accepted (`OpenSentOpenMsg`),
  although `messages/open.rs` 227 says "either 0 or at least 3 sec";
- the two readers of a neighbor's channel drop each other's items (`NLStream`
  drops a route, `NLRoutes` a stream).

Process:

- only the first configured neighbor is ever accepted (`Validated`);
- a withdrawal is applied to `local_rib`, which is always empty, so the path stays
  in `adj_rib_in` and is advertised (`RecvWithdraw`), and the
  configured networks are put in `adj_rib_in` too (`Init`);
- no two paths are ever compared, the last received is kept (`Consider`; the
  comments at `process.rs` 431, 458, 480 and 528 want the best), and
  `compare_route_med` prefers the higher MED (`CompareMed`). The result is not used.

Messages:

- one byte too many is skipped after a message, so that of the messages of a read
  every second is lost (`TakeMessage`, `messages.rs` 222; the comment at 182 wants
  each), and each found is parsed from the first byte of the read (`TakeUpdate`): an
  Open that comes with its Keepalive is refused, a message behind one of another
  type too, and one behind an Update is that Update again. A Notification behind an
  Update is read with its code from the upper octet of the length of the withdrawn
  routes, so it is taken when they have 256 octets or more, and refused otherwise.
  `MessagesOfTheRead`, `AcceptedWasSent` and `RefusedOnly` bound what comes of it;
- of an Update only the first NLRI is read; withdrawals are read as if each took
  five octets (`WithdrawnByFives`); Updates with a type code above 7, an
  End-of-RIB and attributes without NLRI are refused (`Refusable`);
- LOCAL_PREF, withdrawals of short prefixes, and 0.0.0.0/0 at the end of a read end
  the neighbor loop with a panic (`PanicsOnly`);
- of each parameter of an Open the first capability is read, an unknown family
  refuses it (`OpensUnderstood`), an Open without parameters leaves the capabilities
  of the session before (`NegotiatedWith`), and an Open sent from Connect offers those
  (`Offered`); a configured route refresh cannot be encoded (`OpenNotSent`), only
  the first configured family is offered (`Capabilities`), IPv6 as 0x0200
  (`OurCapability`);
- prefixes are cut to 1, 2 or 3 octets by another table than they are read with
  (`SentOctets`), the length of an AS path overflows a `u8` from 64 or 127 AS numbers
  (`AsPathOverflows`, `SendUpdatePanics`), and AS numbers of the other width are
  counted and not written (`OurAsPath`). `UpdatesAreStandard` and `OpensAreStandard`
  are about the routes and configurations without them.

**Bounds.** `MaxMessages`, `MaxElapses`, `MaxRoutes`, `InboxCap` (session),
`MaxQueue`, `Horizon` (keepalives), `MaxSends`, `MaxAccepts` (process), `MaxPaths`,
`MaxMessages`, `MaxBody` (framing), `MaxSessions` (messages). Two connections are
enough for a stale one to meet its successor, and three messages for the first to
end its attempt and the second to become a session; the watcher capacity is
reduced to 2 so that every task can find it full. Three connections (18.5 million
states) and a capacity of 3 pass as well, in 5 minutes each and more. The liveness
run has one connection, whose three messages establish a session and have a handler
ask for the process while the token of the first time is still untaken; routes from
the process are left to `session_safety`. In `keepalives` two events may
wait when one is generated (three pass as well, 17 million states), and `Horizon`
lies beyond every limit the invariants state. Two sessions are enough for one to
find what an earlier negotiated; its messages cover each branch of the codecs.
Four messages of a neighbor let it come up, announce
a route, come up again and wait with one more token while its channel of capacity
2 is full. Only the first configured neighbor can ever run (`Validated`), so in
`rib` the second one only knocks; the theorems about `ProcessRib` hold for any
number of running neighbors, as their proofs do not use `Validated`. Where the
bounded environment stops, `CHECK_DEADLOCK` is off; the waits that the code itself
can get into are stated as properties (`NoCircularWait`, `TableSendNeverStuck`,
the liveness properties).

**Fairness.** tokio runs a task that is ready and serves the waiters of its mutex and
of a bounded channel in order. In `NeighborSession` that is WF for `EventLoop` and SF
for `NeighborLoop`, which asks for the mutex again and again. Nothing is assumed of
the timer loop, the peer or time, and nothing of the process: its receive loop can
stop for ever (`rib_full_channel`), so `ProcReceive` may. In `ProcessRib` it is WF for
`RecvLoop` and SF for `SendToken`, and nothing of when a neighbor takes what the
process sent. `Framing` is one loop that runs; `BestPath`, `Keepalives` and `Messages`
are checked for safety only.

The liveness properties are stated up to the ways in which the code really stops:
`EventsHandled` up to `CircularWait`, `ClosedSessionEnds` up to a dead neighbor
loop and a condemned session, `DropIsTaken` up to `CircularWait` and the wait of the
neighbor loop for a silent peer, and each of the three up to `[]WaitsForProcess`, a
process that takes no token any more; `SenderUnblocks` and `AppliedEventually` up to a
full channel. Runs of their own show that the circular wait, the dead loop and the
full channel are reached, and with three messages and one expiration a condemned
session is.

## 4. The proofs

`tlapm <module>` checks each. The assumptions are the `ASSUME`s on the constants.

- **`NeighborFSMProofs`**: `FSMInv` = types, `CounterDiscipline` and
  `SessionWatched`. It is inductive as it stands: the counter is 0 outside Idle
  because each failure path increments once and ends in Idle, where a start
  resets it; a session state is entered only by arms that start its timers. One
  lemma per state, on top of lemmas about `Stop`, `Restart` and the ways a
  handler ends. `SessionsEndCleanly` and `HoldTimeIsARatchet` are action
  properties from the same case split.
- **`NeighborSessionProofs`**: `QueueInv` strengthens `EventsBounded` and
  `NoLostWakeup` with the types of the queue and the token count; one token may
  pay for many events, so the count of events is bounded by the tokens left plus
  the one being served, and the loop asks for a token only with an empty queue.
  `HalvesInv` says what each place of the neighbor loop knows about the two
  halves. With it `SessionOnOneConnection` is inductive: the loop takes a stream
  only when it has none, so a session that began on both halves, with no DropTCP
  waiting, keeps them until a handler sends one, and no handler does so and stays
  in the session. `SessionTypeOK` needs `FSMInv`, which the queue preserves.
  `EstablishedByItsOwnPeer` is about events of successive connections that share
  the queue; `StrayInv` says which ones may: behind the TcpCRAcked of a connection
  waits at most one message of another (`BehindAcked`), because a stream taken
  while a DropTCP waits is read once before the neighbor loop comes to the DropTCP,
  and a read leaves one message. That message may open the session, or end it; past
  OpenSent, what is queued is the session's own (`InUncondemned`).
- **`KeepalivesProofs`**: `KeepalivesInv` = `FSMInv`, types, `KeepaliveWatch`,
  `HoldWatch` and `OnlyFailedAttemptsLeaveTimers`, for all durations. The time left
  of a running timer and the history that measures the same time add up to at most
  its duration; one that is due is queued by the next check, which is
  `MaxUnchecked` seconds away at most, and time only passes with an empty queue.
  Each of `PeerHearsUs` and `SilentPeerDropped` is a reading of that sum.
  `NoRetryTimerInSession` is inductive for the events that are generated.
  `LivePeerKept` is the sum from the other side (`LiveInv`): in a session whose
  peer was not late, the hold timer runs for at least what is left of the peer's
  time, and none of its expirations is queued. It is inductive only because `late`
  counts the expirations that wait when the session begins: the code does not
  remove them, and they end it.
- **`ProcessRibProofs`**: types with the channel capacities; `NoStrandedMessage`
  is inductive with them, because a message precedes its token and the token is
  taken before the visits; `RefinesMailbox` maps each step to `Send`, `Apply` or
  a stutter; `AnnouncementsArrive` is inductive by itself, neighbor by neighbor and
  prefix by prefix: the last message about a prefix is behind all others, and taking
  the first of the channel leaves it the last or applies it.
- **`BestPathProofs`**: the comparisons are strict weak orders on any set of routes,
  because each compares two numbers.
- **`OctetsProofs`**: for every mask length, the decoder takes the octets of the
  standard except for the default route, the encoder writes them for eleven masks
  of the 33, and a prefix of the standard is read back wherever it stands in a
  read (`PrefixIsReadBack`). The four ranges of a mask are told apart once, in
  the local lemma `StandardRanges`. Its second half is about sequences joined
  (`FlattenSeq`), on which messages and reads are built: the joined sequence
  exists, has the type of its pieces, and holds each piece where the pieces before
  it end (`FlattenLayout`). The induction this needs is one on sets of numbers, by
  the least number not in the set (`InductionOnNat`), so that no operator is
  passed to a theorem.
- **`FramingProofs`**: `OnlyMessagesAreFound`, for reads of any number of messages of
  any size, cut anywhere in the last. `FramingInv` says where the loop is when it
  has found m messages: at message 2m + 1, skipping the one it just took and the
  first byte of the next, or inside message 2m, whose marker is one byte short. No
  other place of the read looks like a marker, so that nothing but a message is taken
  for one.
- **`MessagesProofs`**: `OpenInv` = `OpensUnderstood` and what the last exchange of
  Opens left. The search for the parameters of an Open (`ParameterIndexes`) finds
  exactly the places where they begin, since they are laid out one after the other
  and each counts its octets (`ParametersLayout`, `IndexesFound`); of each the
  first capability is read (`ParameterRead`). So the negotiation is known in terms
  of what both sides offered, which is `WidthsAgree`. For `OpensAreStandard` and
  `UpdatesAreStandard` the bytes of either side are written as the same parts, one by
  one: each capability (`OneCapability`, `OfferedIsStandard`), the path of AS numbers
  of one width (`PathWritten`), the octets of the prefix (`PrefixWritten`).
  `ReadInv` says where the decoder is in the read, for the other five invariants:
  the fields of the first Update stand at their indexes (`UpdateAt`), the withdrawn
  routes taken are those of as many groups of five octets, and the path attributes
  taken are the meaning of as many attributes of the peer's (`Decoding`). Each
  iteration is a lemma (`DecodeWithdrawn`, `DecodeAttribute`, ...): the attribute at
  the index is found whole, since those before it end there (`AttributesLeft`), and
  its data is read back by type (`PathRead` for AS paths). A message behind the
  first is decoded from the first one's bytes: an Update behind a message of another
  type is refused, as that one is too short (`OtherRefused`). What panics
  is a slice or an index past the end, or a match without an arm; the invariant
  gives for each the reason `PanicsOnly` lists.

Only model-checked: liveness and `ENABLED`, which are out of the prover's reach
(`EventsHandled`, `ClosedSessionEnds`, `DropIsTaken`, `SenderUnblocks`,
`AppliedEventually`, `ScanEnds`, and the runs that end in a violation).

## 5. Plan

Done, in this order: `NeighborFSM`, `NeighborSession`, `RouteMailbox` and
`ProcessRib`, `BestPath`, `Framing`, the codecs and `Messages`, `Keepalives`, and
the proof modules.

Left: an abstract session (down, opening, up on a connection) that
`NeighborSession` implements up to condemned sessions; the strict weak order of the
lexicographic comparison the best path is meant to be.
