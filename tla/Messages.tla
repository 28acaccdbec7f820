------------------------------- MODULE Messages --------------------------------
(***************************************************************************)
(* What a neighbor and its peer say to each other, byte by byte, over      *)
(* successive sessions: the Opens and the capabilities they negotiate      *)
(* (process_optional_parameters, neighbors.rs), the reads of the neighbor  *)
(* loop (process_neighbor_message) and the Updates it sends.               *)
(*                                                                         *)
(* The peer is a speaker of the standard: it encodes as UpdateEncoder and  *)
(* OpenCodec say, and uses AS numbers of four octets when both Opens offer *)
(* them.  The state machine around the messages is NeighborFSM; here a     *)
(* session is down, up, or stranded when our Open could not be sent.       *)
(***************************************************************************)
EXTENDS OpenCodec, UpdateDecoder

CONSTANTS Configs,      \* capabilities_config, see Capabilities in OpenCodec
          PeerOpens,    \* what a peer's Open offers: parameters of capabilities
          Reads,        \* the messages of one read
          Routes,       \* routes of adj_rib_out
          MaxSessions   \* bound: Opens exchanged

Octet == 0..255

\* The capabilities of a peer that OpenCodec encodes, one or more to a parameter, in
\* as many octets as one can count.
PeerCapability ==
  [kind : {"MP"}, value : Octet \X Octet]
    \cup [kind : {"AS4"}, value : [1..4 -> Octet]]
    \cup {[kind |-> "RouteRefresh", value |-> <<>>]}

AsNumber == [1..2 -> Octet] \cup [1..4 -> Octet]

\* What a peer says in a session.  A prefix has no octets past its mask; an attribute
\* has 255 octets at most, and an Update of NLRI has attributes.
PeerPrefix ==
  {n \in [len : 0..32, prefix : [1..4 -> Octet]] :
     \A k \in 1..4 : k > StandardOctets(n.len) => n.prefix[k] = 0}

PeerAttribute ==
  [code : {1}, data : [1..1 -> 0..2]]
    \cup [code : {2}, data : [segment_type : {1, 2}, as_list : Seq(AsNumber)]]
    \cup [code : {3, 4, 5}, data : [1..4 -> Octet]]
    \cup [code : {6}, data : {<<>>}]
    \cup [code : {7}, data : AsNumber \X [1..4 -> Octet]]
    \cup [code : Octet \ 1..7, data : Seq(Octet)]

PeerUpdate ==
  {m \in [type : {"Update"}, withdrawn : Seq(PeerPrefix),
          attributes : Seq(PeerAttribute), nlri : Seq(PeerPrefix)] :
     /\ m.nlri # <<>> => m.attributes # <<>>
     /\ \A width \in {2, 4} :
          /\ Len(StandardUpdate(m, width)) <= MaxMessageLen
          /\ \A k \in DOMAIN m.attributes :
               Len(StandardData(m.attributes[k], width)) <= 255}

PeerMessage ==
  PeerUpdate \cup [type : {"Notification"}, code : 1..6, subcode : Octet]
    \cup [type : {"KeepAlive"}]

\* A route's NLRI is one that NLRI::new makes.  Its AS path is not empty: one of ours
\* has our AS, and a segment of a peer that keeps to the standard has one at least.
ASSUME MessagesConstants ==
  /\ MaxSessions \in Nat \ {0}
  /\ \A c \in Configs : /\ c.families \subseteq Range(Families)
                        /\ c.refreshes \subseteq RouteRefreshKinds
                        /\ c.as4 = <<>> \/ c.as4 \in [1..4 -> Octet]
  /\ \A o \in PeerOpens : /\ o \in Seq(Seq(PeerCapability) \ {<<>>})
                          /\ Len(Each(StandardParameter, o)) <= 255
  /\ Reads \subseteq Seq(PeerMessage) \ {<<>>}
  /\ \A r \in Routes : /\ r.nlri.len \in 1..32 /\ r.nlri.prefix \in [1..4 -> Octet]
                       /\ r.as_list \in Seq(AsNumber) /\ r.as_list # <<>>
                       /\ r.origin \in Octet /\ r.segment_type \in Octet
                       /\ r.next_hop \in [1..4 -> Octet]

VARIABLES config,      \* the process's configuration
          negotiated,  \* negotiated_capabilities: None (<<>>) or Some (<<caps>>)
          session,     \* "down", "up", or "stranded"
          opening,     \* history: the last exchange of Opens
          sessions,
          sent,        \* the messages of the read in progress
          position,    \* the one that is processed
          ours,        \* history: the Update just sent, if any
          event_loop   \* "runs", or "dead" after a panic

sessionVars == <<config, negotiated, session, opening, sessions>>
readVars == <<decoderVars, sent, position>>
messagesVars == <<sessionVars, readVars, ours, event_loop>>

configured == Capabilities(config)
OurWidth == AsWidth(negotiated)

NoOpening == [from |-> "none", offered |-> <<>>, peer |-> <<>>,
              trailing |-> FALSE, result |-> "none", read |-> <<>>]

\* The width the peer uses: both sides offered AS4 in this session.
PeerWidth ==
  IF AsWidth(opening.offered) = 4 /\ AsWidth(<<FlattenSeq(opening.peer)>>) = 4
  THEN 4 ELSE 2

MessagesInit ==
  /\ config \in Configs
  /\ negotiated = <<>> /\ session = "down"
  /\ opening = NoOpening /\ sessions = 0
  /\ tsbuf = <<>> /\ pc = "idle" /\ current_idx = 0 /\ pa_idx = 0
  /\ withdrawn_routes = <<>> /\ path_attributes = <<>> /\ nlri = <<>>
  /\ sent = <<>> /\ position = 0
  /\ ours = <<>> /\ event_loop = "runs"

-----------------------------------------------------------------------------
(* Sessions                                                                *)

\* The parameters of our Open: in Active those configured, in Connect those
\* negotiated in an earlier session.
Offered(from) ==
  CASE from = "Connect" -> negotiated
    [] from = "Active" -> IF configured = <<>> THEN <<>> ELSE <<configured>>

CapabilitiesOf(optional) == IF optional = <<>> THEN <<>> ELSE optional[1]

\* process_optional_parameters: of ours those the peer has the kind of.  An Open
\* without parameters changes nothing.
\* Mutant: what was negotiated before is kept.
NegotiatedKeeping(parameters) ==
  LET Ours(c) == LET Same(b) == b.kind = c.kind IN Select(Same, configured)
  IN  IF parameters = <<>> THEN negotiated
      ELSE <<CapabilitiesOf(negotiated) \o Each(Ours, parameters[1])>>

NegotiatedWith(parameters) ==
  LET Ours(c) == LET Same(b) == b.kind = c.kind IN Select(Same, configured)
  IN  IF parameters = <<>> THEN negotiated ELSE <<Each(Ours, parameters[1])>>

\* Mutant: a session ends in the midst of a read.
MayEndAnytime == session = "up"

\* The neighbor's mutex is held while a read is processed.
MayEnd == session = "up" /\ pc = "idle"

\* The Open cannot be written: the handler returns, the state stays.
OpenNotSent(from) ==
  /\ session = "down" /\ sessions < MaxSessions /\ event_loop = "runs"
  /\ ~Encodes(CapabilitiesOf(Offered(from)))
  /\ session' = "stranded"
  /\ UNCHANGED <<config, negotiated, opening, sessions, readVars, ours,
                 event_loop>>

\* Both Opens are exchanged.  The peer's may come with its Keepalive in one read.
ExchangeOpens(from, peer, trailing) ==
  LET buf == StandardOpen(peer)
               \o IF trailing THEN Header(4, MinMessageLen) ELSE <<>>
      parameters == IF OpenError(buf) THEN <<>> ELSE ExtractedParameters(buf)
  IN
  /\ session = "down" /\ sessions < MaxSessions /\ event_loop = "runs"
  /\ Encodes(CapabilitiesOf(Offered(from)))
  /\ sessions' = sessions + 1
  /\ opening' = [from |-> from, offered |-> Offered(from), peer |-> peer,
                 trailing |-> trailing, read |-> parameters,
                 result |-> IF OpenError(buf) THEN "error" ELSE "ok"]
  /\ session' = IF OpenError(buf) THEN "down" ELSE "up"
  /\ negotiated' = IF OpenError(buf) THEN negotiated
                   ELSE NegotiatedWith(parameters)
  /\ UNCHANGED <<config, readVars, ours, event_loop>>

SessionDown ==
  /\ MayEnd
  /\ session' = "down"
  /\ opening' = NoOpening
  /\ ours' = <<>>
  /\ UNCHANGED <<config, negotiated, sessions, readVars, event_loop>>

-----------------------------------------------------------------------------
(* Reads.  The framing finds every second message of a read (Framing); each *)
(* is known by its own type and read from the whole buffer.                 *)

PeerSends(messages) ==
  LET Message(m) == StandardMessage(m, PeerWidth) IN
  /\ session = "up" /\ pc = "idle"
  /\ sent' = messages
  /\ position' = 1
  /\ tsbuf' = Each(Message, messages)
  /\ pc' = "next"
  /\ ours' = <<>>
  /\ UNCHANGED <<sessionVars, current_idx, pa_idx, extracted, event_loop>>

MessageFound(type) == pc = "next" /\ sent[position].type = type

TakeUpdate ==
  /\ MessageFound("Update")
  /\ StartExtract
  /\ UNCHANGED <<sessionVars, tsbuf, sent, position, ours, event_loop>>

TakeNotification ==
  /\ MessageFound("Notification")
  /\ pc' = IF NotificationError(tsbuf) THEN "error" ELSE "ok"
  /\ UNCHANGED <<sessionVars, tsbuf, current_idx, pa_idx, extracted, sent,
                 position, ours, event_loop>>

TakeKeepAlive ==
  /\ MessageFound("KeepAlive")
  /\ pc' = "ok"
  /\ UNCHANGED <<sessionVars, tsbuf, current_idx, pa_idx, extracted, sent,
                 position, ours, event_loop>>

Extract ==
  /\ Extracting
  /\ ExtractStep(OurWidth)
  /\ UNCHANGED <<sessionVars, sent, position, ours, event_loop>>

\* On to the next message found, or to the next read.
NextMessage ==
  /\ pc \in {"ok", "error"}
  /\ IF position + 2 <= Len(sent)
     THEN position' = position + 2 /\ pc' = "next" /\ UNCHANGED <<tsbuf, sent>>
     ELSE position' = 0 /\ pc' = "idle" /\ tsbuf' = <<>> /\ sent' = <<>>
  /\ current_idx' = 0 /\ pa_idx' = 0
  /\ withdrawn_routes' = <<>> /\ path_attributes' = <<>> /\ nlri' = <<>>
  /\ UNCHANGED <<sessionVars, ours, event_loop>>

-----------------------------------------------------------------------------
(* Updates of ours (SendUpdateMsg), one per route of adj_rib_out.          *)

Sendable == session = "up" /\ pc = "idle" /\ event_loop = "runs"

SendUpdate(route) ==
  /\ Sendable
  /\ ours' = <<[route |-> route, width |-> OurWidth, peer_width |-> PeerWidth,
                bytes |-> OurUpdate(route, OurWidth)]>>
  /\ UNCHANGED <<sessionVars, readVars, event_loop>>

SendUpdatePanics(route) ==
  /\ Sendable
  /\ AsPathOverflows(route.as_list, OurWidth)
  /\ event_loop' = "dead"
  /\ ours' = <<>>
  /\ UNCHANGED <<sessionVars, readVars>>

MessagesNext ==
  \/ \E from \in {"Active", "Connect"} :
       \/ OpenNotSent(from)
       \/ \E peer \in PeerOpens, trailing \in BOOLEAN :
            ExchangeOpens(from, peer, trailing)
  \/ SessionDown
  \/ \E messages \in Reads : PeerSends(messages)
  \/ TakeUpdate \/ TakeNotification \/ TakeKeepAlive
  \/ Extract
  \/ NextMessage
  \/ \E route \in Routes : SendUpdate(route) \/ SendUpdatePanics(route)

MessagesSpec == MessagesInit /\ [][MessagesNext]_messagesVars

-----------------------------------------------------------------------------
(* Properties                                                              *)

MessagesTypeOK ==
  /\ config \in Configs
  /\ Len(negotiated) <= 1
  /\ session \in {"down", "up", "stranded"}
  /\ sessions \in 0..MaxSessions
  /\ pc \in {"idle", "next", "lengths", "withdrawn", "attributes"} \cup Results
  /\ current_idx \in Nat /\ pa_idx \in Nat
  /\ position \in 0..Len(sent)
  /\ pc = "idle" <=> position = 0
  /\ session # "up" => pc = "idle"
  /\ event_loop \in {"runs", "dead"}

Processed == position # 0 /\ sent[position].type = "Update"
First == sent[1]
WithdrawnOctets == Len(Each(StandardPrefix, First.withdrawn))

\* What the attributes of an Update mean to a reader that knows their width: an
\* attribute without data means nothing, of AS numbers the peer's width counts.
Meaning(attributes, width) ==
  LET Octets(list) == [k \in DOMAIN list |-> AsOctets(list[k], width)]
      Value(a) ==
        CASE a.code = 1 -> a.data[1]
          [] a.code = 2 -> [a.data EXCEPT !.as_list = Octets(@)]
          [] a.code = 7 -> <<AsOctets(a.data[1], width), a.data[2]>>
          [] a.code \notin {1, 2, 7} -> a.data
      Read(a) == IF StandardData(a, width) = <<>> THEN <<>>
                 ELSE <<[code |-> a.code, data |-> Value(a)]>>
  IN  Each(Read, attributes)

\* What is accepted as an Update was sent, in one Update of the read that is not
\* behind the one processed: the prefix taken is one of its NLRI, and the attributes
\* are all of its own, with their meaning when both sides use AS numbers of one width.
\* No prefix is made up of octets of two fields, and no attributes are put to the
\* prefix of another Update (extract_update_message).
AcceptedWasSent ==
  Processed /\ pc = "ok" =>
    \E k \in 1..position :
      /\ sent[k].type = "Update"
      /\ Range(nlri) \subseteq Range(sent[k].nlri)
      /\ OurWidth = PeerWidth =>
           path_attributes = Meaning(sent[k].attributes, PeerWidth)

HostRoutes(routes) == \A k \in DOMAIN routes : StandardOctets(routes[k].len) = 4

\* Withdrawn routes are read as if each took five octets: lists of prefixes longer
\* than 24 bits are read whole, of others that are accepted the first is right,
\* and a list of less than five octets is not seen at all.
WithdrawnByFives ==
  Processed /\ pc = "ok" =>
    LET list == First.withdrawn IN
    /\ HostRoutes(list) => withdrawn_routes = list
    /\ WithdrawnOctets >= 5 /\ list[1].len > 0 => withdrawn_routes[1] = list[1]
    /\ WithdrawnOctets < 5 => withdrawn_routes = <<>>

HasAttribute(codes) ==
  \E k \in DOMAIN First.attributes : First.attributes[k].code \in codes

\* What ends the neighbor loop: an Update of a conforming peer with LOCAL_PREF, as
\* every internal peer sends; one that withdraws a prefix of 24 bits or less beside
\* others; the default route, whose missing octet may lie past the end of the read;
\* one with AS numbers, when the two sides do not agree on their width.
PanicsOnly ==
  pc = "panic" =>
    /\ First.type = "Update"
    /\ \/ HasAttribute({5})
       \/ Len(First.withdrawn) > 1 /\ ~HostRoutes(First.withdrawn)
       \/ First.nlri # <<>> /\ First.nlri[1].len = 0
       \/ HasAttribute({2, 7}) /\ OurWidth # PeerWidth

\* Of a conforming peer's messages no others are refused than those read from the
\* bytes of one of another type, Updates with a type code above 7, and Updates without
\* NLRI unless they only withdraw, five octets or more (extract_update_message,
\* extract_notification_message).
Refusable ==
  \/ HasAttribute(Nat \ 1..7)
  \/ First.nlri = <<>> /\ ~(WithdrawnOctets >= 5 /\ First.attributes = <<>>)

ReadAsAnother == First.type # sent[position].type

RefusedOnly == pc = "error" => ReadAsAnother \/ (Processed /\ Refusable)

\* An Open is refused only for a family we do not know or when the Keepalive came
\* with it, and of each parameter of one that is accepted the first capability is
\* read (extract_open_message).
KnownCapability(c) == c.kind = "MP" => c.value \in Range(Families)
FirstCapability(p) ==
  IF Head(p).kind \in {"MP", "AS4"} THEN <<Head(p)>> ELSE <<>>
OpensUnderstood ==
  /\ opening.result = "error" =>
       \/ opening.trailing
       \/ \E k \in DOMAIN opening.peer : ~KnownCapability(Head(opening.peer[k]))
  /\ opening.result = "ok" =>
       opening.read = IF opening.peer = <<>> THEN <<>>
                      ELSE <<Each(FirstCapability, opening.peer)>>

\* Both sides use AS numbers of one width, in every session: when our Open was
\* sent from Active, and the peer's has parameters, of one capability each.
\* Otherwise what was negotiated in an earlier session, or what the Open sent from
\* Connect left out, makes them differ.
WidthsAgree ==
  session = "up" /\ opening.from = "Active" /\ opening.peer # <<>>
    /\ (\A k \in DOMAIN opening.peer : Len(opening.peer[k]) = 1)
  => OurWidth = PeerWidth

\* The Update we send is the standard encoding of the route, in the width the peer
\* uses, when its mask ends where the encoder cuts, both sides use one width, and its
\* AS numbers have it and fit the length (SendUpdateMsg, convert_to_bytes).
UpdatesAreStandard ==
  \A k \in DOMAIN ours :
    LET u == ours[k] IN
    /\ u.route.nlri.len \in 1..8 \cup {16, 24, 32}
    /\ u.width = u.peer_width
    /\ \A j \in DOMAIN u.route.as_list : Len(u.route.as_list[j]) = u.width
    /\ ~AsPathOverflows(u.route.as_list, u.width)
    => u.bytes = StandardMessage(RouteUpdate(u.route), u.peer_width)

\* An Open sent from Active offers the configuration, in the standard encoding, when
\* it has at most one family, of IPv4 (OpenMessage::convert_to_bytes).
OpensAreStandard ==
  opening.from = "Active" =>
    LET Family(f) == f \in config.families
        AllFamilies == Select(Family, Families)
        parameters ==
          [k \in DOMAIN AllFamilies |-> <<MP(AllFamilies[k][1], AllFamilies[k][2])>>]
            \o IF config.as4 = <<>> THEN <<>> ELSE << <<AS4(config.as4)>> >>
    IN  Len(AllFamilies) <= 1 /\ (\A f \in config.families : f[1] = 1) =>
          OurOpen(CapabilitiesOf(opening.offered)) = StandardOpen(parameters)

=============================================================================
