----------------------------- MODULE UpdateEncoder -----------------------------
(***************************************************************************)
(* Messages as bytes.  Ours: the Update of one route, as SendUpdateMsg     *)
(* (neighbors.rs) builds it and UpdateMessage::convert_to_bytes            *)
(* (messages/update.rs) writes it.  The peer's: the standard encoding, the *)
(* reference for both directions.                                          *)
(*                                                                         *)
(* An AS number is its 2 or 4 octets (AS::AS2, AS::AS4).  A message is     *)
(* [type, ...]; an Update has withdrawn routes, attributes and NLRI.       *)
(***************************************************************************)
EXTENDS Octets, SequencesExt

Each(F(_), s) == FlattenSeq([k \in DOMAIN s |-> F(s[k])])

\* SelectSeq with its arguments as Each has them, and as a joined sequence.
Select(P(_), s) ==
  FlattenSeq([k \in DOMAIN s |-> IF P(s[k]) THEN <<s[k]>> ELSE <<>>])

-----------------------------------------------------------------------------
(* The standard encoding.                                                  *)

AsTrans == <<91, 160>>

AsOctets(as, width) ==
  CASE Len(as) = width -> as
    [] Len(as) = 2 /\ width = 4 -> <<0, 0>> \o as
    [] Len(as) = 4 /\ width = 2 ->
         IF as[1] = 0 /\ as[2] = 0 THEN SubSeq(as, 3, 4) ELSE AsTrans

StandardData(a, width) ==
  LET Octets(as) == AsOctets(as, width) IN
  CASE a.code = 2 /\ a.data.as_list = <<>> -> <<>>
    [] a.code = 2 /\ a.data.as_list # <<>> ->
         <<a.data.segment_type, Len(a.data.as_list)>>
           \o Each(Octets, a.data.as_list)
    [] a.code = 7 -> Octets(a.data[1]) \o a.data[2]
    [] a.code \notin {2, 7} -> a.data

AttributeFlags(code) ==
  CASE code \in {1, 2, 3, 5, 6} -> 64
    [] code = 4 -> 128
    [] OTHER -> 192

StandardAttribute(a, width) ==
  LET data == StandardData(a, width)
  IN  <<AttributeFlags(a.code), a.code, Len(data)>> \o data

StandardPrefix(n) == <<n.len>> \o SubSeq(n.prefix, 1, StandardOctets(n.len))

StandardUpdate(m, width) ==
  LET Attribute(a) == StandardAttribute(a, width)
      withdrawn == Each(StandardPrefix, m.withdrawn)
      attributes == Each(Attribute, m.attributes)
      body == U16(Len(withdrawn)) \o withdrawn
                \o U16(Len(attributes)) \o attributes
                \o Each(StandardPrefix, m.nlri)
  IN  Header(2, MinMessageLen + Len(body)) \o body

StandardMessage(m, width) ==
  CASE m.type = "Update" -> StandardUpdate(m, width)
    [] m.type = "Notification" -> Header(3, 21) \o <<m.code, m.subcode>>
    [] m.type = "KeepAlive" -> Header(4, MinMessageLen)

-----------------------------------------------------------------------------
(* Our Update of one route.                                                *)

Transitive == 64

\* new_as_path computes this length in a u8: in a build with overflow checks it
\* panics, in one without it wraps.
AsPathLen(as_list, width) == 2 + Len(as_list) * width
AsPathOverflows(as_list, width) == AsPathLen(as_list, width) > 255

\* AsPath::to_u8_vec is an Err, and the attribute is left out, when an AS is not
\* of the negotiated width: the conversion in new_as_path has no effect.
OurAsPath(route, width) ==
  IF \A k \in DOMAIN route.as_list : Len(route.as_list[k]) = width
  THEN <<Transitive, 2, AsPathLen(route.as_list, width) % 256,
         route.segment_type, Len(route.as_list)>> \o FlattenSeq(route.as_list)
  ELSE <<>>

\* Mutant: every AS number is counted as two octets.
OurAttributesLenByTwo(route, width) ==
  4 + (5 + Len(route.as_list) * 2) + 7

\* pa_len: the sum of the attributes' pa_data_len, the one left out included.
OurAttributesLen(route, width) ==
  4 + (5 + Len(route.as_list) * width) + 7

OurUpdate(route, width) ==
  LET attributes == <<Transitive, 1, 1, route.origin>>
                      \o OurAsPath(route, width)
                      \o <<Transitive, 3, 4>> \o route.next_hop
      prefix == <<route.nlri.len>>
                  \o SubSeq(route.nlri.prefix, 1, SentOctets(route.nlri.len))
  IN  Header(2, 23 + Len(attributes) + Len(prefix)) \o U16(0)
        \o U16(OurAttributesLen(route, width)) \o attributes \o prefix

\* What that Update is meant to say.
RouteUpdate(route) ==
  [type |-> "Update", withdrawn |-> <<>>, nlri |-> <<route.nlri>>,
   attributes |-> <<[code |-> 1, data |-> <<route.origin>>],
                    [code |-> 2, data |-> [segment_type |-> route.segment_type,
                                           as_list |-> route.as_list]],
                    [code |-> 3, data |-> route.next_hop]>>]

=============================================================================
