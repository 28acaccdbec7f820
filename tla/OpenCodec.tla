------------------------------- MODULE OpenCodec -------------------------------
(***************************************************************************)
(* Open messages as bytes: extract_open_message and                        *)
(* OpenMessage::convert_to_bytes (messages/open.rs), the capabilities      *)
(* (messages/optional_parameters.rs) and Notifications                     *)
(* (messages/notification.rs).                                             *)
(*                                                                         *)
(* A capability is a kind with its octets: of an MP capability the address *)
(* family and its sub-family, of AS4 the AS number, else none.             *)
(***************************************************************************)
EXTENDS UpdateEncoder

MP(afi, safi) == [kind |-> "MP", value |-> <<afi, safi>>]
AS4(as) == [kind |-> "AS4", value |-> as]
RouteRefreshKinds ==
  {"RouteRefreshPreStandard", "RouteRefresh", "EnhancedRouteRefresh"}

\* MPExtVal; of the configured families the first is offered.
Families == << <<1, 1>>, <<1, 2>>, <<1, 128>>, <<2, 1>>, <<2, 2>>, <<2, 128>> >>

\* OptionalParameters::new for a configuration: families, route refreshes and
\* the AS number when extended_4byte_asn is set.
Capabilities(config) ==
  LET Family(f) == f \in config.families
      Refresh(r) == r \in config.refreshes
      configured == Select(Family, Families)
      refreshes == Select(Refresh, <<"RouteRefreshPreStandard", "RouteRefresh",
                                     "EnhancedRouteRefresh">>)
  IN  (IF configured = <<>> THEN <<>>
       ELSE <<MP(Head(configured)[1], Head(configured)[2])>>)
        \o [k \in DOMAIN refreshes |-> [kind |-> refreshes[k], value |-> <<>>]]
        \o IF config.as4 = <<>> THEN <<>> ELSE <<AS4(config.as4)>>

\* is_4byte_asn_capability_present, in a vector that may be None (<<>>).
AsWidth(optional) ==
  IF optional # <<>> /\ \E k \in DOMAIN optional[1] : optional[1][k].kind = "AS4"
  THEN 4 ELSE 2

-----------------------------------------------------------------------------
(* Writing.                                                                *)

\* What comes before the optional parameters: version, AS, hold time, identifier.
OpenBody == <<4, 0, 1, 0, 180, 10, 0, 0, 1>>

OpenBytes(parameters) ==
  Header(1, 29 + Len(parameters)) \o OpenBody \o <<Len(parameters)>> \o parameters

\* Capability::convert_to_bytes is an Err for the route refreshes, and the Open
\* is not sent.
Encodes(capabilities) ==
  \A k \in DOMAIN capabilities : capabilities[k].kind \notin RouteRefreshKinds

\* Mutant: the length of the parameter leaves out the capability's code and length.
OurCapabilityDataOnly(c) ==
  IF c.kind = "AS4" THEN <<2, 4, 65, 4>> \o c.value
  ELSE <<2, 4, 1, 4>> \o (IF c.value[1] = 1 THEN <<0, 1>> ELSE <<2, 0>>)
         \o <<0, c.value[2]>>

OurCapability(c) ==
  IF c.kind = "AS4" THEN <<2, 6, 65, 4>> \o c.value
  ELSE <<2, 6, 1, 4>> \o (IF c.value[1] = 1 THEN <<0, 1>> ELSE <<2, 0>>)
         \o <<0, c.value[2]>>

OurOpen(capabilities) == OpenBytes(Each(OurCapability, capabilities))

\* The standard encoding: parameters of one or more capabilities each.
StandardCapability(c) ==
  CASE c.kind = "MP" -> <<1, 4, 0, c.value[1], 0, c.value[2]>>
    [] c.kind = "AS4" -> <<65, 4>> \o c.value
    [] c.kind = "RouteRefresh" -> <<2, 0>>

StandardParameter(capabilities) ==
  LET octets == Each(StandardCapability, capabilities)
  IN  <<2, Len(octets)>> \o octets

StandardOpen(parameters) == OpenBytes(Each(StandardParameter, parameters))

-----------------------------------------------------------------------------
(* Reading.                                                                *)

\* The indexes at which the loop finds a parameter.
ParameterIndexes(buf) ==
  LET from[i \in 29..(Len(buf) + 257)] ==
        IF i >= Len(buf) THEN <<>>
        ELSE IF ~Has(buf, i + 2) THEN <<i>>
        ELSE <<i>> \o from[i + 2 + At(buf, i + 1)]
  IN  from[29]

\* Of each parameter the first capability is looked at, whose type is at i + 2.
CapabilityAt(buf, i) ==
  CASE At(buf, i + 2) = 1 ->
         <<MP(U16At(buf, i + 4), At(buf, i + 7))>>
    [] At(buf, i + 2) = 65 -> <<AS4(SubSeq(buf, i + 5, i + 8))>>
    [] OTHER -> <<>>

\* Errors: not a capability, cut short, a family MPExtVal does not have.
ParameterError(buf, i) ==
  \/ ~Has(buf, i + 3)
  \/ At(buf, i) # 2
  \/ At(buf, i + 2) \in {1, 65} /\ ~Has(buf, i + 8)
  \/ At(buf, i + 2) = 1
       /\ <<U16At(buf, i + 4), At(buf, i + 7)>> \notin Range(Families)

\* The Open must be all there is in the buffer.
OpenError(buf) ==
  \/ Len(buf) < 29
  \/ U16At(buf, 16) # Len(buf)
  \/ At(buf, 28) # Len(buf) - 29
  \/ At(buf, 28) >= 4
       /\ \E i \in Range(ParameterIndexes(buf)) : ParameterError(buf, i)

\* Mutant: parameters of no capability are None.
ExtractedParametersNonEmpty(buf) ==
  LET Capability(i) == CapabilityAt(buf, i)
      capabilities == Each(Capability, ParameterIndexes(buf))
  IN  IF capabilities = <<>> THEN <<>> ELSE <<capabilities>>

\* The optional parameters of an Open without error: None (<<>>) or Some.
ExtractedParameters(buf) ==
  LET Capability(i) == CapabilityAt(buf, i)
  IN  IF At(buf, 28) >= 4 THEN <<Each(Capability, ParameterIndexes(buf))>>
      ELSE <<>>

\* extract_notification_message; a Notification is heard by its code.
NotificationError(buf) ==
  \/ U16At(buf, 16) < 21
  \/ ~Has(buf, 21)
  \/ At(buf, 19) \notin 1..6

=============================================================================
