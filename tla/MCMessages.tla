------------------------------ MODULE MCMessages -------------------------------
(* Small instances of Messages.                                            *)
EXTENDS Messages

As1 == <<0, 0, 0, 1>>
As2 == <<0, 0, 0, 2>>
As70000 == <<0, 1, 17, 112>>
IPv4 == MP(1, 1)
L2VPN == MP(25, 70)
Refresh == [kind |-> "RouteRefresh", value |-> <<>>]

Config(families, refreshes, as4) ==
  [families |-> families, refreshes |-> refreshes, as4 |-> as4]
MCConfigs ==
  {Config({}, {}, <<>>), Config({<<1, 1>>}, {}, As1),
   Config({<<1, 2>>, <<2, 1>>}, {}, <<>>), Config({<<2, 1>>}, {}, As1),
   Config({<<1, 1>>}, {"RouteRefresh"}, As1)}

MCPeerOpens ==
  {<<>>, << <<AS4(As2)>> >>, << <<IPv4>>, <<Refresh>>, <<AS4(As2)>> >>,
   << <<IPv4, AS4(As2)>> >>, << <<IPv4>> >>, << <<Refresh>> >>, << <<L2VPN>>, <<AS4(As2)>> >>}

N(len, a, b, c, d) == [len |-> len, prefix |-> <<a, b, c, d>>]
Ten == N(8, 10, 0, 0, 0)
TenOne == N(16, 10, 1, 0, 0)
TenOneTwo == N(24, 10, 1, 2, 0)
Home == N(24, 192, 168, 1, 0)
Private == N(12, 172, 16, 0, 0)
Host == N(32, 10, 1, 2, 3)
Link == N(30, 10, 9, 9, 4)
Default == N(0, 0, 0, 0, 0)

A(code, data) == [code |-> code, data |-> data]
Path(list) == A(2, [segment_type |-> 2, as_list |-> list])
Base == <<A(1, <<0>>), Path(<<As2, As70000>>), A(3, <<10, 0, 0, 2>>)>>
MCAttributes ==
  {Base, <<A(1, <<2>>), Path(<<>>), A(3, <<10, 0, 0, 2>>)>>,
   Base \o <<A(4, <<0, 0, 0, 9>>), A(6, <<>>), A(7, <<As2, <<10, 0, 0, 2>>>>)>>,
   Base \o <<A(5, <<0, 0, 0, 100>>)>>, Base \o <<A(8, <<0, 1, 0, 2>>)>>}

Update(withdrawn, attributes, prefixes) ==
  [type |-> "Update", withdrawn |-> withdrawn, attributes |-> attributes,
   nlri |-> prefixes]
Announces ==
  {Update(<<>>, attributes, prefixes) :
     attributes \in MCAttributes,
     prefixes \in {<<TenOneTwo>>, <<Private, Host>>, <<Default>>}}
WithdrawnLists ==
  {<<Host>>, <<Link, Host>>, <<Ten>>, <<Home>>, <<TenOne, TenOneTwo>>,
   <<TenOneTwo, Home, TenOneTwo>>, <<Host, Home>>, <<Default, Ten, TenOne>>,
   <<Ten, Ten, Home, Host>>}
Withdrawals ==
  {Update(list, <<>>, <<>>) : list \in WithdrawnLists}
    \cup {Update(list, Base, <<TenOneTwo>>) : list \in {<<Host>>, <<Home, Ten>>}}
    \cup {Update(<<>>, <<>>, <<>>), Update(<<>>, Base, <<>>)}

KeepAlive == [type |-> "KeepAlive"]
Cease == [type |-> "Notification", code |-> 6, subcode |-> 2]
MCReads ==
  {<<m>> : m \in Announces \cup Withdrawals \cup {KeepAlive, Cease}}
    \cup {<<m, KeepAlive, last>> :
            m \in {Update(<<>>, Base, <<Ten>>), KeepAlive, Cease},
            last \in {Update(<<>>, Base, <<Host>>), KeepAlive, Cease}}
    \cup {<<Update([k \in 1..52 |-> Host], <<>>, <<>>), KeepAlive, Cease>>}

Route(n, list) ==
  [nlri |-> n, origin |-> 0, segment_type |-> 2, as_list |-> list,
   next_hop |-> <<10, 0, 0, 1>>]
Long(as, n) == [k \in 1..n |-> as]
MCRoutes ==
  {Route(n, <<As1>>) : n \in {Ten, TenOne, TenOneTwo, Private, Link, Host}}
    \cup {Route(TenOneTwo, list) :
            list \in {<< <<0, 2>>, <<91, 160>> >>, Long(As2, 63),
                      Long(<<0, 2>>, 64), Long(<<0, 2>>, 126)}}

=============================================================================
