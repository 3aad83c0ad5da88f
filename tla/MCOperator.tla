----------------------------- MODULE MCOperator -----------------------------
(* Operator on small instances: an extract of the schema, and commands     *)
(* that meet each of its forms and each of the plan's.                     *)
EXTENDS Operator, TLC

CONSTANTS s1, s2

Cidrs == {"10.0.0.1/24", "10.0.0.2/24"}
Ips == {"9.9.9.9", "8.8.8.8"}
Numerals == {"22", "1000000"}
Raws == Cidrs \cup Ips \cup Numerals
        \cup {"enable", "on", "dhcp", "wan", "accept", "masquerade", "eth0", "eth1", "gw",
              "Jo Doe", "name eth1"}

Of(words, accepts, multi) == [tokens |-> words, accepts |-> accepts, multi |-> multi]

MCSchema ==
  LET Eth(rest) == <<"interfaces", "ethernet", "<>">> \o rest
      Rule(rest) == <<"nat", "source", "rule", "<>">> \o rest
  IN {Of(Eth(<<"address">>), Cidrs, TRUE), Of(Eth(<<"address">>), {"dhcp"}, FALSE),
      Of(Eth(<<"description">>), Raws, FALSE), Of(Eth(<<"mtu">>), Raws, FALSE),
      Of(Eth(<<"role">>), {"lan", "wan"}, FALSE), Of(Eth(<<"disable">>), {"enable"}, FALSE),
      Of(<<"firewall", "nftables", "input", "default-action">>, {"accept", "drop"}, FALSE),
      Of(<<"firewall", "nftables", "wan-block">>, {"enable"}, FALSE),
      Of(Rule(<<"outbound-interface">>), Raws, FALSE),
      Of(Rule(<<"outbound-interface", "name">>), Raws, FALSE),
      Of(Rule(<<"source", "address">>), Cidrs, FALSE),
      Of(Rule(<<"translation", "address">>), {"masquerade"}, FALSE),
      Of(<<"system", "host-name">>, Raws, FALSE),
      Of(<<"system", "login", "user", "<>", "full-name">>, Raws, FALSE),
      Of(<<"system", "name-server">>, Ips \cup {"22"}, TRUE),
      Of(<<"system", "ntp", "server">>, Raws, TRUE),
      Of(<<"service", "dns", "forwarding", "name-server">>, Ips, TRUE),
      Of(<<"service", "dns", "forwarding", "name-server", "<>", "port">>, Numerals, FALSE),
      Of(<<"service", "haproxy", "stats", "port">>, Numerals, FALSE),
      Of(<<"service", "ssh", "port">>, Numerals, FALSE),
      Of(<<"service", "lldp", "interface", "<>", "mode">>, Raws, FALSE),
      Of(<<"policy", "route", "<>", "interface">>, Raws, FALSE)}

MCDashed ==
  [n \in {"default-action", "wan-block", "outbound-interface", "host-name", "name-server",
         "full-name", "br-lan"} |->
     CASE n = "default-action" -> "default_action"
       [] n = "wan-block" -> "wan_block"
       [] n = "outbound-interface" -> "outbound_interface"
       [] n = "host-name" -> "host_name"
       [] n = "name-server" -> "name_server"
       [] n = "full-name" -> "full_name"
       [] n = "br-lan" -> "br_lan"]
MCDotted == [n \in {"eth0.100"} |-> <<"eth0", "100">>]
MCPrinted == [n \in Numerals |-> IF n = "1000000" THEN "1e+06" ELSE n]
MCSpaced ==
  [w \in {"Jo Doe", "j d", "name eth1"} |->
     CASE w = "Jo Doe" -> <<"Jo", "Doe">>
       [] w = "j d" -> <<"j", "d">>
       [] w = "name eth1" -> <<"name", "eth1">>]
MCNames == <<"10", "20", "br_lan", "eth0", "eth1", "lan", "lldp">>

Cmd(words, raw) == [tokens |-> words, raw |-> raw]
Eth0(rest, raw) == Cmd(<<"interfaces", "ethernet", "eth0">> \o rest, raw)
Rule10(rest, raw) == Cmd(<<"nat", "source", "rule", "10">> \o rest, raw)

Address == Eth0(<<"address">>, "10.0.0.1/24")
Dhcp == Eth0(<<"address">>, "dhcp")
WanBlock == Cmd(<<"firewall", "nftables", "wan-block">>, "enable")
Oif == Rule10(<<"outbound-interface">>, "eth0")
OifName == Rule10(<<"outbound-interface", "name">>, "eth1")
Source == Rule10(<<"source", "address">>, "10.0.0.1/24")
Masquerade == Rule10(<<"translation", "address">>, "masquerade")
HostName == Cmd(<<"system", "host-name">>, "gw")
FullName(user, raw) == Cmd(<<"system", "login", "user", user, "full-name">>, raw)
Ssh == Cmd(<<"service", "ssh", "port">>, "22")
Lldp == Cmd(<<"service", "lldp", "interface", "eth0", "mode">>, "on")

AllCommands ==
  {Address, Dhcp, WanBlock, Oif, OifName, Source, Masquerade, HostName, Ssh, Lldp,
   Eth0(<<"address">>, "10.0.0.2/24"), Eth0(<<"description">>, "gw"),
   Eth0(<<"mtu">>, "1000000"), Eth0(<<"role">>, "wan"), Eth0(<<"disable">>, "enable"),
   Cmd(<<"interfaces", "ethernet", "br-lan", "role">>, "wan"),
   Cmd(<<"interfaces", "ethernet", "eth0.100", "address">>, "10.0.0.1/24"),
   Cmd(<<"firewall", "nftables", "input", "default-action">>, "accept"),
   Cmd(<<"system", "host-name">>, "on"),
   Cmd(<<"system", "name-server">>, "9.9.9.9"), Cmd(<<"system", "name-server">>, "8.8.8.8"),
   Cmd(<<"system", "name-server">>, "22"),
   FullName("jo", "gw"), FullName("jo", "Jo Doe"), FullName("j d", "gw"),
   Rule10(<<"outbound-interface">>, "name eth1"),
   Cmd(<<"system", "ntp", "server">>, "gw"),
   Cmd(<<"service", "dns", "forwarding", "name-server">>, "9.9.9.9"),
   Cmd(<<"service", "dns", "forwarding", "name-server", "eth0", "port">>, "22"),
   Cmd(<<"service", "haproxy", "stats", "port">>, "22"),
   Cmd(<<"policy", "route", "lan", "interface">>, "eth0")}

MCCommands == {Dhcp, Lldp}
MCFirstTyped == {<<>>, <<Address>>}

(* All pairs, and all orders of three about the same settings. *)
Families ==
  {{Oif, OifName, Source, Masquerade},
   {Address, Dhcp, Eth0(<<"address">>, "10.0.0.2/24"), Eth0(<<"description">>, "gw")},
   {WanBlock, Eth0(<<"role">>, "wan"), Eth0(<<"role">>, "lan"), Cmd(<<"interfaces", "ethernet", "br-lan", "role">>, "wan")}}
MCRead ==
  {<<c, d>> : c, d \in AllCommands} \cup UNION {[1 .. 3 -> F] : F \in Families}

Always == {<<"systemd">>, <<"systemd-networkd">>, <<"systemd-resolved">>, <<"bind9">>, <<"chrony">>,
           <<"haproxy">>, <<"ssh">>, <<"dhclient", "eth0">>, <<"lldp">>}
Daemons == {<<"clawgress-configd">>, <<"clawgress-policyd">>}
MCUnits == {Always, Always \cup Daemons}

Symmetry == Permutations(Shells)
=============================================================================
