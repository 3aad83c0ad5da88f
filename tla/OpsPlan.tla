------------------------------- MODULE OpsPlan -------------------------------
(***************************************************************************)
(* What a commit makes of a configuration: BuildOpsPlan's operations, as   *)
(* the sequence of their actions, what executeAction does with an action,  *)
(* and the rules renderRules prints.                                       *)
(*                                                                         *)
(* dedupeOps sorts the operations by backend and scope; no two of them     *)
(* share both, and the plan is put together in that order here.  A path is *)
(* a directory and a name.                                                 *)
(***************************************************************************)
EXTENDS CommandTree

CONSTANT Names   \* names of interfaces, services and rules, sorted

(* They are keys of the configuration, in which no dash and no dot is      *)
(* left.  An interface or a service with a blank in its name, which would  *)
(* end the path of a write action early, is left out of the plan.          *)
ASSUME OpsPlanAssumption ==
  /\ Names \in Seq(STRING)
  /\ Range(Names) \cap (DOMAIN Dashed \cup DOMAIN Dotted \cup DOMAIN Spaced) = {}

-----------------------------------------------------------------------------
(* The items of a sequence that are in a set, in order.  SelectSeq is one  *)
(* the provers know nothing about.                                         *)
Among(seq, S) ==
  FlattenSeq([i \in DOMAIN seq |-> IF seq[i] \in S THEN <<seq[i]>> ELSE <<>>])

(* getAt, mapAt, getString, getBool, collectAddresses, hasDHCPAddress *)

HasMap(tree, keys) == Below(tree, keys) # {}
Children(tree, keys) == {p[Len(keys) + 1] : p \in Below(tree, keys)}

(* The children that are maps, sorted. *)
SubMaps(tree, keys) ==
  Among(Names, {n \in Children(tree, keys) : HasMap(tree, Append(keys, n))})

Scalar(tree, keys, kind) ==
  keys \in DOMAIN tree /\ ~tree[keys].list /\ tree[keys].items[1].t = kind

(* A number or a boolean is no string: as if it were not set. *)
GetString(tree, keys) == IF Scalar(tree, keys, "text") THEN tree[keys].items[1].v ELSE ""
GetBool(tree, keys) == Scalar(tree, keys, "flag") /\ tree[keys].items[1].v = "true"

Strings(tree, keys) ==
  IF keys \notin DOMAIN tree THEN <<>>
  ELSE LET text == Among(tree[keys].items, {x \in Range(tree[keys].items) : x.t = "text"})
       IN [i \in DOMAIN text |-> text[i].v]

(* Mutant: dhcp counts only where it is the one address. *)
HasDHCPAlone(tree, keys) == Strings(tree, keys) = <<"dhcp">>

HasDHCPAddress(tree, keys) == "dhcp" \in Range(Strings(tree, keys))

-----------------------------------------------------------------------------
(* Actions *)

Write(dir, name, what) == [do |-> "write", dir |-> dir, name |-> name, what |-> what]
Systemctl(verb, unit) == [do |-> "systemctl", verb |-> verb, unit |-> unit]
IpLink(dev, setting) == [do |-> "ip", dev |-> dev, setting |-> setting]
Nft(check, name) == [do |-> "nft", check |-> check, name |-> name]
Hostnamectl(name) == [do |-> "hostnamectl", name |-> name]

If(cond, action) == IF cond THEN <<action>> ELSE <<>>

Ethernet == <<"interfaces", "ethernet">>

InterfaceStateActions(tree, n) ==
  LET at == Append(Ethernet, n)
      mtu == Append(at, "mtu")
      desc == GetString(tree, Append(at, "description"))
      role == GetString(tree, Append(at, "role"))
  IN If(desc # "", Write("/run/systemd/", <<"network", n, "link">>, <<desc>>))
     \o If(Scalar(tree, mtu, "number") \/ GetString(tree, mtu) # "",
           IpLink(n, <<"mtu", tree[mtu].items[1].v>>))
     \o If(role # "", Write("/etc/clawgress/", <<"interface-role.d", n>>, <<role>>))
     \o If(GetBool(tree, Append(at, "disable")), IpLink(n, <<"down">>))

Addresses(tree, n) == Strings(tree, Ethernet \o <<n, "address">>)

(* dhclient+systemd: the interfaces with dhcp among their addresses. *)
DhclientActions(tree, n) ==
  IF ~HasDHCPAddress(tree, Ethernet \o <<n, "address">>) THEN <<>>
  ELSE <<Write("/run/dhclient/", <<"conf", n>>, <<>>),
         Write("/run/systemd/", <<"dhclient", n>>, <<>>),
         Systemctl("daemon-reload", <<"systemd">>),
         Systemctl("restart", <<"dhclient", n>>)>>
       \o InterfaceStateActions(tree, n)

(* Mutant: networkd is restarted before its file is written. *)
NetworkdActionsEarly(tree, n) ==
  IF HasDHCPAddress(tree, Ethernet \o <<n, "address">>) THEN <<>>
  ELSE (IF Addresses(tree, n) = <<>> THEN <<>>
        ELSE <<Systemctl("restart", <<"systemd-networkd">>),
               Write("/etc/systemd/", <<"network", n>>, Addresses(tree, n))>>)
       \o InterfaceStateActions(tree, n)

(* systemd-networkd: the others. *)
NetworkdActions(tree, n) ==
  IF HasDHCPAddress(tree, Ethernet \o <<n, "address">>) THEN <<>>
  ELSE (IF Addresses(tree, n) = <<>> THEN <<>>
        ELSE <<Write("/etc/systemd/", <<"network", n>>, Addresses(tree, n)),
               Systemctl("restart", <<"systemd-networkd">>)>>)
       \o InterfaceStateActions(tree, n)

PerInterface(tree, actions) ==
  LET names == SubMaps(tree, Ethernet)
  IN FlattenSeq([i \in DOMAIN names |-> actions[names[i]]])

(* A file and the restart of the service that reads it, when there is a    *)
(* reason to.                                                              *)
Service(reason, dir, name, what, verb, unit) ==
  IF reason THEN <<Write(dir, name, what), Systemctl(verb, unit)>> ELSE <<>>

HasService(tree, keys) == HasMap(tree, <<"service">> \o keys)

(* Services without a plan of their own. *)
UnitActions(tree) ==
  LET names == Among(SubMaps(tree, <<"service">>), Range(Names) \ {"dns", "haproxy", "ssh"})
  IN FlattenSeq([i \in DOMAIN names |->
       <<Write("/etc/clawgress/", <<"services", names[i]>>, <<>>),
         Systemctl("reload-or-restart", <<names[i]>>)>>])

(* Per family of settings a rendering, for a daemon that reads them all. *)
FallbackActions(tree) ==
  LET roots == <<"firewall", "interfaces", "nat", "policy", "service", "system">>
  IN FlattenSeq([i \in DOMAIN roots |->
       Service(HasMap(tree, <<roots[i]>>),
               "/etc/clawgress/", <<"rendered", roots[i]>>, <<>>,
               "reload-or-restart", <<"clawgress-configd">>)])

NftActions(tree, root, name) ==
  IF ~HasMap(tree, <<root>>) THEN <<>>
  ELSE <<Write("/etc/nftables.d/", <<name>>, <<>>), Nft(TRUE, name), Nft(FALSE, name)>>

(* In the order of the backends' names. *)
Plan(tree) ==
  LET host == GetString(tree, <<"system", "host_name">>)
      dns == Strings(tree, <<"system", "name_server">>)
      ntp == Strings(tree, <<"system", "ntp", "server">>)
  IN Service(HasService(tree, <<"dns", "forwarding">>), "/etc/bind/", <<"named.conf.options">>, <<>>,
             "restart", <<"bind9">>)
     \o Service(ntp # <<>>, "/etc/chrony/", <<"clawgress.sources">>, ntp, "restart", <<"chrony">>)
     \o Service(HasMap(tree, <<"policy">>), "/etc/clawgress/", <<"policy.json">>, <<>>,
                "reload-or-restart", <<"clawgress-policyd">>)
     \o FallbackActions(tree)
     \o PerInterface(tree, [n \in Range(Names) |-> DhclientActions(tree, n)])
     \o Service(HasService(tree, <<"haproxy">>), "/etc/haproxy/", <<"haproxy.cfg">>, <<>>,
                "restart", <<"haproxy">>)
     \o If(host # "", Hostnamectl(host))
     \o NftActions(tree, "firewall", "40-clawgress-firewall.nft")
     \o NftActions(tree, "nat", "50-clawgress-nat.nft")
     \o Service(HasService(tree, <<"ssh">>), "/etc/ssh/", <<"90-clawgress.conf">>, <<>>,
                "restart", <<"ssh">>)
     \o PerInterface(tree, [n \in Range(Names) |-> NetworkdActions(tree, n)])
     \o Service(dns # <<>>, "/etc/systemd/", <<"90-clawgress.conf">>, dns,
                "restart", <<"systemd-resolved">>)
     \o UnitActions(tree)

(* executeAction: what it runs at all, and where it writes. *)
AllowedDirs ==
  {"/etc/clawgress/", "/etc/systemd/", "/run/dhclient/", "/run/systemd/", "/etc/bind/",
   "/etc/haproxy/", "/etc/ssh/", "/etc/nftables.d/", "/etc/chrony/"}

Allowed(a) == IF a.do = "write" THEN a.dir \in AllowedDirs ELSE a.do \in {"systemctl", "ip", "nft"}

-----------------------------------------------------------------------------
(* renderRules *)

ToNftPolicy(v, fallback) == IF v \in {"accept", "drop"} THEN v ELSE fallback

ChainPolicy(tree, chain, fallback) ==
  ToNftPolicy(GetString(tree, <<"firewall", "nftables", chain, "default_action">>), fallback)

GetWanIfaces(tree) ==
  {n \in Range(SubMaps(tree, Ethernet)) : GetString(tree, Ethernet \o <<n, "role">>) = "wan"}

NatRules == <<"nat", "source", "rule">>

(* A rule needs its interface, its source and masquerade. *)
RenderSourceNatRules(tree) ==
  LET At(n, rest) == GetString(tree, NatRules \o <<n>> \o rest)
      whole == Among(SubMaps(tree, NatRules),
                     {n \in Range(Names) :
                        /\ At(n, <<"outbound_interface">>) # ""
                        /\ At(n, <<"source", "address">>) # ""
                        /\ At(n, <<"translation", "address">>) = "masquerade"})
  IN [i \in DOMAIN whole |->
        [oif |-> At(whole[i], <<"outbound_interface">>),
         src |-> At(whole[i], <<"source", "address">>)]]

RenderRules(tree) ==
  [input   |-> ChainPolicy(tree, "input", "drop"),
   forward |-> ChainPolicy(tree, "forward", "drop"),
   output  |-> ChainPolicy(tree, "output", "accept"),
   wan     |-> IF GetBool(tree, <<"firewall", "nftables", "wan_block">>)
               THEN GetWanIfaces(tree) ELSE {},
   nat     |-> RenderSourceNatRules(tree)]
=============================================================================
