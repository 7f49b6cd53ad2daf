--------------------------- MODULE CommandLanguage ---------------------------
(***************************************************************************)
(* The command language as both ends of `net -g | net` see it: what the    *)
(* printer of each type writes, which keywords its parser takes, what its  *)
(* handler insists on, and what the FreeBSD backend reads from the kernel  *)
(* and writes to it.                                                       *)
(*                                                                         *)
(* A command is a sequence of clauses, a clause a keyword with its values; *)
(* a clause without a value is not on the line.  `member a member b` is    *)
(* one clause with two values, `inet address a` one with the keyword       *)
(* "inet"; synonyms (fib, tunnel-fib, `vlan id n parent p`) are their      *)
(* canonical clauses.  epair, whose creation renames a pair, is left out.  *)
(***************************************************************************)
EXTENDS Naturals, Sequences

Clause(k, vs) == [kw |-> k, val |-> vs]

Types == {"loopback", "ethernet", "bridge", "lagg", "vlan", "tun", "gif",
          "ovpn", "ipsec", "gre", "vxlan", "wlan", "carp", "tap", "pflog",
          "pfsync", "wg", "stf"}

\* The other things `set` is about.
Targets == {"vrf", "route", "arp", "ndp"}

Keywords ==
  {"type", "inet", "address", "group", "mtu", "vrf", "up", "down", "status",
   "description", "member", "members", "stp", "priority", "protocol", "vid",
   "parent", "pcp", "source", "destination", "tunnel-vrf", "reqid", "key", "vni",
   "local", "remote", "port", "ssid", "channel", "authmode", "vhid", "advskew",
   "advbase", "listen-port", "dest", "nexthop", "interface", "blackhole", "reject",
   "entry", "ip", "mac", "permanent", "temp", "pub", "router", "fibnum", "name",
   "table"}

-----------------------------------------------------------------------------
(* Parser and handler of each type: the settings it prints, in order; the  *)
(* keywords it takes; those without which it refuses.                      *)

Token(prints, takes, needs) == [prints |-> prints, takes |-> takes, needs |-> needs]

Endpoints == {"source", "destination"}

NoToken == Token(<<>>, {}, {})
LoopbackToken == NoToken
TapToken == NoToken
PflogToken == NoToken
PfsyncToken == NoToken
SixToFourToken == NoToken
BridgeToken ==
  Token(<<"member", "stp", "priority">>, {"member", "stp", "priority"}, {})
\* "members" is `lagg members a,b`; it is printed as "member".
LaggToken ==
  Token(<<"members", "protocol">>, {"members", "protocol"}, {"members"})
VlanToken ==
  Token(<<"vid", "parent", "pcp">>, {"vid", "parent", "pcp"}, {"vid", "parent"})
TunToken ==
  Token(<<"source", "destination", "tunnel-vrf">>, Endpoints \cup {"tunnel-vrf"}, {})
GifToken == TunToken
OvpnToken == TunToken
IpsecToken == Token(<<"source", "destination", "tunnel-vrf", "reqid">>,
                    Endpoints \cup {"tunnel-vrf", "reqid"}, {})
GreToken == Token(<<"source", "destination", "key">>, Endpoints \cup {"key"}, {})
VxlanToken == Token(<<"vni", "local", "remote", "port">>,
                    {"vni", "local", "remote", "port"}, {})
WlanToken == Token(<<"ssid", "channel", "parent", "authmode">>,
                   {"ssid", "channel", "parent", "authmode"}, {})
CarpToken == Token(<<"vhid", "advskew", "advbase", "key">>,
                   {"vhid", "advskew", "advbase", "key"}, {})
WireGuardToken == Token(<<"listen-port">>, {"listen-port"}, {})

\* A route is printed with its protocol, which is no keyword; an ARP or NDP
\* entry begins with the bare address, the number of FIBs with "fibnum".
RouteToken == Token(<<"protocol", "dest", "nexthop">>,
                    {"nexthop", "dest", "vrf", "interface", "blackhole", "reject"},
                    {"dest"})
ArpToken == Token(<<"entry", "mac">>,
                  {"ip", "mac", "interface", "permanent", "temp", "pub"}, {"mac"})
NdpToken == Token(<<"entry", "mac">>,
                  {"ip", "mac", "interface", "permanent", "temp", "router"}, {"mac"})
VrfToken == Token(<<"fibnum">>, {"name", "table"}, {})

\* InterfaceToken::dispatch: the handlers of a type.  Ethernet and a type not
\* given ("unknown") have none.
dispatch(t) ==
  CASE t = "loopback" -> LoopbackToken [] t = "bridge" -> BridgeToken
    [] t = "lagg" -> LaggToken         [] t = "vlan" -> VlanToken
    [] t = "tun" -> TunToken           [] t = "gif" -> GifToken
    [] t = "ovpn" -> OvpnToken         [] t = "ipsec" -> IpsecToken
    [] t = "gre" -> GreToken           [] t = "vxlan" -> VxlanToken
    [] t = "wlan" -> WlanToken         [] t = "carp" -> CarpToken
    [] t = "tap" -> TapToken           [] t = "pflog" -> PflogToken
    [] t = "pfsync" -> PfsyncToken     [] t = "wg" -> WireGuardToken
    [] t = "stf" -> SixToFourToken     [] t = "route" -> RouteToken
    [] t = "arp" -> ArpToken           [] t = "ndp" -> NdpToken
    [] t = "vrf" -> VrfToken           [] OTHER -> NoToken

PrintedAs(k) == IF k = "members" THEN "member" ELSE k

-----------------------------------------------------------------------------
(* The backend of each type: the settings its Get...Interfaces reads back  *)
(* from the kernel, those its save writes there, those without which the   *)
(* save throws, and whether a save that creates the interface skips the    *)
(* generic settings.                                                       *)

Backend(loads, keeps, needs, late) ==
  [loads |-> loads, keeps |-> keeps, needs |-> needs, late |-> late]

GenericOnly == Backend({}, {}, {}, FALSE)
BridgeBackend == Backend({"member"}, {"member", "stp", "priority"}, {}, FALSE)
LaggBackend == Backend({"members", "protocol"}, {"members", "protocol"}, {}, TRUE)
VlanBackend == Backend({"vid", "parent", "pcp"}, {"vid", "parent", "pcp"},
                       {"vid", "parent"}, TRUE)
TunBackend == Backend({}, Endpoints, Endpoints, TRUE)
OvpnBackend == Backend({}, Endpoints, Endpoints, TRUE)
GifBackend == Backend(Endpoints \cup {"tunnel-vrf"}, Endpoints, Endpoints, TRUE)
IpsecBackend == Backend({}, Endpoints \cup {"reqid"}, {}, TRUE)
GreBackend == Backend({"key"}, Endpoints \cup {"key"}, {}, FALSE)
VxlanBackend == GenericOnly
WlanBackend == Backend({"ssid", "channel", "parent", "authmode"}, {}, {}, FALSE)
CarpBackend == Backend({"vhid", "advskew", "advbase"},
                       {"vhid", "advskew", "advbase", "key"}, {}, FALSE)

BackendOf(t) ==
  CASE t = "bridge" -> BridgeBackend [] t = "lagg" -> LaggBackend
    [] t = "vlan" -> VlanBackend     [] t = "tun" -> TunBackend
    [] t = "ovpn" -> OvpnBackend     [] t = "gif" -> GifBackend
    [] t = "ipsec" -> IpsecBackend   [] t = "gre" -> GreBackend
    [] t = "vxlan" -> VxlanBackend   [] t = "wlan" -> WlanBackend
    [] t = "carp" -> CarpBackend     [] OTHER -> GenericOnly

Needs(t) == dispatch(t).needs \cup BackendOf(t).needs

-----------------------------------------------------------------------------
(* Parsing                                                                 *)

\* parseKeywords, the part common to all types.  "address" without "inet" is
\* not among them.
General == {"inet", "group", "mtu", "vrf", "up", "down", "status", "description"}

\* A command about target `of`, in whose words the type `as` is given.
Accepts(c, k) ==
  IF c.of \in Targets THEN k \in dispatch(c.of).takes
  ELSE k \in General \cup dispatch(c.as).takes

\* The clauses read: those before the first keyword that is not accepted.
Taken(c) ==
  {i \in DOMAIN c.clauses :
     \A j \in 1..i : c.clauses[j].val # {} => Accepts(c, c.clauses[j].kw)}

\* What was given with a keyword: the last clause read counts.
Given(c, k) ==
  UNION {c.clauses[i].val : i \in {l \in Taken(c) :
    /\ c.clauses[l].kw = k
    /\ \A m \in Taken(c) : c.clauses[m].kw = k => m <= l}}

GivenKeys(c) == {c.clauses[i].kw : i \in {l \in Taken(c) : c.clauses[l].val # {}}}

=============================================================================
