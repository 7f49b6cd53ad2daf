----------------------------- MODULE Formatters -----------------------------
(***************************************************************************)
(* The tables and the summaries in which configurations are printed.  A    *)
(* table has columns, each with the setting its title announces, the width *)
(* of the title, its priority and its least width; the settings a formatter*)
(* puts into a row, in order; and the width it asks renderTable for.  What *)
(* matters of a summary is which settings it has lines for.                *)
(***************************************************************************)
EXTENDS Naturals, Sequences

Column(k, title, priority, min) ==
  [key |-> k, title |-> title, priority |-> priority, minWidth |-> min]

\* `always`: settings that are printed whether they are known or not; `nonzero`:
\* settings of which a value of zero is printed like one not known.
Format(columns, cells, always, nonzero, maxWidth) ==
  [columns |-> columns, cells |-> cells, always |-> always, nonzero |-> nonzero,
   maxWidth |-> maxWidth]

-----------------------------------------------------------------------------
(* Tables of interfaces                                                    *)

InterfaceTable ==
  Format(<<Column("index", 5, 8, 5), Column("name", 9, 10, 9), Column("type", 4, 9, 13),
           Column("inet", 7, 10, 40), Column("status", 6, 7, 6), Column("mtu", 3, 5, 3),
           Column("vrf", 3, 4, 3), Column("flags", 5, 3, 5)>>,
         <<"index", "name", "type", "inet", "status", "mtu", "vrf", "flags">>, {}, {}, 1000)

BridgeTable ==
  Format(<<Column("name", 9, 10, 4), Column("stp", 3, 6, 3), Column("vlanfiltering", 13, 5, 3),
           Column("priority", 8, 4, 3), Column("member", 7, 3, 6), Column("mtu", 3, 4, 3),
           Column("flags", 5, 3, 3)>>,
         <<"name", "stp", "vlanfiltering", "priority", "member", "mtu", "flags">>,
         {"stp", "vlanfiltering"}, {}, 80)

LaggTable ==
  Format(<<Column("name", 9, 10, 4), Column("protocol", 8, 8, 4), Column("hash", 10, 3, 3),
           Column("members", 7, 3, 6), Column("mtu", 3, 4, 3), Column("flags", 5, 3, 3),
           Column("status", 6, 6, 6)>>,
         <<"name", "protocol", "hash", "members", "mtu", "flags", "status">>,
         {"protocol"}, {"flags"}, 80)

VlanTable ==
  Format(<<Column("name", 9, 10, 9), Column("vid", 7, 9, 7), Column("name", 4, 6, 4),
           Column("parent", 6, 8, 6), Column("pcp", 3, 4, 3), Column("mtu", 3, 5, 3),
           Column("flags", 5, 3, 5), Column("proto", 5, 5, 5), Column("options", 7, 2, 7)>>,
         <<"name", "vid", "name", "parent", "pcp", "mtu", "flags", "proto", "options">>,
         {"vid"}, {"options"}, 1000)

WlanTable ==
  Format(<<Column("name", 9, 10, 9), Column("ssid", 4, 9, 4), Column("channel", 4, 6, 4),
           Column("parent", 6, 8, 5), Column("status", 6, 5, 10), Column("authmode", 4, 6, 4),
           Column("caps", 6, 4, 6)>>,
         <<"name", "ssid", "channel", "parent", "status", "authmode", "caps">>, {},
         {"caps"}, 1000)

TunnelColumns ==
  <<Column("name", 9, 10, 4), Column("source", 6, 5, 6), Column("destination", 11, 5, 6),
    Column("vrf", 3, 5, 3), Column("tunnel-vrf", 10, 4, 3)>>
TunnelCells == <<"name", "source", "destination", "vrf", "tunnel-vrf">>
GifTable == Format(TunnelColumns, TunnelCells, {}, {}, 80)
TunTable == Format(TunnelColumns, TunnelCells, {}, {}, 80)
OvpnTable == Format(TunnelColumns, TunnelCells, {}, {}, 80)
IpsecTable == Format(TunnelColumns, TunnelCells, {}, {}, 80)

GreTable ==
  Format(<<Column("name", 9, 10, 4), Column("source", 6, 5, 6), Column("destination", 11, 5, 6),
           Column("key", 3, 4, 3), Column("vrf", 3, 5, 3)>>,
         <<"name", "source", "destination", "key", "vrf">>, {}, {}, 80)

VxlanTable ==
  Format(<<Column("name", 9, 10, 4), Column("vni", 3, 5, 3), Column("local", 5, 5, 6),
           Column("remote", 6, 5, 6), Column("vrf", 3, 5, 3)>>,
         <<"name", "vni", "local", "remote", "vrf">>, {}, {}, 80)

PlainColumns ==
  <<Column("name", 9, 10, 4), Column("inet", 7, 5, 7), Column("status", 6, 6, 6),
    Column("mtu", 3, 6, 6)>>
PlainCells == <<"name", "inet", "status", "mtu">>
CarpTable == Format(PlainColumns, PlainCells, {}, {}, 80)
TapTable == Format(PlainColumns, PlainCells, {}, {}, 80)
PflogTable == Format(PlainColumns, PlainCells, {}, {}, 80)
PfsyncTable == Format(PlainColumns, PlainCells, {}, {}, 80)
WireGuardTable == Format(PlainColumns, PlainCells, {}, {}, 80)
LoopBackTable ==
  Format(<<Column("name", 9, 10, 4), Column("inet", 7, 5, 7), Column("status", 6, 6, 6)>>,
         <<"name", "inet", "status">>, {}, {}, 80)
SixToFourTable ==
  Format(<<Column("name", 9, 10, 4), Column("inet", 7, 5, 7), Column("status", 6, 6, 6),
           Column("vrf", 3, 4, 3)>>,
         <<"name", "inet", "status", "vrf">>, {}, {"vrf"}, 80)

\* One row for a pair; "name" is the name without "a" or "b", followed by the
\* name, the VRF and the status of each half.
EpairTable ==
  Format(<<Column("pair", 9, 12, 9),
           Column("name", 7, 10, 7), Column("vrf", 11, 6, 3), Column("status", 14, 8, 6),
           Column("name", 7, 10, 7), Column("vrf", 11, 6, 3), Column("status", 14, 8, 6)>>,
         <<"pair", "name", "vrf", "status", "name", "vrf", "status">>, {}, {}, 1000)

-----------------------------------------------------------------------------
(* Other tables                                                            *)

RouteTable ==
  Format(<<Column("dest", 11, 8, 10), Column("nexthop", 7, 6, 7), Column("author", 6, 6, 8),
           Column("interface", 9, 6, 4), Column("flags", 5, 3, 2), Column("scope", 5, 5, 6),
           Column("expire", 6, 6, 8)>>,
         <<"dest", "nexthop", "author", "interface", "flags", "scope", "expire">>, {}, {}, 80)

ArpTable ==
  Format(<<Column("ip", 10, 7, 10), Column("mac", 11, 11, 17), Column("interface", 9, 6, 4),
           Column("expire", 6, 6, 8), Column("flags", 5, 3, 2)>>,
         <<"ip", "mac", "interface", "expire", "flags">>, {}, {}, 80)

NdpTable ==
  Format(<<Column("ip", 12, 12, 39), Column("mac", 11, 11, 17), Column("interface", 9, 6, 4),
           Column("expire", 6, 6, 8), Column("flags", 5, 3, 2)>>,
         <<"ip", "mac", "interface", "expire", "flags">>, {}, {}, 120)

PolicyTable ==
  Format(<<Column("acl", 3, 3, 5), Column("seq", 3, 3, 5), Column("action", 6, 4, 6),
           Column("source", 6, 6, 18), Column("destination", 11, 6, 18),
           Column("protocol", 8, 4, 6)>>,
         <<"acl", "seq", "action", "source", "destination", "protocol">>, {}, {}, 120)

Tables ==
  {InterfaceTable, BridgeTable, LaggTable, VlanTable, WlanTable, GifTable, GreTable,
   VxlanTable, CarpTable, LoopBackTable, SixToFourTable, EpairTable,
   RouteTable, ArpTable, NdpTable, PolicyTable}

-----------------------------------------------------------------------------
(* Summaries of one interface: the lines all have, and those of its type   *)

Summary(keys, always, nonzero) == [keys |-> keys, always |-> always, nonzero |-> nonzero]

InterfaceSummary ==
  Summary({"name", "type", "description", "hwaddr", "status", "mtu", "metric", "baudrate",
           "link", "capabilities", "driver", "inet", "vrf", "nd6", "flags"}, {},
          {"metric", "baudrate", "capabilities"})
Also(keys, always, nonzero) ==
  Summary(InterfaceSummary.keys \cup keys, always, InterfaceSummary.nonzero \cup nonzero)

BridgeSummary ==
  Also({"stp", "priority", "vlanfiltering", "member"}, {"stp", "vlanfiltering"}, {})
CarpSummary == Also({"vhid", "advskew", "advbase", "state"}, {}, {})
EpairSummary == Also({}, {}, {})
GreSummary == Also({"source", "destination", "key"}, {}, {})
TunSummary == Also({"source", "destination", "tunnel-vrf"}, {}, {})
GifSummary == Also({"source", "destination", "tunnel-vrf"}, {}, {})
OvpnSummary == Also({"source", "destination", "tunnel-vrf"}, {}, {})
IpsecSummary == Also({"source", "destination", "tunnel-vrf", "reqid", "sa", "sp"}, {}, {})
LaggSummary == Also({"protocol", "hash", "members"}, {"protocol"}, {})
VlanSummary == Also({"vid", "parent", "proto", "pcp"}, {}, {"vid"})
VxlanSummary == Also({"vni", "local", "remote", "port"}, {}, {})
WlanSummary == Also({"ssid", "channel", "bssid", "parent", "authmode", "caps"}, {}, {})

=============================================================================
