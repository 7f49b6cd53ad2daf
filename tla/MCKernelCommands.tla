-------------------------- MODULE MCKernelCommands --------------------------
(***************************************************************************)
(* KernelCommands for TLC: one network and two hosts in it, one of them    *)
(* with a prefix length that no network has, and three wireless drivers.   *)
(***************************************************************************)
EXTENDS KernelCommands

MCDestinations ==
  {Destination("inet", "n", FALSE, 24), Destination("inet", "n", TRUE, 40),
   Destination("inet", "n", TRUE, 280)}
MCSorts == {{}, {"blackhole"}}
MCGatewayFamily == [g \in {"g4", "g6"} |-> IF g = "g4" THEN "inet" ELSE "inet6"]
MCNeighbourFamily == [a \in {"a4", "a6"} |-> IF a = "a4" THEN "inet" ELSE "inet6"]
MCHome == [a \in {"a4", "a6"} |-> "em0"]

\* None, one only, one family or the other, or one of each.
MCEndpoints == {<<{}, {}>>, <<{"inet"}, {}>>, <<{"inet"}, {"inet"}>>,
                <<{"inet6"}, {"inet6"}>>, <<{"inet"}, {"inet6"}>>}

AllQueries == {Queries[i].kind : i \in DOMAIN Queries}
MCDrivers == {AllQueries, AllQueries \ {"CURCHAN", "BSSID"}, {"SSID", "CHANNEL"}}

\* FIBs matter to routes, drivers and stations to wireless interfaces only.
MCInit == /\ CommandsInit
          /\ subject \notin {"routes", "entries"} => fibs = 1
          /\ subject # "wlan" => driver = {"SSID", "CHANNEL"} /\ air = {}

MCSpec == MCInit /\ [][CommandsNext]_commandVars

=============================================================================
