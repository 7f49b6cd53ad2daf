--------------------------- MODULE KernelCommands ---------------------------
(***************************************************************************)
(* The commands about routes, neighbours, ipsec tunnels, epairs and        *)
(* wireless interfaces touch different tables of the kernel and the program*)
(* runs one command at a time, so each behaviour is about one of them.     *)
(***************************************************************************)
EXTENDS TableCommands, DeviceCommands

VARIABLE subject  \* "routes", "entries", "ipsec", "epair" or "wlan"

commandVars == <<tableVars, deviceVars, subject>>

CommandsInit == /\ TablesInit /\ DevicesInit
                /\ subject \in {"routes", "entries", "ipsec", "epair", "wlan"}

CommandsNext ==
  /\ UNCHANGED subject
  /\ \/ subject = "routes" /\ RouteNext /\ UNCHANGED deviceVars
     \/ subject = "entries" /\ EntryNext /\ UNCHANGED deviceVars
     \/ subject = "ipsec" /\ IpsecNext /\ UNCHANGED <<tableVars, epairVars, wlanVars>>
     \/ subject = "epair" /\ EpairNext /\ UNCHANGED <<tableVars, ipsecVars, wlanVars>>
     \/ subject = "wlan" /\ WlanNext /\ UNCHANGED <<tableVars, ipsecVars, epairVars>>

CommandsSpec == CommandsInit /\ [][CommandsNext]_commandVars

\* Types of the state.
CommandsTypeOK == TablesTypeOK /\ DevicesTypeOK

=============================================================================
