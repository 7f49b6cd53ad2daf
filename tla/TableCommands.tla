--------------------------- MODULE TableCommands ----------------------------
(***************************************************************************)
(* `set`, `delete` and `show` for routes, ARP and NDP entries on FreeBSD.  *)
(* A set or a delete is one message on a routing socket; a show asks sysctl*)
(* for the size of a table and then for the table, and other programs may  *)
(* change it in between.                                                   *)
(*                                                                         *)
(* `told` remembers the sets that were answered "added" or "successfully"  *)
(* and not undone since, by a command or another program.                  *)
(***************************************************************************)
EXTENDS KernelTables

CONSTANTS AskedFibs, \* the numbers typed after "vrf"
          Sorts,     \* the flags of a route that are typed together
          MaxTold    \* bound: successes remembered

ASSUME AskedAssumption ==
  AskedFibs \subseteq Nat /\ Sorts \subseteq SUBSET {"blackhole", "reject"} /\ MaxTold \in Nat

VARIABLES
  listing,  \* the show in progress: what was asked, the size of the table
  answer,   \* what the last show printed
  told

tableVars == <<kernelVars, listing, answer, told>>

Optional(S) == {{}} \cup {{x} : x \in S}
NoListing == [query |-> {}, size |-> 0, grew |-> FALSE]
NoAnswer == [query |-> {}, found |-> {}, grew |-> FALSE]

\* The words of a route command after `dest`: a next hop that is no address is
\* read as none, and of `interface` no message is made (left out here).
RouteWords == [dest : Destinations, nexthop : Optional(Gateways \cup {"junk"}),
               sort : Sorts, vrf : Optional(AskedFibs)]
parseRoute(w) == [dest |-> w.dest, gw |-> w.nexthop \cap Gateways,
                  sort |-> w.sort, vrf |-> w.vrf]

\* The kernel does not look at the flags of a deletion.
DeleteWords == {w \in RouteWords : w.sort = {}}

\* Of `permanent` and `temp` the last one counts; `pub` stands for the `router`
\* of NDP as well.
NeighbourWords == [fam : Families, ip : Neighbours,
                   mac : Optional(Macs \cup {"junk"}),
                   iface : Optional(Interfaces \cup {"nosuch0"}),
                   temp : BOOLEAN, pub : BOOLEAN]

-----------------------------------------------------------------------------
(* From words to messages                                                  *)

\* IPNetwork::fromString keeps eight bits of the prefix length and no netmask
\* is applied to the address.
fromString(d) == [d EXCEPT !.len = @ % 256]

\* A length below the width of the family goes with a netmask, any other not.
\* Mutant: every destination goes with a netmask.
MessageDestMasked(d) == Masked(fromString(d))
MessageDest(d) ==
  IF fromString(d).len < Width[d.fam] THEN Masked(fromString(d))
                                      ELSE HostRoute(fromString(d))

\* inet_pton of the other family fails, unnoticed, and leaves zeros.
MessageGateway(c) ==
  {IF GatewayFamily[g] = c.dest.fam THEN g ELSE Zero : g \in c.gw}

\* SO_SETFIB is asked for if a number is given; whether it worked is not looked at.
\* Mutant: FIB 0 is taken for none.
SetFibOfPositive(c) == {n \in c.vrf : n > 0}
SetFibOf(c) == {n \in c.vrf : n >= 0}
MessageFib(c) ==
  IF \E n \in SetFibOf(c) : FibExists(n) THEN CHOOSE n \in c.vrf : TRUE ELSE processFib

-----------------------------------------------------------------------------
(* What the user may conclude from an answer                               *)

\* A network written as a network, a gateway of its family, a FIB there is.
IsNetwork(d) == d.len <= Width[d.fam] /\ (d.host => d.len = Width[d.fam])
Understood(c) == /\ IsNetwork(c.dest)
                 /\ \A g \in c.gw : GatewayFamily[g] = c.dest.fam
TableMeant(c) == IF c.vrf = {} THEN processFib ELSE CHOOSE n \in c.vrf : TRUE
Plain(c) == Understood(c) /\ FibExists(TableMeant(c))

ToldRoute(c, exists) == [kind |-> "route", cmd |-> c, plain |-> exists]
ToldEntry(w) == [kind |-> "entry", cmd |-> w, plain |-> TRUE]
ToldRoutes == {t \in told : t.kind = "route"}
ToldEntries == {t \in told : t.kind = "entry"}

\* The successes a deletion, or another program, may have undone.
AboutRoute(f, d, g) ==
  {t \in ToldRoutes : /\ MessageDest(t.cmd.dest) = d
                      /\ g # {} => MessageGateway(t.cmd) = g
                      /\ t.plain => TableMeant(t.cmd) = f}
AboutEntry(a) == {t \in ToldEntries : t.cmd.ip = a}

-----------------------------------------------------------------------------
(* Routes                                                                  *)

\* Any of the commands below may fail instead: its words are refused, or the one
\* message (socket, write) is, and "failed" is printed.
CommandFails ==
  /\ listing = NoListing /\ answer' = NoAnswer
  /\ UNCHANGED <<kernelVars, listing, told>>

\* executeSetRoute, AddRoute: one RTM_ADD.
SetRoute(w) ==
  LET c == parseRoute(w) IN
  /\ listing = NoListing /\ answer' = NoAnswer
  /\ UNCHANGED <<fibs, processFib, entries, listing>>
  /\ KernelAdds(MessageFib(c), Route(MessageDest(c.dest), MessageGateway(c), c.sort))
  /\ Cardinality(told) < MaxTold
  /\ told' = told \cup {ToldRoute(c, Plain(c))}

\* Mutant: the gateway is not put into the message.
DeleteRouteAnyGateway(w) ==
  LET c == parseRoute(w) IN
  /\ listing = NoListing /\ answer' = NoAnswer
  /\ UNCHANGED <<fibs, processFib, entries, listing>>
  /\ KernelRemoves(MessageFib(c), MessageDest(c.dest), {})
  /\ told' = told \ AboutRoute(MessageFib(c), MessageDest(c.dest), {})
DeleteRoute(w) ==
  LET c == parseRoute(w) IN
  /\ listing = NoListing /\ answer' = NoAnswer
  /\ UNCHANGED <<fibs, processFib, entries, listing>>
  /\ KernelRemoves(MessageFib(c), MessageDest(c.dest), MessageGateway(c))
  /\ told' = told \ AboutRoute(MessageFib(c), MessageDest(c.dest), MessageGateway(c))

\* `show route [prefix] [vrf n]`: GetStaticRoutes of FIB n, or of FIB 0.  The
\* prefix is typed as a route is printed, address/length, or otherwise (a host
\* without a length, an IPv6 address in capitals or with zeros).
RouteQuery == [kind : {"route"}, dest : Optional(Destinations), printed : BOOLEAN,
               vrf : Optional(AskedFibs)]
\* Mutant: the table asked for is not looked at.
ListedFibZero(q) == 0
ListedFib(q) == IF q.vrf = {} THEN 0 ELSE CHOOSE n \in q.vrf : TRUE

\* A prefix is compared as text with that of each route, up to the first that fits.
FoundRoutes(q, S) ==
  IF q.dest = {} THEN {S}
  ELSE LET fits == {r \in S : {r.to} = q.dest /\ q.printed}
       IN IF fits = {} THEN {{}} ELSE {{r} : r \in fits}

-----------------------------------------------------------------------------
(* ARP and NDP entries                                                     *)

\* executeSetArp, executeSetNdp: the message has no lifetime, whether the entry
\* is to be temporary or not (RTF_STATIC at most is left out, which the kernel
\* does not look at), and RTF_ANNOUNCE only in the ARP table.
SetNeighbour(w) ==
  /\ listing = NoListing /\ answer' = NoAnswer
  /\ UNCHANGED <<routes, fibs, processFib, listing>>
  /\ w.mac # {} /\ w.mac \subseteq Macs
  /\ NeighbourFamily[w.ip] = w.fam
  /\ w.iface \subseteq Interfaces
  /\ KernelLearns(w.ip, w.iface, CHOOSE m \in w.mac : TRUE, FALSE, w.pub /\ w.fam = "inet")
  /\ Cardinality(told) < MaxTold
  /\ told' = {t \in told : t \in ToldEntries /\ t.cmd.ip = w.ip =>
                KernelKnows(t.cmd.ip, t.cmd.iface) # KernelKnows(w.ip, w.iface)}
               \cup {ToldEntry(w)}

\* DeleteArpEntry, DeleteNdpEntry: of the words only the address is sent.
AddressWords == [fam : Families, ip : Neighbours]
DeleteNeighbour(w) ==
  /\ listing = NoListing /\ answer' = NoAnswer
  /\ UNCHANGED <<routes, fibs, processFib, listing>>
  /\ NeighbourFamily[w.ip] = w.fam
  /\ KernelForgets(w.ip)
  /\ told' = told \ AboutEntry(w.ip)

\* An address is typed as the kernel prints it, or otherwise (capitals, zeros).
EntryQuery == [kind : Families, ip : Optional(Neighbours), printed : BOOLEAN,
               iface : Optional(Interfaces)]

\* The address is compared as text; NDP leaves routes over a gateway out.
FoundEntries(q, S) ==
  {{e \in S : /\ q.ip # {} => ({e.ip} = q.ip /\ q.printed)
              /\ q.iface # {} => {e.iface} = q.iface}}

-----------------------------------------------------------------------------
(* Show, in two calls                                                      *)

Table(q) == IF q.kind = "route" THEN (IF FibExists(ListedFib(q)) THEN routes[ListedFib(q)] ELSE {})
            ELSE entries[q.kind]
Found(q, S) == IF q.kind = "route" THEN FoundRoutes(q, S) ELSE FoundEntries(q, S)

\* The first sysctl: without a table, or with an empty one, there is no second.
SizeTable(q) ==
  /\ listing = NoListing
  /\ IF Table(q) = {}
     THEN /\ answer' = [query |-> {q}, found |-> {}, grew |-> FALSE]
          /\ UNCHANGED listing
     ELSE /\ listing' = [query |-> {q}, size |-> Cardinality(Table(q)), grew |-> FALSE]
          /\ answer' = NoAnswer
  /\ UNCHANGED <<kernelVars, told>>

\* The second fails if the table no longer fits, which is printed as none.
FetchTable ==
  /\ \E q \in listing.query :
       \E S \in IF Cardinality(Table(q)) > listing.size THEN {{}} ELSE Found(q, Table(q)) :
         answer' = [query |-> {q}, found |-> S, grew |-> listing.grew]
  /\ listing' = NoListing
  /\ UNCHANGED <<kernelVars, told>>

\* Another program may come between any two of these steps.
Others(undone) ==
  /\ told' = told \ undone
  /\ listing' = [listing EXCEPT !.grew = @ \/ (listing # NoListing /\
       (\E f \in DOMAIN routes : ~(routes'[f] \subseteq routes[f])
          \/ \E g \in Families : ~(entries'[g] \subseteq entries[g])))]
  /\ answer' = NoAnswer

RouteOthers ==
  \/ \E f \in DOMAIN routes, d \in Destinations :
       \E g \in Optional({h \in Gateways : GatewayFamily[h] = d.fam}) :
         OthersAddRoute(f, Route(MessageDest(d), g, {})) /\ Others({})
  \/ \E f \in DOMAIN routes, d \in Destinations :
       OthersDeleteRoute(f, MessageDest(d)) /\ Others(AboutRoute(f, MessageDest(d), {}))
  \/ OthersRaiseFibs /\ Others({})

EntryOthers ==
  \/ \E a \in Neighbours, i \in Interfaces, m \in Macs :
       OthersLearn(a, i, m) /\ Others(AboutEntry(a))
  \/ \E a \in Neighbours : OthersForget(a) /\ Others(AboutEntry(a))

-----------------------------------------------------------------------------
TablesInit == KernelInit /\ listing = NoListing /\ answer = NoAnswer /\ told = {}

RouteNext ==
  \/ \E w \in RouteWords : SetRoute(w)
  \/ \E w \in DeleteWords : DeleteRoute(w)
  \/ \E q \in RouteQuery : SizeTable(q)
  \/ FetchTable
  \/ CommandFails
  \/ RouteOthers

EntryNext ==
  \/ \E w \in NeighbourWords : SetNeighbour(w)
  \/ \E w \in AddressWords : DeleteNeighbour(w)
  \/ \E q \in EntryQuery : SizeTable(q)
  \/ FetchTable
  \/ CommandFails
  \/ EntryOthers

TablesNext == RouteNext \/ EntryNext

TablesSpec == TablesInit /\ [][TablesNext]_tableVars

-----------------------------------------------------------------------------
(* Properties                                                              *)

\* Every table holds what the kernel can hold: whatever was typed, a prefix
\* length is that of a network and a gateway an address.
TablesTypeOK ==
  /\ KernelTypeOK
  /\ Cardinality(told) <= MaxTold /\ Cardinality(listing.query) <= 1
  /\ \A t \in ToldRoutes : t.plain => Plain(t.cmd)

RouteAsTyped(c) == Route(c.dest, c.gw, c.sort)

\* `temp` is answered like the rest and the entry stays for good; `router` makes
\* no difference to an NDP entry.
EntryAsSet(w) == Entry(w.ip, KernelKnows(w.ip, w.iface), CHOOSE m \in w.mac : TRUE,
                       FALSE, w.pub /\ w.fam = "inet")

\* What was answered "added" or "set successfully" is in the table the command
\* named until a command or another program takes it away: the route with the
\* destination, gateway and flags as typed, the neighbour with the address, MAC,
\* interface and `pub` as typed.  The exceptions: a route whose FIB did not exist,
\* or whose destination or gateway was no proper one, may be anywhere; a route's
\* interface is the kernel's choice, whatever was typed; and an entry typed `temp`
\* is permanent (executeSetRoute, routeSocketOp, SetArpEntry, SetNdpEntry).
AddedIsThere ==
  /\ \A t \in ToldRoutes : t.plain => RouteAsTyped(t.cmd) \in routes[TableMeant(t.cmd)]
  /\ \A t \in ToldEntries : EntryAsSet(t.cmd) \in entries[t.cmd.fam]

\* What a step takes away is what a deletion it may be was about.
TakesItsOwn ==
  /\ (\E f \in DOMAIN routes : ~(routes[f] \subseteq routes'[f])) =>
       \A w \in DeleteWords : LET c == parseRoute(w) IN
         Plain(c) /\ DeleteRoute(w) =>
           \A f \in DOMAIN routes :
             LET own == {r \in routes[f] : /\ f = TableMeant(c) /\ r.to = c.dest
                                           /\ c.gw # {} => r.gw = c.gw}
             IN /\ routes[f] \ routes'[f] \subseteq own
                /\ c.gw # {} => own \cap routes'[f] = {}
  /\ \A f \in Families : \A e \in entries[f] \ entries'[f] :
       \A w \in AddressWords : w.ip # e.ip \/ w.fam # f => ~DeleteNeighbour(w)

\* A deletion of a route removes nothing but routes to the destination typed,
\* over the gateway typed, from the table named, and with a gateway it leaves
\* none of them; of the other neighbours it disturbs none (executeDeleteRoute,
\* DeleteArpEntry, DeleteNdpEntry).
DeletesOnlyItsOwn == [][TakesItsOwn]_tableVars

\* A show of the whole table a set named, or of a prefix or address typed exactly
\* as the program prints it, lists what was set, unless the table grew between
\* its two sysctl calls; of several routes to a prefix it lists one.  The text is
\* compared, so a host route asked for without its "/32" is not found, nor is an
\* address in another spelling.  Without "vrf" a set goes to the FIB of the
\* process and a show to FIB 0: they agree when that is the same
\* (executeShowRoute, executeShowArp, executeShowNdp).
AsksFor(q, t) ==
  IF t.kind = "route"
  THEN /\ t.plain /\ q.kind = "route" /\ q.vrf = t.cmd.vrf
       /\ q.vrf = {} => processFib = 0
       /\ q.dest # {} => q.printed /\ q.dest = {t.cmd.dest}
  ELSE /\ q.kind = t.cmd.fam
       /\ q.ip # {} => q.printed /\ q.ip = {t.cmd.ip}
       /\ q.iface \subseteq {KernelKnows(t.cmd.ip, t.cmd.iface)}
Lists(q, t) ==
  IF t.kind = "entry" THEN EntryAsSet(t.cmd) \in answer.found
  ELSE IF q.dest = {} THEN RouteAsTyped(t.cmd) \in answer.found
  ELSE \E r \in answer.found : r.to = t.cmd.dest
ShownAsTold ==
  \A q \in answer.query : \A t \in told :
    AsksFor(q, t) => Lists(q, t) \/ answer.grew

=============================================================================
