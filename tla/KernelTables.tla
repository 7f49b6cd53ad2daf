---------------------------- MODULE KernelTables ----------------------------
(***************************************************************************)
(* The tables of the FreeBSD kernel that net changes through a routing     *)
(* socket and reads with sysctl: a routing table for each FIB, the ARP and *)
(* the NDP table.  The kernel is not part of the repository: it may refuse *)
(* any request, and other programs change the tables as they please.       *)
(*                                                                         *)
(* An optional value is a set with one member, or none.                    *)
(***************************************************************************)
EXTENDS Integers, FiniteSets

CONSTANTS
  MaxFibs,      \* net.fibs grows no further
  Destinations, \* the destinations that are typed, see Destination
  Gateways,     \* the addresses that are typed as next hop
  GatewayFamily,\* the family of each
  Neighbours,   \* the addresses of the ARP and the NDP table
  NeighbourFamily,
  Interfaces,   \* the interfaces there are
  Home,         \* the interface over which the kernel reaches a neighbour
  Macs,
  MaxRoutes,    \* bound: routes in one table
  MaxEntries    \* bound: entries of both neighbour tables

VARIABLES
  routes,       \* the routes of each FIB
  fibs,         \* net.fibs: the FIBs 0 .. fibs-1 exist
  processFib,   \* the FIB net was started in, see setfib(1)
  entries       \* the entries of the ARP ("inet") and the NDP ("inet6") table

kernelVars == <<routes, fibs, processFib, entries>>

Families == {"inet", "inet6"}
Width == [f \in Families |-> IF f = "inet" THEN 32 ELSE 128]

\* A network and a host in it; whether the typed address has host bits.
Destination(f, n, h, l) == [fam |-> f, net |-> n, host |-> h, len |-> l]
Zero == "zero"  \* 0.0.0.0 or ::

ASSUME FibsAssumption == MaxFibs \in Nat \ {0}
ASSUME AddressesAssumption ==
  /\ \A d \in Destinations : /\ d = Destination(d.fam, d.net, d.host, d.len)
                            /\ d.fam \in Families /\ d.host \in BOOLEAN /\ d.len \in Nat
  /\ GatewayFamily \in [Gateways -> Families]
  /\ NeighbourFamily \in [Neighbours -> Families]
  /\ Home \in [Neighbours -> Interfaces]

Networks == {[d EXCEPT !.len = l, !.host = h] :
               d \in Destinations, h \in BOOLEAN, l \in 0..128}

\* A route and the gateway it leaves by, if it has one.
Route(d, g, s) == [to |-> d, gw |-> g, sort |-> s]

IsRoute(r) == /\ r.to \in Networks /\ r.to.len <= Width[r.to.fam]
              /\ r.gw \subseteq Gateways \cup {Zero}
              /\ r.sort \subseteq {"blackhole", "reject"}

Entry(a, i, m, e, p) == [ip |-> a, iface |-> i, mac |-> m, expires |-> e, pub |-> p]

KernelTypeOK ==
  /\ fibs \in 1..MaxFibs /\ processFib \in 0..(fibs - 1)
  /\ DOMAIN routes = 0..(MaxFibs - 1)
  /\ \A f \in DOMAIN routes : \A r \in routes[f] : IsRoute(r)
  /\ DOMAIN entries = Families
  /\ \A f \in Families : \A e \in entries[f] :
       e.ip \in Neighbours /\ NeighbourFamily[e.ip] = f /\ e.iface \in Interfaces

KernelInit ==
  /\ fibs \in 1..MaxFibs /\ processFib \in 0..(fibs - 1)
  /\ routes = [f \in 0..(MaxFibs - 1) |-> {}]
  /\ entries = [f \in Families |-> {}]

-----------------------------------------------------------------------------
(* Requests                                                                *)

\* setsockopt(SO_SETFIB) succeeds for a FIB there is.
FibExists(n) == n \in 0..(fibs - 1)

\* What a destination with a netmask, or without one, names.
Masked(d) == [d EXCEPT !.host = FALSE]
HostRoute(d) == [d EXCEPT !.len = Width[d.fam]]

\* RTM_ADD: a second route to a destination needs a gateway of its own.
KernelAdds(f, r) ==
  /\ \A q \in routes[f] : q.to = r.to => q.gw # r.gw
  /\ Cardinality(routes[f]) < MaxRoutes
  /\ routes' = [routes EXCEPT ![f] = @ \cup {r}]

\* RTM_DELETE: without a gateway, of several routes any may go.
KernelMatches(f, d, g) == {r \in routes[f] : r.to = d /\ (g # {} => r.gw = g)}
KernelRemoves(f, d, g) ==
  \E gone \in (SUBSET KernelMatches(f, d, g)) \ {{}} :
    routes' = [routes EXCEPT ![f] = @ \ gone]

\* The entry a request without an interface is about is on the neighbour's
\* own; a deletion that names none takes any of the entries of the address.
KernelKnows(a, i) == IF i = {} THEN Home[a] ELSE CHOOSE x \in i : TRUE
KernelLearns(a, i, m, e, p) ==
  LET f == NeighbourFamily[a]
      old == {x \in entries[f] : x.ip = a /\ x.iface = KernelKnows(a, i)}
  IN /\ Cardinality(UNION {entries[x] : x \in Families} \ old) < MaxEntries
     /\ entries' = [entries EXCEPT ![f] =
                      (@ \ old) \cup {Entry(a, KernelKnows(a, i), m, e, p)}]
KernelForgets(a) ==
  \E x \in entries[NeighbourFamily[a]] :
    x.ip = a /\ entries' = [entries EXCEPT ![NeighbourFamily[a]] = @ \ {x}]

-----------------------------------------------------------------------------
(* Other programs and the kernel itself                                    *)

OthersAddRoute(f, r) == FibExists(f) /\ KernelAdds(f, r) /\ UNCHANGED <<fibs, processFib, entries>>
OthersDeleteRoute(f, d) ==
  FibExists(f) /\ KernelRemoves(f, d, {}) /\ UNCHANGED <<fibs, processFib, entries>>
OthersRaiseFibs == /\ fibs < MaxFibs /\ fibs' = fibs + 1
                   /\ UNCHANGED <<routes, processFib, entries>>
OthersLearn(a, i, m) == KernelLearns(a, {i}, m, TRUE, FALSE) /\ UNCHANGED <<routes, fibs, processFib>>
OthersForget(a) == KernelForgets(a) /\ UNCHANGED <<routes, fibs, processFib>>

=============================================================================
