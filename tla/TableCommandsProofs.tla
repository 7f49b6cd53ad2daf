------------------------- MODULE TableCommandsProofs -------------------------
(***************************************************************************)
(* Proofs about the commands for routes, ARP and NDP entries, for any      *)
(* number of FIBs, destinations and neighbours and any interference: what  *)
(* was answered "added" is in the table until somebody takes it away.      *)
(***************************************************************************)
EXTENDS TableCommands, FiniteSetTheorems, TLAPS

-----------------------------------------------------------------------------
(* Commands as they are parsed                                             *)

Single(S) == \A x, y \in S : x = y

\* A route command, after parseRoute.
IsRouteCommand(c) ==
  /\ c.dest \in Destinations
  /\ c.gw \subseteq Gateways
  /\ c.vrf \subseteq AskedFibs /\ Single(c.vrf)

LEMMA Parsed ==
  ASSUME NEW w \in RouteWords
  PROVE  IsRouteCommand(parseRoute(w))
<1>1. w.dest \in Destinations /\ w.vrf \in Optional(AskedFibs)
  BY DEF RouteWords
<1> QED
  BY <1>1 DEF parseRoute, IsRouteCommand, Optional, Single

\* A network written as a network goes into the message as it was typed.
LEMMA DestAsTyped ==
  ASSUME NEW d \in Destinations, IsNetwork(d)
  PROVE  MessageDest(d) = d
<1>1. /\ d = Destination(d.fam, d.net, d.host, d.len)
      /\ d.fam \in Families /\ d.host \in BOOLEAN /\ d.len \in Nat
  BY AddressesAssumption
<1>2. Width[d.fam] \in {32, 128}
  BY <1>1 DEF Width, Families
<1>3. d.len <= Width[d.fam] /\ (d.host => d.len = Width[d.fam])
  BY DEF IsNetwork
<1>4. d.len % 256 = d.len
  BY <1>1, <1>2, <1>3
<1>5. fromString(d) = d
  BY <1>1, <1>4 DEF fromString, Destination
<1>6. CASE d.len < Width[d.fam]
  <2>1. Masked(d) = d
    BY <1>1, <1>3, <1>6 DEF Masked, Destination
  <2> QED
    BY <1>5, <1>6, <2>1 DEF MessageDest
<1>7. CASE ~ (d.len < Width[d.fam])
  <2>1. d.len = Width[d.fam]
    BY <1>1, <1>2, <1>3, <1>7
  <2>2. HostRoute(d) = d
    BY <1>1, <2>1 DEF HostRoute, Destination
  <2> QED
    BY <1>5, <1>7, <2>2 DEF MessageDest
<1> QED
  BY <1>6, <1>7

LEMMA GatewayAsTyped ==
  ASSUME NEW c, Understood(c)
  PROVE  MessageGateway(c) = c.gw
BY DEF Understood, MessageGateway

LEMMA FibAsTyped ==
  ASSUME NEW c, IsRouteCommand(c), FibExists(TableMeant(c))
  PROVE  MessageFib(c) = TableMeant(c)
<1>1. CASE c.vrf = {}
  BY <1>1 DEF MessageFib, TableMeant, SetFibOf
<1>2. CASE c.vrf # {}
  <2>1. PICK n \in c.vrf : c.vrf = {n}
    BY <1>2 DEF IsRouteCommand, Single
  <2>2. TableMeant(c) = n
    BY <1>2, <2>1 DEF TableMeant
  <2>3. n \in SetFibOf(c)
    <3>1. n \in Nat
      BY AskedAssumption DEF IsRouteCommand
    <3>2. n >= 0
      BY <3>1
    <3> QED
      BY <3>2 DEF SetFibOf
  <2>4. \E x \in SetFibOf(c) : FibExists(x)
    BY <2>2, <2>3
  <2>5. MessageFib(c) = CHOOSE x \in c.vrf : TRUE
    BY <2>4 DEF MessageFib
  <2> QED
    BY <1>2, <2>5 DEF TableMeant
<1> QED
  BY <1>1, <1>2

-----------------------------------------------------------------------------
(* The invariant                                                           *)

TablesInv ==
  /\ fibs \in 1..MaxFibs /\ processFib \in 0..(fibs - 1)
  /\ routes = [f \in 0..(MaxFibs - 1) |-> routes[f]]
  /\ entries = [f \in Families |-> entries[f]]

\* What is remembered of a success.
IsTold(t) ==
  \/ /\ t.kind = "route" /\ IsRouteCommand(t.cmd)
     /\ t.plain => Plain(t.cmd)
  \/ /\ t.kind = "entry"
     /\ t.cmd.ip \in Neighbours /\ NeighbourFamily[t.cmd.ip] = t.cmd.fam
AllTold == \A t \in told : IsTold(t)

\* AddedIsThere, success by success.
RouteThere(t) == t.plain => RouteAsTyped(t.cmd) \in routes[TableMeant(t.cmd)]
EntryThere(t) == EntryAsSet(t.cmd) \in entries[t.cmd.fam]
RoutesThere == \A t \in told : t.kind = "route" => RouteThere(t)
EntriesThere == \A t \in told : t.kind = "entry" => EntryThere(t)

ToldInv == TablesInv /\ AllTold /\ RoutesThere /\ EntriesThere

LEMMA InitInv == TablesInit => ToldInv
BY FibsAssumption
   DEF TablesInit, KernelInit, ToldInv, TablesInv, AllTold, RoutesThere, EntriesThere

LEMMA IntervalGrows ==
  ASSUME NEW a \in Nat, NEW b \in Nat, b >= a
  PROVE  \A n \in 0..(a - 1) : n \in 0..(b - 1)
OBVIOUS

\* The commands remembered mean the same as long as the FIBs they name stay.
LEMMA StillTold ==
  ASSUME NEW t, IsTold(t), processFib' = processFib, fibs' \in Nat, fibs \in Nat, fibs' >= fibs
  PROVE  /\ IsTold(t)'
         /\ t.kind = "route" => TableMeant(t.cmd)' = TableMeant(t.cmd)
         /\ EntryAsSet(t.cmd)' = EntryAsSet(t.cmd)
<1>1. \A n \in 0..(fibs - 1) : n \in 0..(fibs' - 1)
  BY IntervalGrows
<1>2. TableMeant(t.cmd)' = TableMeant(t.cmd)
  BY DEF TableMeant
<1>3. /\ Understood(t.cmd)' <=> Understood(t.cmd)
      /\ IsRouteCommand(t.cmd)' <=> IsRouteCommand(t.cmd)
  BY DEF Understood, IsNetwork, IsRouteCommand, Single, Width, Families
<1>4. Plain(t.cmd) => Plain(t.cmd)'
  BY <1>1, <1>2, <1>3 DEF Plain, FibExists
<1>5. EntryAsSet(t.cmd)' = EntryAsSet(t.cmd)
  BY DEF EntryAsSet, Entry, KernelKnows
<1> QED
  BY <1>2, <1>3, <1>4, <1>5 DEF IsTold

\* A FIB that exists has a table.
LEMMA FibTable ==
  ASSUME TablesInv, NEW n, FibExists(n)
  PROVE  n \in 0..(MaxFibs - 1)
BY FibsAssumption DEF TablesInv, FibExists

LEMMA MessageFibTable ==
  ASSUME TablesInv, NEW c, IsRouteCommand(c)
  PROVE  MessageFib(c) \in 0..(MaxFibs - 1) /\ FibExists(MessageFib(c))
<1>1. FibExists(processFib)
  BY DEF TablesInv, FibExists
<1>2. CASE \E n \in SetFibOf(c) : FibExists(n)
  <2>1. PICK n \in c.vrf : FibExists(n) /\ c.vrf = {n}
    BY <1>2 DEF SetFibOf, IsRouteCommand, Single
  <2>2. MessageFib(c) = n
    BY <1>2, <2>1 DEF MessageFib
  <2> QED
    BY <2>1, <2>2, FibTable
<1>3. CASE ~ \E n \in SetFibOf(c) : FibExists(n)
  BY <1>1, <1>3, FibTable DEF MessageFib
<1> QED
  BY <1>2, <1>3

-----------------------------------------------------------------------------
(* What a step has to show                                                 *)

FibsKept == processFib' = processFib /\ fibs' >= fibs
RoutesKept ==
  \A t \in told \cap told' : t.kind = "route" /\ t.plain =>
    RouteAsTyped(t.cmd) \in routes'[TableMeant(t.cmd)]
EntriesKept ==
  \A t \in told \cap told' : t.kind = "entry" =>
    EntryAsSet(t.cmd) \in entries'[t.cmd.fam]
NewTold ==
  \A t \in told' \ told :
    IsTold(t)' /\ (t.kind = "route" => RouteThere(t)') /\ (t.kind = "entry" => EntryThere(t)')

LEMMA Step ==
  ASSUME ToldInv, TablesInv', FibsKept, RoutesKept, EntriesKept, NewTold
  PROVE  ToldInv'
<1>1. fibs \in Nat /\ fibs' \in Nat
  BY FibsAssumption DEF ToldInv, TablesInv
<1>2. ASSUME NEW t \in told \cap told'
      PROVE  IsTold(t)' /\ (t.kind = "route" => RouteThere(t)')
                       /\ (t.kind = "entry" => EntryThere(t)')
  <2>1. IsTold(t)
    BY <1>2 DEF ToldInv, AllTold
  <2>2. /\ IsTold(t)'
        /\ t.kind = "route" => TableMeant(t.cmd)' = TableMeant(t.cmd)
        /\ EntryAsSet(t.cmd)' = EntryAsSet(t.cmd)
    BY <1>1, <2>1, StillTold DEF FibsKept
  <2>3. t.kind = "route" => RouteThere(t)'
    <3>1. RouteAsTyped(t.cmd)' = RouteAsTyped(t.cmd)
      BY DEF RouteAsTyped, Route
    <3> QED
      BY <1>2, <2>2, <3>1 DEF RoutesKept, RouteThere
  <2>4. t.kind = "entry" => EntryThere(t)'
    BY <1>2, <2>2 DEF EntriesKept, EntryThere
  <2> QED
    BY <2>2, <2>3, <2>4
<1>3. ASSUME NEW t \in told'
      PROVE  IsTold(t)' /\ (t.kind = "route" => RouteThere(t)')
                       /\ (t.kind = "entry" => EntryThere(t)')
  BY <1>2, <1>3 DEF NewTold
<1> QED
  BY <1>3 DEF ToldInv, AllTold, RoutesThere, EntriesThere

\* A route that is remembered is in a table there is, as it was typed.
LEMMA ToldPlain ==
  ASSUME ToldInv, NEW t \in told, t.kind = "route", t.plain
  PROVE  /\ IsRouteCommand(t.cmd) /\ Plain(t.cmd)
         /\ TableMeant(t.cmd) \in 0..(MaxFibs - 1)
         /\ RouteAsTyped(t.cmd) \in routes[TableMeant(t.cmd)]
         /\ MessageDest(t.cmd.dest) = t.cmd.dest
         /\ MessageGateway(t.cmd) = t.cmd.gw
<1>1. IsRouteCommand(t.cmd) /\ Plain(t.cmd)
  BY DEF ToldInv, AllTold, IsTold
<1>2. TableMeant(t.cmd) \in 0..(MaxFibs - 1)
  BY <1>1, FibTable DEF Plain, ToldInv
<1>3. RouteAsTyped(t.cmd) \in routes[TableMeant(t.cmd)]
  BY DEF ToldInv, RoutesThere, RouteThere
<1>4. MessageDest(t.cmd.dest) = t.cmd.dest
  BY <1>1, DestAsTyped DEF Plain, Understood, IsRouteCommand
<1>5. MessageGateway(t.cmd) = t.cmd.gw
  BY <1>1, GatewayAsTyped DEF Plain
<1> QED
  BY <1>1, <1>2, <1>3, <1>4, <1>5

\* Tables that only grow keep what was told.
LEMMA GrowthKeeps ==
  ASSUME ToldInv, \A f \in 0..(MaxFibs - 1) : routes[f] \subseteq routes'[f]
  PROVE  RoutesKept
<1> SUFFICES ASSUME NEW t \in told \cap told', t.kind = "route", t.plain
             PROVE  RouteAsTyped(t.cmd) \in routes'[TableMeant(t.cmd)]
  BY DEF RoutesKept
<1>1. /\ TableMeant(t.cmd) \in 0..(MaxFibs - 1)
      /\ RouteAsTyped(t.cmd) \in routes[TableMeant(t.cmd)]
  BY ToldPlain
<1> QED
  BY <1>1

\* A deletion takes nothing that is still told.
LEMMA RemovalKeeps ==
  ASSUME ToldInv, NEW f \in 0..(MaxFibs - 1), NEW d, NEW g,
         KernelRemoves(f, d, g), told' = told \ AboutRoute(f, d, g)
  PROVE  RoutesKept
<1> SUFFICES ASSUME NEW t \in told \cap told', t.kind = "route", t.plain
             PROVE  RouteAsTyped(t.cmd) \in routes'[TableMeant(t.cmd)]
  BY DEF RoutesKept
<1>1. /\ TableMeant(t.cmd) \in 0..(MaxFibs - 1)
      /\ RouteAsTyped(t.cmd) \in routes[TableMeant(t.cmd)]
      /\ MessageDest(t.cmd.dest) = t.cmd.dest
      /\ MessageGateway(t.cmd) = t.cmd.gw
  BY ToldPlain
<1>2. PICK gone \in SUBSET KernelMatches(f, d, g) : routes' = [routes EXCEPT ![f] = @ \ gone]
  BY DEF KernelRemoves
<1>3. routes = [x \in 0..(MaxFibs - 1) |-> routes[x]]
  BY DEF ToldInv, TablesInv
<1>4. CASE TableMeant(t.cmd) # f
  <2>1. routes'[TableMeant(t.cmd)] = routes[TableMeant(t.cmd)]
    BY <1>1, <1>2, <1>3, <1>4
  <2> QED
    BY <1>1, <2>1
<1>5. CASE TableMeant(t.cmd) = f
  <2>1. t \notin AboutRoute(f, d, g)
    OBVIOUS
  <2>2. t.cmd.dest # d \/ (g # {} /\ t.cmd.gw # g)
    BY <1>1, <1>5, <2>1 DEF AboutRoute, ToldRoutes
  <2>3. RouteAsTyped(t.cmd) \notin KernelMatches(f, d, g)
    BY <2>2 DEF KernelMatches, RouteAsTyped, Route
  <2>4. routes'[f] = routes[f] \ gone
    BY <1>2, <1>3
  <2> QED
    BY <1>1, <1>2, <1>5, <2>3, <2>4
<1> QED
  BY <1>4, <1>5

\* An entry that is remembered is there, as it was typed.
LEMMA ToldNeighbour ==
  ASSUME ToldInv, NEW t \in told, t.kind = "entry"
  PROVE  /\ t.cmd.fam = NeighbourFamily[t.cmd.ip] /\ t.cmd.ip \in Neighbours
         /\ t.cmd.fam \in Families
         /\ EntryAsSet(t.cmd) \in entries[t.cmd.fam]
BY AddressesAssumption
   DEF ToldInv, AllTold, IsTold, EntriesThere, EntryThere

LEMMA UntouchedKeeps ==
  ASSUME ToldInv, UNCHANGED entries
  PROVE  EntriesKept
<1> SUFFICES ASSUME NEW t \in told \cap told', t.kind = "entry"
             PROVE  EntryAsSet(t.cmd) \in entries'[t.cmd.fam]
  BY DEF EntriesKept
<1> QED
  BY ToldNeighbour

LEMMA NeighbourRemovalKeeps ==
  ASSUME ToldInv, NEW a \in Neighbours, told' \subseteq told \ AboutEntry(a),
         \A f \in Families : \A e \in entries[f] : e \in entries'[f] \/ e.ip = a
  PROVE  EntriesKept
<1> SUFFICES ASSUME NEW t \in told \cap told', t.kind = "entry"
             PROVE  EntryAsSet(t.cmd) \in entries'[t.cmd.fam]
  BY DEF EntriesKept
<1>1. t.cmd.ip # a
  BY DEF AboutEntry, ToldEntries
<1>2. EntryAsSet(t.cmd).ip = t.cmd.ip
  BY DEF EntryAsSet, Entry
<1>3. t.cmd.fam \in Families /\ EntryAsSet(t.cmd) \in entries[t.cmd.fam]
  BY ToldNeighbour
<1> QED
  BY <1>1, <1>2, <1>3

-----------------------------------------------------------------------------
(* The tables stay tables                                                  *)

LEMMA AddedTables ==
  ASSUME TablesInv, UNCHANGED <<fibs, processFib, entries>>, NEW f, NEW r, KernelAdds(f, r)
  PROVE  /\ TablesInv'
         /\ \A x \in 0..(MaxFibs - 1) : routes[x] \subseteq routes'[x]
         /\ f \in 0..(MaxFibs - 1) => r \in routes'[f]
<1>1. routes = [x \in 0..(MaxFibs - 1) |-> routes[x]]
  BY DEF TablesInv
<1>2. routes' = [routes EXCEPT ![f] = @ \cup {r}]
  BY DEF KernelAdds
<1>3. routes' = [x \in 0..(MaxFibs - 1) |-> routes'[x]]
  BY <1>1, <1>2
<1>4. \A x \in 0..(MaxFibs - 1) : routes[x] \subseteq routes'[x]
  BY <1>1, <1>2
<1>5. f \in 0..(MaxFibs - 1) => r \in routes'[f]
  BY <1>1, <1>2
<1> QED
  BY <1>3, <1>4, <1>5 DEF TablesInv

LEMMA RemovedTables ==
  ASSUME TablesInv, UNCHANGED <<fibs, processFib, entries>>, NEW f, NEW d, NEW g,
         KernelRemoves(f, d, g)
  PROVE  TablesInv'
<1>1. routes = [x \in 0..(MaxFibs - 1) |-> routes[x]]
  BY DEF TablesInv
<1>2. PICK gone : routes' = [routes EXCEPT ![f] = @ \ gone]
  BY DEF KernelRemoves
<1>3. routes' = [x \in 0..(MaxFibs - 1) |-> routes'[x]]
  BY <1>1, <1>2
<1> QED
  BY <1>3 DEF TablesInv

\* The entries but those of one neighbour stay.
LEMMA LearnedTables ==
  ASSUME TablesInv, UNCHANGED <<routes, fibs, processFib>>,
         NEW a \in Neighbours, NEW i, NEW m, NEW x, NEW p, KernelLearns(a, i, m, x, p)
  PROVE  /\ TablesInv'
         /\ \A f \in Families : \A e \in entries[f] :
              e \in entries'[f] \/ (e.ip = a /\ e.iface = KernelKnows(a, i))
         /\ Entry(a, KernelKnows(a, i), m, x, p) \in entries'[NeighbourFamily[a]]
<1>1. entries = [f \in Families |-> entries[f]] /\ NeighbourFamily[a] \in Families
  BY AddressesAssumption DEF TablesInv
<1> DEFINE old == {e \in entries[NeighbourFamily[a]] : e.ip = a /\ e.iface = KernelKnows(a, i)}
<1>2. entries' = [entries EXCEPT ![NeighbourFamily[a]] =
                    (@ \ old) \cup {Entry(a, KernelKnows(a, i), m, x, p)}]
  BY DEF KernelLearns
<1>3. entries' = [f \in Families |-> entries'[f]]
  BY <1>1, <1>2
<1>4. entries'[NeighbourFamily[a]] =
        (entries[NeighbourFamily[a]] \ old) \cup {Entry(a, KernelKnows(a, i), m, x, p)}
  BY <1>1, <1>2
<1>5. \A f \in Families : f # NeighbourFamily[a] => entries'[f] = entries[f]
  BY <1>1, <1>2
<1>6. ASSUME NEW f \in Families, NEW e \in entries[f], e \notin entries'[f]
      PROVE  e.ip = a /\ e.iface = KernelKnows(a, i)
  <2>1. f = NeighbourFamily[a]
    BY <1>5, <1>6
  <2>2. e \in old
    BY <1>4, <1>6, <2>1
  <2> QED
    BY <2>2
<1> QED
  BY <1>3, <1>4, <1>6 DEF TablesInv

LEMMA ForgottenTables ==
  ASSUME TablesInv, UNCHANGED <<routes, fibs, processFib>>, NEW a \in Neighbours,
         KernelForgets(a)
  PROVE  /\ TablesInv'
         /\ \A f \in Families : \A e \in entries[f] : e \in entries'[f] \/ e.ip = a
<1>1. entries = [f \in Families |-> entries[f]] /\ NeighbourFamily[a] \in Families
  BY AddressesAssumption DEF TablesInv
<1>2. PICK e \in entries[NeighbourFamily[a]] :
        e.ip = a /\ entries' = [entries EXCEPT ![NeighbourFamily[a]] = @ \ {e}]
  BY DEF KernelForgets
<1>3. entries' = [f \in Families |-> entries'[f]]
  BY <1>1, <1>2
<1>4. \A f \in Families : \A y \in entries[f] : y \in entries'[f] \/ y = e
  BY <1>1, <1>2
<1> QED
  BY <1>2, <1>3, <1>4 DEF TablesInv

-----------------------------------------------------------------------------
(* The steps                                                               *)

LEMMA NothingTold ==
  ASSUME told' \subseteq told
  PROVE  NewTold
BY DEF NewTold

LEMMA TheSameFibs ==
  ASSUME TablesInv, UNCHANGED <<fibs, processFib>>
  PROVE  FibsKept
BY FibsAssumption DEF TablesInv, FibsKept

\* A success that is remembered is one of the kernel.
LEMMA AddStep ==
  ASSUME ToldInv, NEW w \in RouteWords, SetRoute(w)
  PROVE  ToldInv'
<1>1. PICK c : c = parseRoute(w)
  OBVIOUS
<1>2. IsRouteCommand(c)
  BY <1>1, Parsed
<1>3. /\ UNCHANGED <<fibs, processFib, entries>>
      /\ KernelAdds(MessageFib(c), Route(MessageDest(c.dest), MessageGateway(c), c.sort))
      /\ told' = told \cup {ToldRoute(c, Plain(c))}
  BY <1>1 DEF SetRoute
<1>15. UNCHANGED <<fibs, processFib, entries>>
  BY <1>3
<1>4. TablesInv /\ FibsKept /\ EntriesKept
  BY <1>3, TheSameFibs, UntouchedKeeps DEF ToldInv
<1>5. MessageFib(c) \in 0..(MaxFibs - 1)
  BY <1>2, <1>4, MessageFibTable
<1>6. PICK r : r = Route(MessageDest(c.dest), MessageGateway(c), c.sort)
  OBVIOUS
<1>7. /\ TablesInv'
      /\ \A f \in 0..(MaxFibs - 1) : routes[f] \subseteq routes'[f]
      /\ r \in routes'[MessageFib(c)]
  BY <1>3, <1>4, <1>5, <1>6, AddedTables
<1>8. RoutesKept
  BY <1>7, GrowthKeeps
<1>9. PICK t : t = ToldRoute(c, Plain(c))
  OBVIOUS
<1>10. t.kind = "route" /\ t.cmd = c /\ (t.plain <=> Plain(c))
  BY <1>9 DEF ToldRoute
<1>11. /\ IsRouteCommand(c)' <=> IsRouteCommand(c)
       /\ Plain(c)' <=> Plain(c)
       /\ TableMeant(c)' = TableMeant(c)
       /\ RouteAsTyped(c)' = RouteAsTyped(c)
  BY <1>15 DEF IsRouteCommand, Single, Plain, Understood, IsNetwork, Width, Families,
              FibExists, TableMeant, RouteAsTyped, Route
<1>12. IsTold(t)'
  BY <1>2, <1>10, <1>11 DEF IsTold
<1>13. RouteThere(t)'
  <2>1. SUFFICES ASSUME Plain(c)
                 PROVE  RouteAsTyped(c) \in routes'[TableMeant(c)]
    BY <1>10, <1>11 DEF RouteThere
  <2>2. MessageDest(c.dest) = c.dest
    BY <1>2, <2>1, DestAsTyped DEF Plain, Understood, IsRouteCommand
  <2>3. MessageGateway(c) = c.gw
    BY <2>1, GatewayAsTyped DEF Plain
  <2>4. MessageFib(c) = TableMeant(c)
    BY <1>2, <2>1, FibAsTyped DEF Plain
  <2> QED
    BY <1>6, <1>7, <2>2, <2>3, <2>4 DEF RouteAsTyped
<1>14. NewTold
  BY <1>3, <1>9, <1>10, <1>12, <1>13 DEF NewTold
<1> QED
  BY <1>4, <1>7, <1>8, <1>14, Step

\* Whoever deletes routes: what was told of them is forgotten.
LEMMA Deleted ==
  ASSUME ToldInv, NEW f \in 0..(MaxFibs - 1), NEW d, NEW g, KernelRemoves(f, d, g),
         told' = told \ AboutRoute(f, d, g), UNCHANGED <<fibs, processFib, entries>>
  PROVE  ToldInv'
<1>1. TablesInv' /\ FibsKept
  BY RemovedTables, TheSameFibs DEF ToldInv
<1>2. RoutesKept /\ EntriesKept
  BY RemovalKeeps, UntouchedKeeps
<1>3. NewTold
  BY NothingTold
<1> QED
  BY <1>1, <1>2, <1>3, Step

\* Whoever adds routes or raises net.fibs takes nothing away.
LEMMA Grown ==
  ASSUME ToldInv, TablesInv', FibsKept, told' \subseteq told, UNCHANGED entries,
         \A f \in 0..(MaxFibs - 1) : routes[f] \subseteq routes'[f]
  PROVE  ToldInv'
<1>1. RoutesKept /\ EntriesKept
  BY GrowthKeeps, UntouchedKeeps
<1>2. NewTold
  BY NothingTold
<1> QED
  BY <1>1, <1>2, Step

LEMMA NothingHappens ==
  ASSUME ToldInv, UNCHANGED <<kernelVars, told>>
  PROVE  ToldInv'
<1>1. TablesInv' /\ FibsKept
  BY TheSameFibs DEF ToldInv, TablesInv, kernelVars
<1> QED
  BY <1>1, Grown DEF kernelVars

LEMMA DeleteStep ==
  ASSUME ToldInv, NEW w \in RouteWords, DeleteRoute(w)
  PROVE  ToldInv'
<1>1. PICK c : c = parseRoute(w)
  OBVIOUS
<1>2. MessageFib(c) \in 0..(MaxFibs - 1)
  BY <1>1, Parsed, MessageFibTable DEF ToldInv
<1>3. /\ UNCHANGED <<fibs, processFib, entries>>
      /\ KernelRemoves(MessageFib(c), MessageDest(c.dest), MessageGateway(c))
      /\ told' = told \ AboutRoute(MessageFib(c), MessageDest(c.dest), MessageGateway(c))
  BY <1>1 DEF DeleteRoute
<1> QED
  BY <1>2, <1>3, Deleted

LEMMA LearnStep ==
  ASSUME ToldInv, NEW w \in NeighbourWords, SetNeighbour(w)
  PROVE  ToldInv'
<1>1. UNCHANGED <<routes, fibs, processFib>>
  BY DEF SetNeighbour
<1>2. PICK m : m = CHOOSE x \in w.mac : TRUE
  OBVIOUS
<1>3. PICK p : p = (w.pub /\ w.fam = "inet")
  OBVIOUS
<1>4. /\ NeighbourFamily[w.ip] = w.fam
      /\ KernelLearns(w.ip, w.iface, m, FALSE, p)
      /\ told' = {t \in told : t \in ToldEntries /\ t.cmd.ip = w.ip =>
                    KernelKnows(t.cmd.ip, t.cmd.iface) # KernelKnows(w.ip, w.iface)}
                   \cup {ToldEntry(w)}
  BY <1>2, <1>3 DEF SetNeighbour
<1>5. w.ip \in Neighbours
  BY DEF NeighbourWords
<1>6. TablesInv' /\ FibsKept /\ RoutesKept
  <2>1. TablesInv'
    BY <1>1, <1>4, <1>5, LearnedTables DEF ToldInv
  <2>2. FibsKept
    BY <1>1, TheSameFibs DEF ToldInv
  <2>3. RoutesKept
    BY <1>1, GrowthKeeps
  <2> QED
    BY <2>1, <2>2, <2>3
<1>7. /\ \A f \in Families : \A e \in entries[f] :
           e \in entries'[f] \/ (e.ip = w.ip /\ e.iface = KernelKnows(w.ip, w.iface))
      /\ Entry(w.ip, KernelKnows(w.ip, w.iface), m, FALSE, p) \in entries'[w.fam]
  <2>1. TablesInv /\ KernelLearns(w.ip, w.iface, m, FALSE, p)
    BY <1>4 DEF ToldInv
  <2>2. /\ \A f \in Families : \A e \in entries[f] :
             e \in entries'[f] \/ (e.ip = w.ip /\ e.iface = KernelKnows(w.ip, w.iface))
        /\ Entry(w.ip, KernelKnows(w.ip, w.iface), m, FALSE, p)
             \in entries'[NeighbourFamily[w.ip]]
    BY <1>1, <1>5, <2>1, LearnedTables, ZenonT(40)
  <2> QED
    BY <1>4, <2>2, Zenon
<1>8. PICK n : n = ToldEntry(w)
  OBVIOUS
<1>9. n.kind = "entry" /\ n.cmd = w
  BY <1>8 DEF ToldEntry
<1>10. EntryAsSet(w) \in entries'[w.fam] /\ EntryAsSet(w)' = EntryAsSet(w)
  <2>1. EntryAsSet(w) = Entry(w.ip, KernelKnows(w.ip, w.iface), m, FALSE, p)
    BY <1>2, <1>3 DEF EntryAsSet
  <2>2. EntryAsSet(w)' = EntryAsSet(w)
    BY DEF EntryAsSet, Entry, KernelKnows
  <2> QED
    BY <1>7, <2>1, <2>2
<1>11. EntriesKept
  <2> SUFFICES ASSUME NEW t \in told \cap told', t.kind = "entry"
               PROVE  EntryAsSet(t.cmd) \in entries'[t.cmd.fam]
    BY DEF EntriesKept
  <2>1. t.cmd.fam \in Families /\ EntryAsSet(t.cmd) \in entries[t.cmd.fam]
    BY ToldNeighbour
  <2>2. CASE t = n
    BY <1>9, <1>10, <2>2
  <2>3. CASE t # n
    <3>1. t.cmd.ip = w.ip =>
            KernelKnows(t.cmd.ip, t.cmd.iface) # KernelKnows(w.ip, w.iface)
      BY <1>4, <1>8, <2>3 DEF ToldEntries
    <3>2. /\ EntryAsSet(t.cmd).ip = t.cmd.ip
          /\ EntryAsSet(t.cmd).iface = KernelKnows(t.cmd.ip, t.cmd.iface)
      BY DEF EntryAsSet, Entry
    <3> QED
      BY <1>7, <2>1, <3>1, <3>2
  <2> QED
    BY <2>2, <2>3
<1>12. NewTold
  <2>1. IsTold(n)' /\ EntryThere(n)'
    BY <1>4, <1>5, <1>9, <1>10 DEF IsTold, EntryThere
  <2> QED
    BY <1>4, <1>8, <1>9, <2>1 DEF NewTold
<1> QED
  BY <1>6, <1>11, <1>12, Step

\* An entry that went away, or was learned anew by the kernel, is not told.
LEMMA Forgotten ==
  ASSUME ToldInv, NEW a \in Neighbours, UNCHANGED <<routes, fibs, processFib>>, TablesInv',
         told' = told \ AboutEntry(a),
         \A f \in Families : \A e \in entries[f] : e \in entries'[f] \/ e.ip = a
  PROVE  ToldInv'
<1>1. FibsKept /\ RoutesKept
  BY TheSameFibs, GrowthKeeps DEF ToldInv
<1>2. EntriesKept /\ NewTold
  BY NeighbourRemovalKeeps, NothingTold
<1> QED
  BY <1>1, <1>2, Step

LEMMA ForgetStep ==
  ASSUME ToldInv, NEW w \in AddressWords, DeleteNeighbour(w)
  PROVE  ToldInv'
<1>1. w.ip \in Neighbours
  BY DEF AddressWords
<1>2. UNCHANGED <<routes, fibs, processFib>>
  BY DEF DeleteNeighbour
<1>3. KernelForgets(w.ip) /\ told' = told \ AboutEntry(w.ip)
  BY DEF DeleteNeighbour
<1> QED
  BY <1>1, <1>2, <1>3, ForgottenTables, Forgotten DEF ToldInv

LEMMA RouteOthersStep ==
  ASSUME ToldInv, RouteOthers
  PROVE  ToldInv'
<1>1. DOMAIN routes = 0..(MaxFibs - 1) /\ TablesInv
  BY DEF ToldInv, TablesInv
<1>2. ASSUME NEW f, NEW r, OthersAddRoute(f, r), Others({})
      PROVE  ToldInv'
  <2>1. /\ KernelAdds(f, r) /\ UNCHANGED <<fibs, processFib, entries>>
        /\ told' \subseteq told
    BY <1>2 DEF OthersAddRoute, Others
  <2>2. TablesInv' /\ \A x \in 0..(MaxFibs - 1) : routes[x] \subseteq routes'[x]
    BY <1>1, <2>1, AddedTables
  <2>3. FibsKept
    BY <1>1, <2>1, TheSameFibs
  <2> QED
    BY <2>1, <2>2, <2>3, Grown
<1>3. ASSUME NEW f \in DOMAIN routes, NEW d, OthersDeleteRoute(f, d),
             Others(AboutRoute(f, d, {}))
      PROVE  ToldInv'
  <2>1. /\ KernelRemoves(f, d, {}) /\ UNCHANGED <<fibs, processFib, entries>>
        /\ told' = told \ AboutRoute(f, d, {})
    BY <1>3 DEF OthersDeleteRoute, Others
  <2> QED
    BY <1>1, <1>3, <2>1, Deleted
<1>4. ASSUME OthersRaiseFibs, Others({})
      PROVE  ToldInv'
  <2>1. /\ fibs < MaxFibs /\ fibs' = fibs + 1 /\ UNCHANGED <<routes, processFib, entries>>
        /\ told' \subseteq told
    BY <1>4 DEF OthersRaiseFibs, Others
  <2>2. TablesInv' /\ FibsKept
    BY <1>1, <2>1, FibsAssumption DEF TablesInv, FibsKept
  <2> QED
    BY <2>1, <2>2, Grown
<1> QED
  BY <1>2, <1>3, <1>4 DEF RouteOthers

LEMMA EntryOthersStep ==
  ASSUME ToldInv, EntryOthers
  PROVE  ToldInv'
<1>1. CASE \E a \in Neighbours, i \in Interfaces, m \in Macs :
             OthersLearn(a, i, m) /\ Others(AboutEntry(a))
  <2>1. PICK a \in Neighbours, i \in Interfaces, m \in Macs :
          OthersLearn(a, i, m) /\ Others(AboutEntry(a))
    BY <1>1
  <2>2. /\ KernelLearns(a, {i}, m, TRUE, FALSE) /\ UNCHANGED <<routes, fibs, processFib>>
        /\ told' = told \ AboutEntry(a)
    BY <2>1 DEF OthersLearn, Others
  <2> QED
    BY <2>2, LearnedTables, Forgotten DEF ToldInv
<1>2. CASE \E a \in Neighbours : OthersForget(a) /\ Others(AboutEntry(a))
  <2>1. PICK a \in Neighbours : OthersForget(a) /\ Others(AboutEntry(a))
    BY <1>2
  <2>2. /\ KernelForgets(a) /\ UNCHANGED <<routes, fibs, processFib>>
        /\ told' = told \ AboutEntry(a)
    BY <2>1 DEF OthersForget, Others
  <2> QED
    BY <2>2, ForgottenTables, Forgotten DEF ToldInv
<1> QED
  BY <1>1, <1>2 DEF EntryOthers

LEMMA NextInv ==
  ASSUME ToldInv, [TablesNext]_tableVars
  PROVE  ToldInv'
<1>1. ASSUME NEW q, SizeTable(q)
      PROVE  ToldInv'
  BY <1>1, NothingHappens DEF SizeTable
<1>2. CASE FetchTable
  BY <1>2, NothingHappens DEF FetchTable
<1>6. CASE CommandFails
  BY <1>6, NothingHappens DEF CommandFails
<1>3. CASE RouteNext
  BY <1>1, <1>2, <1>3, <1>6, AddStep, DeleteStep, RouteOthersStep DEF RouteNext, DeleteWords
<1>4. CASE EntryNext
  BY <1>1, <1>2, <1>4, <1>6, LearnStep, ForgetStep, EntryOthersStep DEF EntryNext
<1>5. CASE UNCHANGED tableVars
  BY <1>5, NothingHappens DEF tableVars
<1> QED
  BY <1>3, <1>4, <1>5 DEF TablesNext

\* What was answered "added" or "set successfully" is in the table the command
\* named until somebody takes it away, but for the exceptions AddedIsThere
\* names (an entry typed `temp` is permanent, a route's interface is not sent,
\* a FIB, prefix or gateway that is none): however many FIBs there are, whatever
\* other programs do and however long it goes on (executeSetRoute,
\* routeSocketOp, SetArpEntry, SetNdpEntry).
THEOREM AddedStaysThere == TablesSpec => []AddedIsThere
<1>1. ToldInv => AddedIsThere
  BY DEF ToldInv, RoutesThere, RouteThere, EntriesThere, EntryThere, AddedIsThere,
         ToldRoutes, ToldEntries
<1> QED
  BY <1>1, InitInv, NextInv, PTL DEF TablesSpec

-----------------------------------------------------------------------------
(* What is shown                                                           *)

ShowQueries == RouteQuery \cup EntryQuery

TablesFinite ==
  /\ \A f \in 0..(MaxFibs - 1) : IsFiniteSet(routes[f])
  /\ \A f \in Families : IsFiniteSet(entries[f])

\* A show between its two calls: the table was as large as it was said to be,
\* and has not grown since.
Listing(q, n, b) ==
  /\ listing = [query |-> {q}, size |-> n, grew |-> b]
  /\ q.kind = "route" => FibExists(ListedFib(q))
  /\ ~b => Cardinality(Table(q)) <= n
ListingInv ==
  listing = NoListing \/ \E q \in ShowQueries, n \in Nat, b \in BOOLEAN : Listing(q, n, b)

ShownInv == ToldInv /\ TablesFinite /\ ListingInv /\ ShownAsTold

LEMMA QueryKind ==
  ASSUME NEW q \in ShowQueries
  PROVE  \/ q.kind = "route" /\ q.dest \in Optional(Destinations) /\ q.vrf \in Optional(AskedFibs)
         \/ q.kind \in Families /\ q.kind # "route"
BY DEF ShowQueries, RouteQuery, EntryQuery, Families

LEMMA ListedTable ==
  ASSUME TablesInv, NEW q \in ShowQueries, q.kind = "route" => FibExists(ListedFib(q))
  PROVE  \/ q.kind = "route" /\ ListedFib(q) \in 0..(MaxFibs - 1) /\ Table(q) = routes[ListedFib(q)]
         \/ q.kind # "route" /\ q.kind \in Families /\ Table(q) = entries[q.kind]
BY QueryKind, FibTable DEF Table

\* What was told is in the table that is asked for.
LEMMA ToldIsInTable ==
  ASSUME ToldInv, NEW q \in ShowQueries, NEW t \in told, AsksFor(q, t)
  PROVE  /\ t.kind = "entry" => EntryAsSet(t.cmd) \in Table(q)
         /\ t.kind # "entry" => RouteAsTyped(t.cmd) \in Table(q)
<1>1. CASE t.kind = "entry"
  <2>1. q.kind = t.cmd.fam
    BY <1>1 DEF AsksFor
  <2>2. t.cmd.fam \in Families /\ EntryAsSet(t.cmd) \in entries[t.cmd.fam]
    BY <1>1, ToldNeighbour
  <2>3. Table(q) = entries[q.kind]
    BY <2>1, <2>2 DEF Table, Families
  <2> QED
    BY <1>1, <2>1, <2>2, <2>3
<1>2. CASE t.kind # "entry"
  <2>1. t.kind = "route"
    BY <1>2 DEF ToldInv, AllTold, IsTold
  <2>2. t.plain /\ q.kind = "route" /\ q.vrf = t.cmd.vrf /\ (q.vrf = {} => processFib = 0)
    BY <2>1 DEF AsksFor
  <2>3. ListedFib(q) = TableMeant(t.cmd)
    BY <2>2 DEF ListedFib, TableMeant
  <2>4. FibExists(TableMeant(t.cmd)) /\ RouteAsTyped(t.cmd) \in routes[TableMeant(t.cmd)]
    BY <2>1, <2>2, ToldPlain DEF Plain
  <2>5. Table(q) = routes[ListedFib(q)]
    BY <2>2, <2>3, <2>4 DEF Table
  <2> QED
    BY <1>2, <2>3, <2>4, <2>5
<1> QED
  BY <1>1, <1>2

\* What is shown of that table shows it.
ShowsTold(q, t, S) ==
  IF t.kind = "entry" THEN EntryAsSet(t.cmd) \in S
  ELSE IF q.dest = {} THEN RouteAsTyped(t.cmd) \in S
  ELSE \E r \in S : r.to = t.cmd.dest

LEMMA FoundShows ==
  ASSUME ToldInv, NEW q \in ShowQueries, NEW t \in told, AsksFor(q, t),
         NEW S \in Found(q, Table(q))
  PROVE  ShowsTold(q, t, S)
<1>1. CASE t.kind = "entry"
  <2>1. /\ q.kind = t.cmd.fam /\ (q.ip # {} => q.printed /\ q.ip = {t.cmd.ip})
        /\ q.iface \subseteq {KernelKnows(t.cmd.ip, t.cmd.iface)}
    BY <1>1 DEF AsksFor
  <2>2. q.kind # "route"
    BY <1>1, <2>1, ToldNeighbour DEF Families
  <2>3. \A e \in Table(q) :
          (q.ip # {} => ({e.ip} = q.ip /\ q.printed)) /\ (q.iface # {} => {e.iface} = q.iface)
          => e \in S
    <3>1. S \in FoundEntries(q, Table(q))
      BY <2>2 DEF Found
    <3> QED
      BY <3>1 DEF FoundEntries
  <2>4. /\ EntryAsSet(t.cmd).ip = t.cmd.ip
        /\ EntryAsSet(t.cmd).iface = KernelKnows(t.cmd.ip, t.cmd.iface)
    BY DEF EntryAsSet, Entry
  <2>5. EntryAsSet(t.cmd) \in Table(q)
    BY <1>1, ToldIsInTable
  <2> QED
    BY <1>1, <2>1, <2>3, <2>4, <2>5 DEF ShowsTold
<1>2. CASE t.kind # "entry"
  <2>1. t.kind = "route"
    BY <1>2 DEF ToldInv, AllTold, IsTold
  <2>2. q.kind = "route" /\ (q.dest # {} => q.printed /\ q.dest = {t.cmd.dest})
    BY <2>1 DEF AsksFor
  <2>3. S \in FoundRoutes(q, Table(q))
    BY <2>2 DEF Found
  <2>4. RouteAsTyped(t.cmd) \in Table(q)
    BY <1>2, ToldIsInTable
  <2>5. CASE q.dest = {}
    BY <1>2, <2>3, <2>4, <2>5 DEF FoundRoutes, ShowsTold
  <2>6. CASE q.dest # {}
    <3>1. q.printed /\ q.dest = {t.cmd.dest}
      BY <2>2, <2>6
    <3>2. PICK fits : fits = {r \in Table(q) : {r.to} = q.dest /\ q.printed}
      OBVIOUS
    <3>3. RouteAsTyped(t.cmd) \in fits
      BY <2>4, <3>1, <3>2 DEF RouteAsTyped, Route
    <3>4. S \in {{r} : r \in fits}
      BY <2>3, <2>6, <3>2, <3>3 DEF FoundRoutes
    <3>5. PICK r \in fits : S = {r}
      BY <3>4
    <3>6. r.to = t.cmd.dest
      BY <3>1, <3>2
    <3> QED
      BY <1>2, <2>6, <3>5, <3>6 DEF ShowsTold
  <2> QED
    BY <2>5, <2>6
<1> QED
  BY <1>1, <1>2

-----------------------------------------------------------------------------
(* The tables stay finite                                                  *)

LEMMA AddedFinite ==
  ASSUME TablesInv, TablesFinite, NEW f, NEW r, KernelAdds(f, r), UNCHANGED entries
  PROVE  TablesFinite'
<1>1. routes = [x \in 0..(MaxFibs - 1) |-> routes[x]]
  BY DEF TablesInv
<1>2. \A x \in 0..(MaxFibs - 1) : routes'[x] = IF x = f THEN routes[x] \cup {r} ELSE routes[x]
  BY <1>1 DEF KernelAdds
<1>3. ASSUME NEW x \in 0..(MaxFibs - 1)
      PROVE  IsFiniteSet(routes'[x])
  <2>1. IsFiniteSet(routes[x])
    BY DEF TablesFinite
  <2>2. IsFiniteSet(routes[x] \cup {r})
    BY <2>1, FS_AddElement
  <2> QED
    BY <1>2, <2>1, <2>2
<1> QED
  BY <1>3 DEF TablesFinite

LEMMA ShrunkFinite ==
  ASSUME TablesFinite,
         \A x \in 0..(MaxFibs - 1) : routes'[x] \subseteq routes[x],
         \A g \in Families : entries'[g] \subseteq entries[g]
  PROVE  TablesFinite'
<1>1. ASSUME NEW x \in 0..(MaxFibs - 1)
      PROVE  IsFiniteSet(routes'[x])
  BY FS_Subset DEF TablesFinite
<1>2. ASSUME NEW g \in Families
      PROVE  IsFiniteSet(entries'[g])
  BY FS_Subset DEF TablesFinite
<1> QED
  BY <1>1, <1>2 DEF TablesFinite

LEMMA RemovedFinite ==
  ASSUME TablesInv, TablesFinite, NEW f, NEW d, NEW g, KernelRemoves(f, d, g),
         UNCHANGED entries
  PROVE  TablesFinite'
<1>1. routes = [x \in 0..(MaxFibs - 1) |-> routes[x]]
  BY DEF TablesInv
<1>2. PICK gone : routes' = [routes EXCEPT ![f] = @ \ gone]
  BY DEF KernelRemoves
<1>3. \A x \in 0..(MaxFibs - 1) : routes'[x] \subseteq routes[x]
  BY <1>1, <1>2
<1> QED
  BY <1>3, ShrunkFinite

LEMMA LearnedFinite ==
  ASSUME TablesInv, TablesFinite, NEW a \in Neighbours, NEW i, NEW m, NEW x, NEW p,
         KernelLearns(a, i, m, x, p), UNCHANGED routes
  PROVE  TablesFinite'
<1>1. PICK e : e = Entry(a, KernelKnows(a, i), m, x, p)
  OBVIOUS
<1>2. PICK old : entries' = [entries EXCEPT ![NeighbourFamily[a]] = (@ \ old) \cup {e}]
  BY <1>1 DEF KernelLearns
<1>3. entries = [f \in Families |-> entries[f]]
  BY DEF TablesInv
<1>4. \A f \in Families :
        entries'[f] = IF f = NeighbourFamily[a] THEN (entries[f] \ old) \cup {e} ELSE entries[f]
  BY <1>2, <1>3
<1>5. ASSUME NEW f \in Families
      PROVE  IsFiniteSet(entries'[f])
  <2>1. IsFiniteSet(entries[f])
    BY DEF TablesFinite
  <2>2. IsFiniteSet(entries[f] \ old)
    BY <2>1, FS_Subset
  <2>3. IsFiniteSet((entries[f] \ old) \cup {e})
    BY <2>2, FS_AddElement
  <2> QED
    BY <1>4, <2>1, <2>3
<1> QED
  BY <1>5 DEF TablesFinite

LEMMA ForgottenFinite ==
  ASSUME TablesInv, TablesFinite, NEW a, KernelForgets(a), UNCHANGED routes
  PROVE  TablesFinite'
<1>1. PICK e : entries' = [entries EXCEPT ![NeighbourFamily[a]] = @ \ {e}]
  BY DEF KernelForgets
<1>2. entries = [f \in Families |-> entries[f]]
  BY DEF TablesInv
<1>3. \A f \in Families : entries'[f] \subseteq entries[f]
  BY <1>1, <1>2
<1> QED
  BY <1>3, ShrunkFinite

LEMMA FiniteStep ==
  ASSUME ToldInv, TablesFinite, [TablesNext]_tableVars
  PROVE  TablesFinite'
<1> TablesInv
  BY DEF ToldInv
<1>1. ASSUME UNCHANGED <<routes, entries>>
      PROVE  TablesFinite'
  BY <1>1 DEF TablesFinite
<1>2. ASSUME NEW w \in RouteWords, SetRoute(w)
      PROVE  TablesFinite'
  BY <1>1, <1>2, AddedFinite DEF SetRoute
<1>3. ASSUME NEW w \in RouteWords, DeleteRoute(w)
      PROVE  TablesFinite'
  BY <1>1, <1>3, RemovedFinite DEF DeleteRoute
<1>4. ASSUME NEW w \in NeighbourWords, SetNeighbour(w)
      PROVE  TablesFinite'
  <2>1. w.ip \in Neighbours
    BY DEF NeighbourWords
  <2>2. \E m, p : KernelLearns(w.ip, w.iface, m, FALSE, p)
    BY <1>4 DEF SetNeighbour
  <2>3. UNCHANGED routes
    BY <1>4 DEF SetNeighbour
  <2> QED
    BY <2>1, <2>2, <2>3, LearnedFinite
<1>5. ASSUME NEW w \in AddressWords, DeleteNeighbour(w)
      PROVE  TablesFinite'
  BY <1>1, <1>5, ForgottenFinite DEF DeleteNeighbour
<1>6. ASSUME NEW q, SizeTable(q)
      PROVE  TablesFinite'
  BY <1>1, <1>6 DEF SizeTable, kernelVars
<1>7. CASE FetchTable
  BY <1>1, <1>7 DEF FetchTable, kernelVars
<1>11. CASE CommandFails
  BY <1>1, <1>11 DEF CommandFails, kernelVars
<1>8. CASE RouteOthers
  <2>1. ASSUME NEW f, NEW r, OthersAddRoute(f, r)
        PROVE  TablesFinite'
    BY <2>1, AddedFinite DEF OthersAddRoute
  <2>2. ASSUME NEW f, NEW d, OthersDeleteRoute(f, d)
        PROVE  TablesFinite'
    BY <2>2, RemovedFinite DEF OthersDeleteRoute
  <2>3. CASE OthersRaiseFibs
    BY <1>1, <2>3 DEF OthersRaiseFibs
  <2> QED
    BY <1>8, <2>1, <2>2, <2>3 DEF RouteOthers
<1>9. CASE EntryOthers
  <2>1. ASSUME NEW a \in Neighbours, NEW i, NEW m, OthersLearn(a, i, m)
        PROVE  TablesFinite'
    BY <2>1, LearnedFinite DEF OthersLearn
  <2>2. ASSUME NEW a \in Neighbours, OthersForget(a)
        PROVE  TablesFinite'
    BY <2>2, ForgottenFinite DEF OthersForget
  <2> QED
    BY <1>9, <2>1, <2>2 DEF EntryOthers
<1>10. CASE UNCHANGED tableVars
  BY <1>1, <1>10 DEF tableVars, kernelVars
<1> QED
  BY <1>2, <1>3, <1>4, <1>5, <1>6, <1>7, <1>8, <1>9, <1>10, <1>11
     DEF TablesNext, RouteNext, EntryNext, DeleteWords

-----------------------------------------------------------------------------
(* A show and those who come between its calls                             *)

\* Nothing that was told is missing, as long as nothing is being shown.
LEMMA NothingShown ==
  ASSUME answer' = NoAnswer
  PROVE  ShownAsTold'
BY DEF ShownAsTold, NoAnswer

LEMMA SizeStep ==
  ASSUME ToldInv, TablesFinite, NEW q \in ShowQueries, SizeTable(q)
  PROVE  ListingInv' /\ ShownAsTold'
<1>0. UNCHANGED <<routes, fibs, processFib, entries, told>>
  BY DEF SizeTable, kernelVars
<1>1. CASE Table(q) = {}
  <2>1. answer' = [query |-> {q}, found |-> {}, grew |-> FALSE] /\ listing' = NoListing
    BY <1>1 DEF SizeTable
  <2>2. \A t \in told : ~ AsksFor(q, t)
    BY <1>1, ToldIsInTable
  <2>3. \A t \in told : AsksFor(q, t)' => AsksFor(q, t)
    BY <1>0 DEF AsksFor, KernelKnows
  <2> QED
    BY <1>0, <2>1, <2>2, <2>3 DEF ShownAsTold, ListingInv, NoListing
<1>2. CASE Table(q) # {}
  <2>1. answer' = NoAnswer
    BY <1>2 DEF SizeTable
  <2>2. q.kind = "route" => FibExists(ListedFib(q))
    BY <1>2 DEF Table
  <2>3. IsFiniteSet(Table(q))
    BY <2>2, ListedTable DEF TablesFinite, ToldInv
  <2>4. PICK n : n = Cardinality(Table(q))
    OBVIOUS
  <2>5. n \in Nat /\ listing' = [query |-> {q}, size |-> n, grew |-> FALSE]
    BY <1>2, <2>3, <2>4, FS_CardinalityType DEF SizeTable
  <2>6. /\ q.kind = "route" => FibExists(ListedFib(q))'
        /\ Table(q)' = Table(q)
    BY <1>0, <2>2 DEF FibExists, ListedFib, Table
  <2>7. Listing(q, n, FALSE)'
    BY <2>4, <2>5, <2>6 DEF Listing
  <2> QED
    BY <2>1, <2>5, <2>7, NothingShown DEF ListingInv
<1> QED
  BY <1>1, <1>2

LEMMA FetchStep ==
  ASSUME ToldInv, TablesFinite, ListingInv, FetchTable
  PROVE  ListingInv' /\ ShownAsTold'
<1>0. listing' = NoListing /\ UNCHANGED <<routes, fibs, processFib, entries, told>>
  BY DEF FetchTable, kernelVars
<1>1. listing # NoListing
  BY DEF FetchTable, NoListing
<1>2. PICK q \in ShowQueries, n \in Nat, b \in BOOLEAN : Listing(q, n, b)
  BY <1>1 DEF ListingInv
<1>3. listing.query = {q} /\ listing.size = n /\ listing.grew = b
  BY <1>2 DEF Listing
<1>4. PICK S \in IF Cardinality(Table(q)) > n THEN {{}} ELSE Found(q, Table(q)) :
        answer' = [query |-> {q}, found |-> S, grew |-> b]
  BY <1>3 DEF FetchTable
<1>5. answer'.query = {q} /\ answer'.found = S /\ answer'.grew = b
  BY <1>4
<1>6. ASSUME NEW t \in told, AsksFor(q, t), ~b
      PROVE  Lists(q, t)'
  <2>1. IsFiniteSet(Table(q))
    BY <1>2, ListedTable DEF Listing, TablesFinite, ToldInv
  <2>2. Cardinality(Table(q)) <= n /\ Cardinality(Table(q)) \in Nat
    BY <1>2, <1>6, <2>1, FS_CardinalityType DEF Listing
  <2>3. ~ (Cardinality(Table(q)) > n)
    BY <2>2
  <2>4. S \in Found(q, Table(q))
    BY <1>4, <2>3
  <2>5. ShowsTold(q, t, S)
    BY <1>6, <2>4, FoundShows
  <2>6. EntryAsSet(t.cmd)' = EntryAsSet(t.cmd) /\ RouteAsTyped(t.cmd)' = RouteAsTyped(t.cmd)
    BY DEF EntryAsSet, Entry, KernelKnows, RouteAsTyped, Route
  <2> QED
    BY <1>5, <2>5, <2>6 DEF ShowsTold, Lists
<1>7. \A t \in told : AsksFor(q, t)' => AsksFor(q, t)
  BY <1>0 DEF AsksFor, KernelKnows
<1>8. ShownAsTold'
  <2> SUFFICES ASSUME NEW t \in told, AsksFor(q, t)'
               PROVE  Lists(q, t)' \/ answer'.grew
    BY <1>0, <1>5 DEF ShownAsTold
  <2>1. CASE b
    BY <1>5, <2>1
  <2>2. CASE ~b
    BY <1>6, <1>7, <2>2
  <2> QED
    BY <2>1, <2>2
<1> QED
  BY <1>0, <1>8 DEF ListingInv

\* Others may shrink a table that is being read; if they let one grow, that is
\* remembered.
LEMMA OthersStep ==
  ASSUME ToldInv, TablesFinite, ListingInv, NEW u, Others(u), TablesInv', FibsKept
  PROVE  ListingInv' /\ ShownAsTold'
<1>1. answer' = NoAnswer
  BY DEF Others
<1>2. PICK r : r = (\E f \in DOMAIN routes : ~(routes'[f] \subseteq routes[f])
                     \/ \E g \in Families : ~(entries'[g] \subseteq entries[g]))
  OBVIOUS
<1>3. listing' = [listing EXCEPT !.grew = @ \/ (listing # NoListing /\ r)]
  BY <1>2 DEF Others
<1>4. CASE listing = NoListing
  <2>1. listing' = NoListing
    BY <1>3, <1>4 DEF NoListing
  <2> QED
    BY <1>1, <2>1, NothingShown DEF ListingInv
<1>5. CASE listing # NoListing
  <2>1. PICK q \in ShowQueries, n \in Nat, b \in BOOLEAN : Listing(q, n, b)
    BY <1>5 DEF ListingInv
  <2>2. PICK c \in BOOLEAN : c = (b \/ r)
    OBVIOUS
  <2>3. listing' = [query |-> {q}, size |-> n, grew |-> c]
    BY <1>3, <1>5, <2>1, <2>2 DEF Listing
  <2>4. q.kind = "route" => FibExists(ListedFib(q)) /\ FibExists(ListedFib(q))'
    BY <2>1, FibsAssumption DEF Listing, FibExists, FibsKept, ToldInv, TablesInv, ListedFib
  <2>5. ASSUME ~c
        PROVE  Cardinality(Table(q)') <= n
    <3>1. ~b /\ ~r
      BY <2>2, <2>5
    <3>2. /\ \A f \in 0..(MaxFibs - 1) : routes'[f] \subseteq routes[f]
          /\ \A g \in Families : entries'[g] \subseteq entries[g]
      <4>1. DOMAIN routes = 0..(MaxFibs - 1) /\ 0 \in DOMAIN routes
        BY FibsAssumption DEF ToldInv, TablesInv
      <4>2. ~ (\E f \in DOMAIN routes : ~(routes'[f] \subseteq routes[f])
                 \/ \E g \in Families : ~(entries'[g] \subseteq entries[g]))
        BY <1>2, <3>1, Zenon
      <4> QED
        BY <4>1, <4>2, Zenon
    <3>3. IsFiniteSet(Table(q))
      BY <2>4, ListedTable DEF TablesFinite, ToldInv
    <3>6. Table(q)' \subseteq Table(q)
      <4>1. CASE q.kind = "route"
        <5>1. Table(q) = routes[ListedFib(q)] /\ Table(q)' = routes'[ListedFib(q)]
          BY <2>4, <4>1 DEF Table, ListedFib
        <5>2. ListedFib(q) \in 0..(MaxFibs - 1)
          BY <2>4, <4>1, FibsAssumption DEF FibExists, ToldInv, TablesInv
        <5> QED
          BY <3>2, <5>1, <5>2
      <4>2. CASE q.kind # "route"
        <5>1. Table(q) = entries[q.kind] /\ Table(q)' = entries'[q.kind]
          BY <4>2 DEF Table
        <5>2. q.kind \in Families
          BY <4>2, QueryKind
        <5> QED
          BY <3>2, <5>1, <5>2
      <4> QED
        BY <4>1, <4>2
    <3>4. Cardinality(Table(q)) <= n
      BY <2>1, <3>1 DEF Listing
    <3>5. /\ Cardinality(Table(q)') <= Cardinality(Table(q))
          /\ Cardinality(Table(q)') \in Nat /\ Cardinality(Table(q)) \in Nat
      BY <3>3, <3>6, FS_Subset, FS_CardinalityType
    <3> QED
      BY <3>4, <3>5
  <2>6. Listing(q, n, c)'
    BY <2>3, <2>4, <2>5 DEF Listing
  <2> QED
    BY <1>1, <2>6, NothingShown DEF ListingInv
<1> QED
  BY <1>4, <1>5

LEMMA ShownStep ==
  ASSUME ShownInv, [TablesNext]_tableVars
  PROVE  ShownInv'
<1> ToldInv /\ TablesFinite /\ ListingInv
  BY DEF ShownInv
<1>1. ToldInv' /\ TablesFinite'
  BY NextInv, FiniteStep
<1>2. TablesInv /\ TablesInv'
  BY <1>1 DEF ToldInv
<1>7. UNCHANGED <<fibs, processFib>> => FibsKept
  BY <1>2, TheSameFibs
<1>8. OthersRaiseFibs => FibsKept
  BY <1>2, FibsAssumption DEF OthersRaiseFibs, FibsKept, TablesInv
<1>3. ASSUME listing = NoListing, UNCHANGED listing, answer' = NoAnswer
      PROVE  ListingInv' /\ ShownAsTold'
  BY <1>3, NothingShown DEF ListingInv
<1>4. CASE RouteNext
  <2>1. ASSUME NEW w, SetRoute(w) \/ DeleteRoute(w) \/ CommandFails
        PROVE  ListingInv' /\ ShownAsTold'
    BY <1>3, <2>1 DEF SetRoute, DeleteRoute, CommandFails
  <2>2. ASSUME NEW q \in RouteQuery, SizeTable(q)
        PROVE  ListingInv' /\ ShownAsTold'
    BY <2>2, SizeStep DEF ShowQueries
  <2>3. CASE RouteOthers
    <3>1. PICK u : Others(u)
      BY <2>3 DEF RouteOthers
    <3>2. FibsKept
      BY <1>7, <1>8, <2>3 DEF RouteOthers, OthersAddRoute, OthersDeleteRoute
    <3> QED
      BY <1>1, <1>2, <3>1, <3>2, OthersStep DEF ShownInv
  <2> QED
    BY <1>1, <1>4, <2>1, <2>2, <2>3, FetchStep DEF RouteNext, ShownInv
<1>5. CASE EntryNext
  <2>1. ASSUME NEW w, SetNeighbour(w) \/ DeleteNeighbour(w) \/ CommandFails
        PROVE  ListingInv' /\ ShownAsTold'
    BY <1>3, <2>1 DEF SetNeighbour, DeleteNeighbour, CommandFails
  <2>2. ASSUME NEW q \in EntryQuery, SizeTable(q)
        PROVE  ListingInv' /\ ShownAsTold'
    BY <2>2, SizeStep DEF ShowQueries
  <2>3. CASE EntryOthers
    <3>1. PICK u : Others(u)
      BY <2>3 DEF EntryOthers
    <3>2. FibsKept
      BY <1>7, <2>3 DEF EntryOthers, OthersLearn, OthersForget
    <3> QED
      BY <1>1, <1>2, <3>1, <3>2, OthersStep DEF ShownInv
  <2> QED
    BY <1>1, <1>5, <2>1, <2>2, <2>3, FetchStep DEF EntryNext, ShownInv
<1>6. CASE UNCHANGED tableVars
  <2>1. ListingInv'
    BY <1>6 DEF ListingInv, Listing, tableVars, kernelVars, FibExists, ListedFib, Table
  <2>2. ShownAsTold'
    <3>1. /\ UNCHANGED <<answer, told, processFib>> /\ ShownAsTold
          /\ \A w : EntryAsSet(w)' = EntryAsSet(w)
          /\ \A c : RouteAsTyped(c)' = RouteAsTyped(c)
      BY <1>6 DEF ShownInv, tableVars, kernelVars, EntryAsSet, Entry, KernelKnows,
                  RouteAsTyped, Route
    <3>2. \A q, t : /\ AsksFor(q, t)' <=> AsksFor(q, t)
                    /\ Lists(q, t)' <=> Lists(q, t)
      BY <3>1 DEF AsksFor, Lists, KernelKnows
    <3> QED
      BY <3>1, <3>2 DEF ShownAsTold
  <2> QED
    BY <1>1, <2>1, <2>2 DEF ShownInv
<1> QED
  BY <1>4, <1>5, <1>6 DEF TablesNext

LEMMA ShownInit == TablesInit => ShownInv
<1>1. TablesInit => TablesFinite
  BY FS_EmptySet DEF TablesInit, KernelInit, TablesFinite
<1>2. TablesInit => ListingInv /\ ShownAsTold
  BY DEF TablesInit, ListingInv, ShownAsTold, NoAnswer
<1> QED
  BY <1>1, <1>2, InitInv DEF ShownInv

\* Of any tables, however large, and whatever others do between the two calls
\* of a show: what a set put into the table is listed when the whole table is
\* asked for, or the prefix or address as the program itself prints it (any other
\* spelling finds nothing), unless the table grew in between (executeShowRoute,
\* executeShowArp, executeShowNdp).
THEOREM ShowsWhatWasTold == TablesSpec => []ShownAsTold
<1>1. ShownInv => ShownAsTold
  BY DEF ShownInv
<1> QED
  BY <1>1, ShownInit, ShownStep, PTL DEF TablesSpec

-----------------------------------------------------------------------------
(* What a deletion takes                                                   *)

\* A table has at most one route to a destination over a gateway: the kernel
\* refuses a second one, whoever asks for it.
OneEach ==
  \A f \in 0..(MaxFibs - 1) : \A q, r \in routes[f] : q.to = r.to /\ q.gw = r.gw => q = r

\* Adding a route keeps them apart, removing some does.
LEMMA AddedOneEach ==
  ASSUME TablesInv, OneEach, NEW f \in 0..(MaxFibs - 1), NEW r, KernelAdds(f, r)
  PROVE  OneEach'
<1>1. \A q \in routes[f] : q.to = r.to => q.gw # r.gw
  BY DEF KernelAdds
<1>2. \A g \in 0..(MaxFibs - 1) :
        routes'[g] = IF g = f THEN routes[f] \cup {r} ELSE routes[g]
  BY DEF KernelAdds, TablesInv
<1> QED
  BY <1>1, <1>2 DEF OneEach

LEMMA ShrunkOneEach ==
  ASSUME OneEach, \A f \in 0..(MaxFibs - 1) : routes'[f] \subseteq routes[f]
  PROVE  OneEach'
BY DEF OneEach

LEMMA RemovedShrinks ==
  ASSUME TablesInv, NEW f \in 0..(MaxFibs - 1), NEW d, NEW g, KernelRemoves(f, d, g)
  PROVE  \A h \in 0..(MaxFibs - 1) : routes'[h] \subseteq routes[h]
BY DEF KernelRemoves, TablesInv

LEMMA OneEachStep ==
  ASSUME ToldInv, OneEach, [TablesNext]_tableVars
  PROVE  OneEach'
<1>1. TablesInv
  BY DEF ToldInv
<1>2. CASE UNCHANGED routes
  BY <1>2 DEF OneEach
<1>3. ASSUME NEW w \in RouteWords, SetRoute(w)
      PROVE  OneEach'
  <2>1. MessageFib(parseRoute(w)) \in 0..(MaxFibs - 1)
    BY <1>1, Parsed, MessageFibTable
  <2> QED
    BY <1>1, <1>2, <1>3, <2>1, AddedOneEach DEF SetRoute
<1>4. ASSUME NEW w \in RouteWords, DeleteRoute(w)
      PROVE  OneEach'
  <2>1. MessageFib(parseRoute(w)) \in 0..(MaxFibs - 1)
    BY <1>1, Parsed, MessageFibTable
  <2> QED
    BY <1>1, <1>2, <1>4, <2>1, RemovedShrinks, ShrunkOneEach DEF DeleteRoute
<1>5. CASE RouteOthers
  <2>1. ASSUME NEW f \in DOMAIN routes, NEW r, OthersAddRoute(f, r)
        PROVE  OneEach'
    BY <1>1, <2>1, FibTable, AddedOneEach DEF OthersAddRoute
  <2>2. ASSUME NEW f \in DOMAIN routes, NEW d, OthersDeleteRoute(f, d)
        PROVE  OneEach'
    BY <1>1, <2>2, FibTable, RemovedShrinks, ShrunkOneEach DEF OthersDeleteRoute
  <2> QED
    BY <1>2, <1>5, <2>1, <2>2 DEF RouteOthers, OthersRaiseFibs
<1>6. \/ UNCHANGED routes
      \/ \E w \in RouteWords : SetRoute(w) \/ DeleteRoute(w)
      \/ RouteOthers
  BY DEF TablesNext, RouteNext, EntryNext, SetNeighbour, DeleteNeighbour, SizeTable, FetchTable,
         DeleteWords, CommandFails, EntryOthers, OthersLearn, OthersForget, tableVars, kernelVars
<1> QED
  BY <1>2, <1>3, <1>4, <1>5, <1>6

\* The routes a command for a destination, a gateway and a table may take.
OwnRoutes(c, f) ==
  {r \in routes[f] : /\ f = TableMeant(c) /\ r.to = c.dest
                     /\ c.gw # {} => r.gw = c.gw}

LEMMA RouteDeletion ==
  ASSUME ToldInv, OneEach, NEW w \in RouteWords, Plain(parseRoute(w)), DeleteRoute(w),
         \E f \in DOMAIN routes : ~(routes[f] \subseteq routes'[f])
  PROVE  \A f \in DOMAIN routes :
           /\ routes[f] \ routes'[f] \subseteq OwnRoutes(parseRoute(w), f)
           /\ parseRoute(w).gw # {} => OwnRoutes(parseRoute(w), f) \cap routes'[f] = {}
<1>1. PICK c : c = parseRoute(w)
  OBVIOUS
<1>2. IsRouteCommand(c) /\ Plain(c)
  BY <1>1, Parsed
<1>3. /\ MessageDest(c.dest) = c.dest /\ MessageGateway(c) = c.gw
      /\ MessageFib(c) = TableMeant(c) /\ TableMeant(c) \in 0..(MaxFibs - 1)
  BY <1>2, DestAsTyped, GatewayAsTyped, FibAsTyped, FibTable
     DEF Plain, Understood, IsRouteCommand, ToldInv
<1>4. KernelRemoves(TableMeant(c), c.dest, c.gw)
  BY <1>1, <1>3 DEF DeleteRoute
<1>5. PICK gone \in (SUBSET KernelMatches(TableMeant(c), c.dest, c.gw)) \ {{}} :
        routes' = [routes EXCEPT ![TableMeant(c)] = @ \ gone]
  BY <1>4 DEF KernelRemoves
<1>6. DOMAIN routes = 0..(MaxFibs - 1)
  BY DEF ToldInv, TablesInv
<1>7. \A f \in DOMAIN routes :
        routes'[f] = IF f = TableMeant(c) THEN routes[f] \ gone ELSE routes[f]
  BY <1>5
<1>8. gone \subseteq OwnRoutes(c, TableMeant(c))
  BY <1>5 DEF KernelMatches, OwnRoutes
<1>9. ASSUME c.gw # {}
      PROVE  OwnRoutes(c, TableMeant(c)) \subseteq gone
  <2>1. PICK q \in gone : TRUE
    BY <1>5
  <2>2. \A r \in OwnRoutes(c, TableMeant(c)) : r = q
    BY <1>3, <1>8, <1>9, <2>1 DEF OneEach, OwnRoutes
  <2> QED
    BY <2>1, <2>2
<1> QED
  BY <1>1, <1>7, <1>8, <1>9 DEF OwnRoutes

LEMMA EntryDeletion ==
  ASSUME ToldInv, NEW f \in Families, NEW e \in entries[f], e \notin entries'[f],
         NEW w, DeleteNeighbour(w)
  PROVE  w.ip = e.ip /\ w.fam = f
<1>1. NeighbourFamily[w.ip] = w.fam /\ KernelForgets(w.ip)
  BY DEF DeleteNeighbour
<1>2. PICK x \in entries[w.fam] :
        x.ip = w.ip /\ entries' = [entries EXCEPT ![w.fam] = @ \ {x}]
  BY <1>1 DEF KernelForgets
<1>3. entries'[f] = IF f = w.fam THEN entries[f] \ {x} ELSE entries[f]
  BY <1>2 DEF ToldInv, TablesInv
<1> QED
  BY <1>2, <1>3

\* A deletion of a route takes only routes to the destination, over the gateway
\* and from the table it was told, and with a gateway every one of them; a
\* deletion of a neighbour takes no entry of another (executeDeleteRoute,
\* DeleteArpEntry, DeleteNdpEntry).
THEOREM DeletionTakesItsOwn == TablesSpec => DeletesOnlyItsOwn
<1>1. TablesInit => OneEach
  BY DEF TablesInit, KernelInit, OneEach
<1>2. ToldInv /\ OneEach /\ [TablesNext]_tableVars => ToldInv' /\ OneEach'
  BY NextInv, OneEachStep
<1>3. ASSUME ToldInv, OneEach, NEW w \in RouteWords,
             \E f \in DOMAIN routes : ~(routes[f] \subseteq routes'[f]),
             Plain(parseRoute(w)), DeleteRoute(w)
      PROVE  \A f \in DOMAIN routes :
               /\ routes[f] \ routes'[f] \subseteq OwnRoutes(parseRoute(w), f)
               /\ parseRoute(w).gw # {} => OwnRoutes(parseRoute(w), f) \cap routes'[f] = {}
  BY <1>3, RouteDeletion
<1>4. ASSUME ToldInv, NEW f \in Families, NEW e \in entries[f] \ entries'[f],
             NEW w \in AddressWords, w.ip # e.ip \/ w.fam # f
      PROVE  ~DeleteNeighbour(w)
  BY <1>4, EntryDeletion
<1>5. ToldInv /\ OneEach => [TakesItsOwn]_tableVars
  BY <1>3, <1>4 DEF TakesItsOwn, OwnRoutes, DeleteWords
<1> QED
  BY <1>1, <1>2, <1>5, InitInv, PTL DEF TablesSpec, DeletesOnlyItsOwn

-----------------------------------------------------------------------------
(* The types                                                               *)

RoutesTyped == \A f \in 0..(MaxFibs - 1) : \A r \in routes[f] : IsRoute(r)
IsEntry(e, f) == e.ip \in Neighbours /\ NeighbourFamily[e.ip] = f /\ e.iface \in Interfaces
EntriesTyped == \A f \in Families : \A e \in entries[f] : IsEntry(e, f)
ToldBounded == IsFiniteSet(told) /\ Cardinality(told) <= MaxTold

Resized(d, h, l) == [d EXCEPT !.len = l, !.host = h]

\* Whatever length was typed, a message names a network the kernel can hold.
LEMMA MessageNetwork ==
  ASSUME NEW d \in Destinations
  PROVE  /\ MessageDest(d) \in Networks
         /\ MessageDest(d).len <= Width[MessageDest(d).fam]
<1>1. /\ d = Destination(d.fam, d.net, d.host, d.len)
      /\ d.fam \in Families /\ d.host \in BOOLEAN /\ d.len \in Nat
  BY AddressesAssumption
<1>2. Width[d.fam] \in {32, 128}
  BY <1>1 DEF Width, Families
<1>3. ASSUME NEW l \in 0..128, NEW h \in BOOLEAN
      PROVE  [d EXCEPT !.len = l, !.host = h] \in Networks
  <2>1. Networks = {Resized(x, y, z) : x \in Destinations, y \in BOOLEAN, z \in 0..128}
    BY DEF Networks, Resized
  <2>2. Resized(d, h, l) \in Networks
    BY <1>3, <2>1
  <2> QED
    BY <2>2 DEF Resized
<1>4. PICK l \in 0..255 : l = d.len % 256
  BY <1>1
<1>5. fromString(d) = [d EXCEPT !.len = l]
  BY <1>1, <1>4 DEF fromString, Destination
<1>6. fromString(d).len = l
  BY <1>1, <1>5 DEF Destination
<1>7. CASE l < Width[d.fam]
  <2>1. MessageDest(d) = [d EXCEPT !.len = l, !.host = FALSE]
    BY <1>1, <1>5, <1>6, <1>7 DEF MessageDest, Masked, Destination
  <2>2. l \in 0..128
    BY <1>2, <1>4, <1>7
  <2>3. MessageDest(d).len = l /\ MessageDest(d).fam = d.fam
    BY <1>1, <2>1 DEF Destination
  <2>4. MessageDest(d) \in Networks
    BY <1>3, <2>1, <2>2, Zenon
  <2>5. l <= Width[d.fam]
    BY <1>2, <1>4, <1>7
  <2> QED
    BY <2>3, <2>4, <2>5
<1>8. CASE ~ (l < Width[d.fam])
  <2>1. MessageDest(d) = [d EXCEPT !.len = Width[d.fam], !.host = d.host]
    BY <1>1, <1>5, <1>6, <1>8 DEF MessageDest, HostRoute, Destination
  <2>2. Width[d.fam] \in 0..128
    BY <1>2
  <2>3. MessageDest(d).len = Width[d.fam] /\ MessageDest(d).fam = d.fam
    BY <1>1, <2>1 DEF Destination
  <2>4. MessageDest(d) \in Networks
    <3>1. [d EXCEPT !.len = Width[d.fam], !.host = d.host] \in Networks
      <4>1. d.host \in BOOLEAN
        BY <1>1
      <4> QED
        BY <1>3, <2>2, <4>1, Zenon
    <3> QED
      BY <2>1, <3>1, Zenon
  <2>5. Width[d.fam] <= Width[d.fam]
    BY <1>2
  <2> QED
    BY <2>3, <2>4, <2>5
<1> QED
  BY <1>7, <1>8

LEMMA MessageRoute ==
  ASSUME NEW w \in RouteWords, NEW c, c = parseRoute(w)
  PROVE  IsRoute(Route(MessageDest(c.dest), MessageGateway(c), c.sort))
<1>1. c.dest \in Destinations /\ c.gw \subseteq Gateways
  BY Parsed DEF IsRouteCommand
<1>2. c.sort \subseteq {"blackhole", "reject"}
  BY AskedAssumption DEF parseRoute, RouteWords
<1>3. MessageGateway(c) \subseteq Gateways \cup {Zero}
  BY <1>1 DEF MessageGateway
<1> QED
  BY <1>1, <1>2, <1>3, MessageNetwork DEF IsRoute, Route

LEMMA OthersRoute ==
  ASSUME NEW d \in Destinations,
         NEW g \in Optional({h \in Gateways : GatewayFamily[h] = d.fam})
  PROVE  IsRoute(Route(MessageDest(d), g, {}))
<1>1. g \subseteq Gateways
  BY DEF Optional
<1> QED
  BY <1>1, MessageNetwork DEF IsRoute, Route

LEMMA KnownInterface ==
  ASSUME NEW a \in Neighbours, NEW i \in SUBSET Interfaces
  PROVE  KernelKnows(a, i) \in Interfaces
BY AddressesAssumption DEF KernelKnows

LEMMA AddedTyped ==
  ASSUME TablesInv, RoutesTyped, NEW f, NEW r, IsRoute(r), KernelAdds(f, r)
  PROVE  RoutesTyped'
<1>1. \A x \in 0..(MaxFibs - 1) : routes'[x] = IF x = f THEN routes[x] \cup {r} ELSE routes[x]
  BY DEF TablesInv, KernelAdds
<1> QED
  BY <1>1 DEF RoutesTyped

LEMMA RemovedTyped ==
  ASSUME TablesInv, RoutesTyped, NEW f, NEW d, NEW g, KernelRemoves(f, d, g)
  PROVE  RoutesTyped'
<1>1. PICK gone : routes' = [routes EXCEPT ![f] = @ \ gone]
  BY DEF KernelRemoves
<1>2. \A x \in 0..(MaxFibs - 1) : routes'[x] \subseteq routes[x]
  BY <1>1 DEF TablesInv
<1> QED
  BY <1>2 DEF RoutesTyped

LEMMA LearnedTyped ==
  ASSUME TablesInv, EntriesTyped, NEW a \in Neighbours, NEW i \in SUBSET Interfaces,
         NEW m, NEW x, NEW p, KernelLearns(a, i, m, x, p)
  PROVE  EntriesTyped'
<1>1. PICK e : e = Entry(a, KernelKnows(a, i), m, x, p)
  OBVIOUS
<1>2. IsEntry(e, NeighbourFamily[a])
  BY <1>1, KnownInterface DEF IsEntry, Entry
<1>3. PICK old : entries' = [entries EXCEPT ![NeighbourFamily[a]] = (@ \ old) \cup {e}]
  BY <1>1 DEF KernelLearns
<1>4. \A f \in Families :
        entries'[f] = IF f = NeighbourFamily[a] THEN (entries[f] \ old) \cup {e} ELSE entries[f]
  BY <1>3 DEF TablesInv
<1> QED
  BY <1>2, <1>4 DEF EntriesTyped

LEMMA ForgottenTyped ==
  ASSUME TablesInv, EntriesTyped, NEW a, KernelForgets(a)
  PROVE  EntriesTyped'
<1>1. PICK e : entries' = [entries EXCEPT ![NeighbourFamily[a]] = @ \ {e}]
  BY DEF KernelForgets
<1>2. \A f \in Families : entries'[f] \subseteq entries[f]
  BY <1>1 DEF TablesInv
<1> QED
  BY <1>2 DEF EntriesTyped

LEMMA ForgettingBounded ==
  ASSUME ToldBounded, told' \subseteq told
  PROVE  ToldBounded'
<1>1. /\ IsFiniteSet(told') /\ Cardinality(told') <= Cardinality(told)
      /\ Cardinality(told') \in Nat /\ Cardinality(told) \in Nat
  BY FS_Subset, FS_CardinalityType DEF ToldBounded
<1> QED
  BY <1>1, AskedAssumption DEF ToldBounded

LEMMA RememberedBounded ==
  ASSUME ToldBounded, Cardinality(told) < MaxTold, NEW S \in SUBSET told, NEW t,
         told' = S \cup {t}
  PROVE  ToldBounded'
<1>1. /\ IsFiniteSet(S) /\ Cardinality(S) <= Cardinality(told)
      /\ Cardinality(S) \in Nat /\ Cardinality(told) \in Nat
  BY FS_Subset, FS_CardinalityType DEF ToldBounded
<1>2. /\ IsFiniteSet(S \cup {t})
      /\ Cardinality(S \cup {t}) = Cardinality(S) \/ Cardinality(S \cup {t}) = Cardinality(S) + 1
  BY <1>1, FS_AddElement
<1> QED
  BY <1>1, <1>2, AskedAssumption DEF ToldBounded

TypedInv == RoutesTyped /\ EntriesTyped /\ ToldBounded

LEMMA TypedStep ==
  ASSUME ToldInv, TypedInv, [TablesNext]_tableVars
  PROVE  TypedInv'
<1> TablesInv /\ RoutesTyped /\ EntriesTyped /\ ToldBounded
  BY DEF ToldInv, TypedInv
<1>1. UNCHANGED routes => RoutesTyped'
  BY DEF RoutesTyped
<1>2. UNCHANGED entries => EntriesTyped'
  BY DEF EntriesTyped
<1>3. told' \subseteq told => ToldBounded'
  BY ForgettingBounded
<1>4. ASSUME NEW w \in RouteWords, SetRoute(w)
      PROVE  TypedInv'
  <2>1. PICK c : c = parseRoute(w)
    OBVIOUS
  <2>2. EntriesTyped'
    BY <1>2, <1>4 DEF SetRoute
  <2>3. RoutesTyped'
    BY <1>1, <1>4, MessageRoute, AddedTyped DEF SetRoute
  <2>4. ToldBounded'
    BY <1>3, <1>4, RememberedBounded DEF SetRoute
  <2> QED
    BY <2>2, <2>3, <2>4 DEF TypedInv
<1>5. ASSUME NEW w \in RouteWords, DeleteRoute(w)
      PROVE  TypedInv'
  <2>1. EntriesTyped' /\ RoutesTyped'
    BY <1>1, <1>2, <1>5, RemovedTyped DEF DeleteRoute
  <2>2. told' \subseteq told
    BY <1>5 DEF DeleteRoute
  <2> QED
    BY <1>3, <2>1, <2>2 DEF TypedInv
<1>6. ASSUME NEW w \in NeighbourWords, SetNeighbour(w)
      PROVE  TypedInv'
  <2>1. RoutesTyped'
    BY <1>1, <1>6 DEF SetNeighbour
  <2>2. w.ip \in Neighbours /\ w.iface \in SUBSET Interfaces
    BY <1>6 DEF NeighbourWords, SetNeighbour
  <2>3. \E m, p : KernelLearns(w.ip, w.iface, m, FALSE, p)
    BY <1>6 DEF SetNeighbour
  <2>4. EntriesTyped'
    BY <2>2, <2>3, LearnedTyped
  <2>5. PICK S \in SUBSET told : told' = S \cup {ToldEntry(w)}
    BY <1>6 DEF SetNeighbour
  <2>6. Cardinality(told) < MaxTold
    BY <1>6 DEF SetNeighbour
  <2> QED
    BY <2>1, <2>4, <2>5, <2>6, RememberedBounded DEF TypedInv
<1>7. ASSUME NEW w \in AddressWords, DeleteNeighbour(w)
      PROVE  TypedInv'
  <2>1. RoutesTyped' /\ EntriesTyped'
    BY <1>1, <1>2, <1>7, ForgottenTyped DEF DeleteNeighbour
  <2>2. told' \subseteq told
    BY <1>7 DEF DeleteNeighbour
  <2> QED
    BY <1>3, <2>1, <2>2 DEF TypedInv
<1>8. ASSUME UNCHANGED <<kernelVars, told>>
      PROVE  TypedInv'
  BY <1>1, <1>2, <1>3, <1>8 DEF kernelVars, TypedInv
<1>9. CASE RouteOthers
  <2>1. told' \subseteq told /\ UNCHANGED entries
    BY <1>9 DEF RouteOthers, Others, OthersAddRoute, OthersDeleteRoute, OthersRaiseFibs
  <2>2. RoutesTyped'
    <3>1. ASSUME NEW d \in Destinations, NEW f,
                 NEW g \in Optional({h \in Gateways : GatewayFamily[h] = d.fam}),
                 OthersAddRoute(f, Route(MessageDest(d), g, {}))
          PROVE  RoutesTyped'
      BY <3>1, OthersRoute, AddedTyped DEF OthersAddRoute
    <3>2. ASSUME NEW f, NEW d, OthersDeleteRoute(f, d)
          PROVE  RoutesTyped'
      BY <3>2, RemovedTyped DEF OthersDeleteRoute
    <3>3. OthersRaiseFibs => RoutesTyped'
      BY <1>1 DEF OthersRaiseFibs
    <3> QED
      BY <1>9, <3>1, <3>2, <3>3 DEF RouteOthers
  <2> QED
    BY <1>2, <1>3, <2>1, <2>2 DEF TypedInv
<1>10. CASE EntryOthers
  <2>1. told' \subseteq told /\ UNCHANGED routes
    BY <1>10 DEF EntryOthers, Others, OthersLearn, OthersForget
  <2>2. EntriesTyped'
    <3>1. ASSUME NEW a \in Neighbours, NEW i \in Interfaces, NEW m, OthersLearn(a, i, m)
          PROVE  EntriesTyped'
      BY <3>1, LearnedTyped DEF OthersLearn
    <3>2. ASSUME NEW a \in Neighbours, OthersForget(a)
          PROVE  EntriesTyped'
      BY <3>2, ForgottenTyped DEF OthersForget
    <3> QED
      BY <1>10, <3>1, <3>2 DEF EntryOthers
  <2> QED
    BY <1>1, <1>3, <2>1, <2>2 DEF TypedInv
<1>11. \/ UNCHANGED <<kernelVars, told>>
       \/ \E w \in RouteWords : SetRoute(w) \/ DeleteRoute(w)
       \/ \E w \in NeighbourWords : SetNeighbour(w)
       \/ \E w \in AddressWords : DeleteNeighbour(w)
       \/ RouteOthers \/ EntryOthers
  BY DEF TablesNext, RouteNext, EntryNext, SizeTable, FetchTable, CommandFails, DeleteWords,
         tableVars
<1> QED
  BY <1>4, <1>5, <1>6, <1>7, <1>8, <1>9, <1>10, <1>11

LEMMA TypesByInv == ShownInv /\ TypedInv => TablesTypeOK
<1> SUFFICES ASSUME ShownInv, TypedInv PROVE TablesTypeOK
  OBVIOUS
<1>1. KernelTypeOK
  <2>1. /\ fibs \in 1..MaxFibs /\ processFib \in 0..(fibs - 1)
        /\ DOMAIN routes = 0..(MaxFibs - 1) /\ DOMAIN entries = Families
    BY DEF ShownInv, ToldInv, TablesInv
  <2> QED
    BY <2>1 DEF KernelTypeOK, TypedInv, RoutesTyped, EntriesTyped, IsEntry
<1>2. Cardinality(listing.query) <= 1
  <2>1. CASE listing = NoListing
    BY <2>1, FS_EmptySet DEF NoListing
  <2>2. CASE listing # NoListing
    <3>1. PICK q : listing.query = {q}
      BY <2>2 DEF ShownInv, ListingInv, Listing
    <3> QED
      BY <3>1, FS_Singleton
  <2> QED
    BY <2>1, <2>2
<1>3. \A t \in ToldRoutes : t.plain => Plain(t.cmd)
  BY DEF ShownInv, ToldInv, AllTold, IsTold, ToldRoutes
<1> QED
  BY <1>1, <1>2, <1>3 DEF TypedInv, ToldBounded, TablesTypeOK

\* Whatever is typed and whatever others do, the tables hold what the kernel can
\* hold, and a command remembered as plain named a table there is
\* (IPNetwork::fromString, routeSocketOp).
THEOREM TablesTypeCorrect == TablesSpec => []TablesTypeOK
<1>1. TablesInit => ShownInv /\ TypedInv
  <2>1. TablesInit => TypedInv
    BY FS_EmptySet, AskedAssumption
       DEF TablesInit, KernelInit, TypedInv, RoutesTyped, EntriesTyped, ToldBounded
  <2> QED
    BY <2>1, ShownInit
<1>2. ShownInv /\ TypedInv /\ [TablesNext]_tableVars => ShownInv' /\ TypedInv'
  BY ShownStep, TypedStep DEF ShownInv
<1> QED
  BY <1>1, <1>2, TypesByInv, PTL DEF TablesSpec

=============================================================================
