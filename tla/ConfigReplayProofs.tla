-------------------------- MODULE ConfigReplayProofs --------------------------
(***************************************************************************)
(* Proofs about ConfigReplay, for every set of names, every command that   *)
(* may be typed, every number of them, and every order of the listings.    *)
(***************************************************************************)
EXTENDS ConfigReplay, TLAPS, FiniteSetTheorems

-----------------------------------------------------------------------------
(* The inductive invariant                                                  *)

\* Nothing is listed or printed before `net -g`, and what a section listed is
\* printed before the next section lists.
Phases ==
  /\ phase = "typing" => section = 0 /\ script = <<>>
  /\ phase = "rebooted" => Complete
  /\ fetched => Writing
  /\ ~fetched => pending = <<>> /\ sorted = <<>>

\* What a listing holds, it held when `net -g` began.
Good(x) ==
  x.of \in Types =>
    /\ x.n \in Name /\ typeOf[x.n] = x.of
    /\ seen[x.n] # Absent /\ SameButUp(seen[x.n], orig.sys[x.n])

Listings ==
  /\ \A i \in DOMAIN pending : Good(pending[i])
  /\ \A i \in DOMAIN sorted : Good(sorted[i])

\* The group a line of Ethernet sets.
LastGroup(o) ==
  IF o.addrs = <<>> /\ o.groups # <<>> THEN {o.groups[Len(o.groups)]} ELSE {}

\* What is read of a printed command: nothing but the FIB, the MTU and at most
\* one group, and those only for Ethernet.
Nothing(c) == GivenKeys(c) = {} /\ \A k \in Keywords : Given(c, k) = {}

Reads(c) ==
  \/ c.of \in Targets /\ Nothing(c)
  \/ /\ c.of = "interface" /\ c.as = "unknown"
     /\ c.n \in Name /\ orig.sys[c.n] # Absent
     /\ IF typeOf[c.n] # "ethernet" THEN Nothing(c)
        ELSE LET o == orig.sys[c.n] IN
             /\ Given(c, "inet") = {} /\ Given(c, "vrf") = {o.vrf}
             /\ Given(c, "mtu") = {o.mtu} /\ Given(c, "group") = LastGroup(o)

Scripted == \A i \in DOMAIN script : Reads(script[i])

\* The section of n is still to come.
Due(n) ==
  \E s \in DOMAIN Sections :
    Sections[s] = typeOf[n] /\ (section < s \/ (section = s /\ ~fetched))

ListedIn(q, n) == \E i \in DOMAIN q : q[i].of \in Types /\ q[i].n = n
Printed(n) == \E i \in DOMAIN script : script[i].of = "interface" /\ script[i].n = n

\* Every interface that was there is printed or yet to be printed.
Covered ==
  phase # "typing" =>
    \A n \in Name : orig.sys[n] # Absent =>
      Due(n) \/ ListedIn(pending, n) \/ ListedIn(sorted, n) \/ Printed(n)

\* A line of n has run since `next` was last set back.
Ran(n) ==
  \E i \in DOMAIN script : i < next /\ script[i].of = "interface" /\ script[i].n = n

\* After a restart, a command that has run has restored its interface.
Restoring ==
  phase = "rebooted" =>
    /\ fibs = BootFibs /\ entries = Learned
    /\ \A n \in Name : sys[n] \in {Boot(n), Restored(n)}
    /\ \A n \in Name : Ran(n) => sys[n] = Restored(n)

IInv ==
  /\ TypeOK /\ Phases /\ Listings /\ Scripted /\ Covered
  /\ LiveReplayOnlyBringsUp /\ Restoring

-----------------------------------------------------------------------------
(* The tables                                                               *)

LEMMA SectionsDomain == DOMAIN Sections = 1..22 /\ Len(Sections) = 22
BY DEF Sections

LEMMA SectionsKnown == \A s \in DOMAIN Sections : Sections[s] \in Types \cup Targets
BY DEF Sections, Types, Targets

LEMMA SectionsAll == \A t \in Types : \E s \in DOMAIN Sections : Sections[s] = t
<1>1. /\ Sections[2] = "loopback" /\ Sections[3] = "ethernet" /\ Sections[4] = "bridge"
      /\ Sections[5] = "lagg" /\ Sections[6] = "vlan" /\ Sections[7] = "tun"
      /\ Sections[8] = "gif" /\ Sections[9] = "ovpn" /\ Sections[10] = "ipsec"
      /\ Sections[11] = "gre" /\ Sections[12] = "vxlan" /\ Sections[13] = "wlan"
      /\ Sections[14] = "carp" /\ Sections[15] = "tap" /\ Sections[16] = "pflog"
      /\ Sections[17] = "pfsync" /\ Sections[18] = "wg" /\ Sections[19] = "stf"
  BY DEF Sections
<1>2. \A i \in 2..19 : i \in DOMAIN Sections
  BY SectionsDomain
<1>3. QED  BY <1>1, <1>2 DEF Types

LEMMA PrintsKeywords == ASSUME NEW t PROVE dispatch(t).prints \in Seq(Keywords)
<1>1. /\ NoToken.prints \in Seq(Keywords) /\ BridgeToken.prints \in Seq(Keywords)
      /\ LaggToken.prints \in Seq(Keywords) /\ VlanToken.prints \in Seq(Keywords)
      /\ TunToken.prints \in Seq(Keywords) /\ WireGuardToken.prints \in Seq(Keywords)
  BY DEF Token, NoToken, BridgeToken, LaggToken, VlanToken, TunToken, WireGuardToken, Keywords
<1>2. /\ IpsecToken.prints \in Seq(Keywords) /\ GreToken.prints \in Seq(Keywords)
      /\ VxlanToken.prints \in Seq(Keywords) /\ WlanToken.prints \in Seq(Keywords)
      /\ CarpToken.prints \in Seq(Keywords)
  BY DEF Token, IpsecToken, GreToken, VxlanToken, WlanToken, CarpToken, Keywords
<1>3. /\ RouteToken.prints \in Seq(Keywords) /\ ArpToken.prints \in Seq(Keywords)
      /\ NdpToken.prints \in Seq(Keywords) /\ VrfToken.prints \in Seq(Keywords)
  BY DEF Token, RouteToken, ArpToken, NdpToken, VrfToken, Keywords
<1>4. QED
  BY <1>1, <1>2, <1>3
  DEF dispatch, LoopbackToken, TapToken, PflogToken, PfsyncToken, SixToFourToken,
      GifToken, OvpnToken

LEMMA DispatchNone ==
  /\ dispatch("ethernet") = NoToken /\ dispatch("unknown") = NoToken
BY DEF dispatch
-----------------------------------------------------------------------------
(* What is read of a command                                                *)

LEMMA TakenIndices ==
  ASSUME NEW c, c.clauses \in Seq(Clauses)
  PROVE  Taken(c) \subseteq DOMAIN c.clauses /\ Taken(c) \subseteq Nat
BY DEF Taken

\* A command whose first clause is not accepted is not read at all.
LEMMA StopsAtFirst ==
  ASSUME NEW c, c.clauses \in Seq(Clauses), c.clauses # <<>>,
         c.clauses[1].val # {}, ~Accepts(c, c.clauses[1].kw)
  PROVE  Nothing(c)
<1>1. Taken(c) = {}
  <2>1. \A i \in DOMAIN c.clauses : 1 \in 1..i
    OBVIOUS
  <2>2. QED  BY <2>1 DEF Taken
<1>2. QED  BY <1>1 DEF Nothing, GivenKeys, Given

\* The last clause read is what is given.
LEMMA GivenAt ==
  ASSUME NEW c, c.clauses \in Seq(Clauses), NEW k, NEW l \in Taken(c),
         c.clauses[l].kw = k,
         \A m \in Taken(c) : c.clauses[m].kw = k => m <= l
  PROVE  Given(c, k) = c.clauses[l].val
<1>1. \A i \in Taken(c) :
        (/\ c.clauses[i].kw = k
         /\ \A m \in Taken(c) : c.clauses[m].kw = k => m <= i) <=> i = l
  BY TakenIndices
<1>2. QED  BY <1>1 DEF Given

LEMMA GivenNone ==
  ASSUME NEW c, NEW k, \A m \in Taken(c) : c.clauses[m].kw # k
  PROVE  Given(c, k) = {}
BY DEF Given

-----------------------------------------------------------------------------
(* The lines printed                                                        *)

LEMMA HeldValues ==
  ASSUME NEW r \in Interfaces, NEW k PROVE Held(r, k) \subseteq Value \cup Nat
BY DEF Held, Interfaces, Settings

LEMMA OwnType ==
  ASSUME NEW t, NEW r \in Interfaces PROVE OwnClauses(t, r) \in Seq(Clauses)
<1> DEFINE p == dispatch(t).prints
<1>1. p \in Seq(Keywords)
  BY PrintsKeywords
<1>2. \A k \in Keywords : PrintedAs(k) \in Keywords
  BY DEF PrintedAs, Keywords
<1>3. \A k : Held(r, k) \subseteq Value \cup Nat
  BY HeldValues
<1>4. \A k \in Keywords, S \in SUBSET (Value \cup Nat) : Clause(k, S) \in Clauses
  BY DEF Clause, Clauses
<1> DEFINE cl(i) == Clause(PrintedAs(p[i]), IF p[i] \in BackendOf(t).loads THEN Held(r, p[i]) ELSE {})
<1>5. \A i \in DOMAIN p : cl(i) \in Clauses
  BY <1>1, <1>2, <1>3, <1>4
<1>6. OwnClauses(t, r) = [i \in DOMAIN p |-> cl(i)]
  BY DEF OwnClauses
<1>7. DOMAIN p = 1..Len(p) /\ Len(p) \in Nat
  BY <1>1
<1> HIDE DEF p, cl
<1>8. QED  BY <1>5, <1>6, <1>7

LEMMA GroupType ==
  ASSUME NEW r \in Interfaces
  PROVE  /\ GroupClauses(r) \in Seq(Clauses) /\ Len(GroupClauses(r)) = Len(r.groups)
         /\ \A j \in 1..Len(r.groups) : GroupClauses(r)[j] = Clause("group", {r.groups[j]})
<1>1. r.groups \in Seq(Group) /\ Group \subseteq Value
  BY Shape DEF Interfaces
<1>2. \A j \in 1..Len(r.groups) : Clause("group", {r.groups[j]}) \in Clauses
  BY <1>1 DEF Clause, Clauses, Keywords
<1>3. GroupClauses(r) = [j \in 1..Len(r.groups) |-> Clause("group", {r.groups[j]})]
  BY <1>1 DEF GroupClauses
<1>4. Len(r.groups) \in Nat
  BY <1>1
<1> DEFINE cl(j) == Clause("group", {r.groups[j]})
<1>5. /\ \A j \in 1..Len(r.groups) : cl(j) \in Clauses
      /\ GroupClauses(r) = [j \in 1..Len(r.groups) |-> cl(j)]
  BY <1>2, <1>3
<1> HIDE DEF cl
<1>6. /\ GroupClauses(r) \in Seq(Clauses) /\ Len(GroupClauses(r)) = Len(r.groups)
      /\ \A j \in 1..Len(r.groups) : GroupClauses(r)[j] = cl(j)
  BY <1>4, <1>5
<1>7. QED  BY <1>6 DEF cl

LEMMA GenericType ==
  ASSUME NEW t, NEW r \in Interfaces, NEW a \in SUBSET Value
  PROVE  GenericClauses(t, r, a) \in Seq(Clauses) /\ Len(GenericClauses(t, r, a)) = 5
<1>1. r.vrf \in Nat /\ r.mtu \in Nat /\ Word \in Value
  <2>1. r.vrf \in Fib /\ r.mtu \in Mtu
    BY DEF Interfaces
  <2>2. Fib \subseteq Nat /\ Mtu \subseteq Nat /\ Word \in Value
    BY Shape DEF Fib
  <2>3. QED  BY <2>1, <2>2
<1>2. \A k \in Keywords, S \in SUBSET (Value \cup Nat) : Clause(k, S) \in Clauses
  BY DEF Clause, Clauses
<1>3. {"type", "vrf", "mtu", "address", "status"} \subseteq Keywords
  BY DEF Keywords
<1>4. /\ Clause("type", IF t = "ethernet" THEN {} ELSE {Word}) \in Clauses
      /\ Clause("vrf", {r.vrf}) \in Clauses /\ Clause("mtu", {r.mtu}) \in Clauses
      /\ Clause("address", a) \in Clauses /\ Clause("status", {Word}) \in Clauses
  BY <1>1, <1>2, <1>3
<1> HIDE DEF Clause
<1>5. QED  BY <1>4 DEF GenericClauses

LEMMA Joined ==
  ASSUME NEW S, NEW p \in Seq(S), NEW q \in Seq(S), NEW o \in Seq(S)
  PROVE  /\ p \o q \o o \in Seq(S) /\ Len(p \o q \o o) = Len(p) + Len(q) + Len(o)
         /\ \A j \in 1..Len(p) : (p \o q \o o)[j] = p[j]
         /\ \A j \in 1..Len(q) : (p \o q \o o)[Len(p) + j] = q[j]
         /\ \A j \in 1..Len(o) : (p \o q \o o)[Len(p) + Len(q) + j] = o[j]
<1>1. /\ p \o q \in Seq(S) /\ Len(p \o q) = Len(p) + Len(q)
      /\ \A j \in 1..Len(p) : (p \o q)[j] = p[j]
      /\ \A j \in 1..Len(q) : (p \o q)[Len(p) + j] = q[j]
  OBVIOUS
<1> DEFINE s == p \o q
<1> HIDE DEF s
<1>2. s \in Seq(S) /\ Len(s) \in Nat /\ Len(p) \in Nat /\ Len(q) \in Nat
  BY <1>1 DEF s
<1>3. /\ s \o o \in Seq(S) /\ Len(s \o o) = Len(s) + Len(o)
      /\ \A j \in 1..Len(s) : (s \o o)[j] = s[j]
      /\ \A j \in 1..Len(o) : (s \o o)[Len(s) + j] = o[j]
  BY <1>2
<1>4. /\ \A j \in 1..Len(p) : j \in 1..Len(s)
      /\ \A j \in 1..Len(q) : Len(p) + j \in 1..Len(s)
  BY <1>1, <1>2 DEF s
<1>5. Len(s) = Len(p) + Len(q)
  BY <1>1 DEF s
<1>6. QED  BY <1>1, <1>3, <1>4, <1>5 DEF s

\* c is the i-th line of an interface, clause by clause.
LineIs(c, n, t, r, i) ==
  /\ c.of = "interface" /\ c.n = n /\ c.as = "unknown" /\ c \in Commands
  /\ c.clauses \in Seq(Clauses) /\ Len(c.clauses) >= 5 + Len(r.groups)
  /\ t = "ethernet" => Len(c.clauses) = 5 + Len(r.groups)
  /\ c.clauses[1] = Clause("type", IF t = "ethernet" THEN {} ELSE {Word})
  /\ c.clauses[2] = Clause("vrf", {r.vrf}) /\ c.clauses[3] = Clause("mtu", {r.mtu})
  /\ c.clauses[4] = Clause("address", {r.addrs[j] : j \in DOMAIN r.addrs \cap {i}})
  /\ c.clauses[5] = Clause("status", {Word})
  /\ \A j \in 1..Len(r.groups) : c.clauses[5 + j] = Clause("group", {r.groups[j]})

LEMMA LineShape ==
  ASSUME NEW n \in Name, NEW t, NEW r \in Interfaces, NEW i
  PROVE  LineIs(InterfaceLine(n, t, r, i), n, t, r, i)
<1> DEFINE a == {r.addrs[j] : j \in DOMAIN r.addrs \cap {i}}
           g == GenericClauses(t, r, a)
           q == GroupClauses(r)
           o == IF i = 1 THEN OwnClauses(t, r) ELSE <<>>
           cs == g \o q \o o
           c == InterfaceLine(n, t, r, i)
<1>1. a \subseteq Value
  <2>1. r.addrs \in Seq(Addr) /\ Addr \subseteq Value
    BY Shape DEF Interfaces
  <2>2. QED  BY <2>1
<1>2. g \in Seq(Clauses) /\ Len(g) = 5
  BY <1>1, GenericType
<1>3. q \in Seq(Clauses) /\ Len(q) = Len(r.groups)
      /\ \A j \in 1..Len(r.groups) : q[j] = Clause("group", {r.groups[j]})
  BY GroupType
<1>4. o \in Seq(Clauses)
  BY OwnType
<1>5. t = "ethernet" => o = <<>>
  <2>1. NoToken.prints = <<>>
    BY DEF NoToken, Token
  <2>2. dispatch("ethernet").prints = <<>>
    BY DispatchNone, <2>1
  <2>3. t = "ethernet" => OwnClauses(t, r) = <<>>
    BY <2>2 DEF OwnClauses
  <2>4. QED  BY <2>3
<1>6. /\ g[1] = Clause("type", IF t = "ethernet" THEN {} ELSE {Word})
      /\ g[2] = Clause("vrf", {r.vrf}) /\ g[3] = Clause("mtu", {r.mtu})
      /\ g[4] = Clause("address", a) /\ g[5] = Clause("status", {Word})
  <2> HIDE DEF Clause, a
  <2>1. QED  BY DEF GenericClauses, g
<1>7. r.groups \in Seq(Group)
  BY DEF Interfaces
<1> HIDE DEF a, g, q, o, Clause
<1>8. /\ cs \in Seq(Clauses) /\ Len(cs) = Len(g) + Len(q) + Len(o)
      /\ \A j \in 1..Len(g) : cs[j] = g[j]
      /\ \A j \in 1..Len(q) : cs[Len(g) + j] = q[j]
  <2>1. g \in Seq(Clauses) /\ q \in Seq(Clauses) /\ o \in Seq(Clauses)
    BY <1>2, <1>3, <1>4
  <2>2. QED  BY <2>1, Joined
<1>9. /\ \A j \in 1..5 : cs[j] = g[j]
      /\ \A j \in 1..Len(r.groups) : cs[5 + j] = q[j]
      /\ Len(cs) = 5 + Len(r.groups) + Len(o)
  <2>1. Len(g) = 5 /\ Len(q) = Len(r.groups)
    BY <1>2, <1>3
  <2> HIDE DEF cs
  <2>2. QED  BY <1>8, <2>1
<1>10. c.clauses = cs /\ c.of = "interface" /\ c.n = n /\ c.as = "unknown"
  BY DEF InterfaceLine, a, g, q, o
<1>11. c \in Commands
  <2> HIDE DEF cs
  <2>1. c = [of |-> "interface", n |-> n, as |-> "unknown", clauses |-> cs]
    BY DEF InterfaceLine, a, g, q, o, cs
  <2>2. n \in Value
    BY Shape
  <2>3. QED  BY <2>1, <2>2, <1>8 DEF Commands
<1> HIDE DEF cs, c
<1>12. Len(o) \in Nat /\ (t = "ethernet" => Len(o) = 0)
  BY <1>4, <1>5
<1>13. Len(cs) >= 5 + Len(r.groups) /\ (t = "ethernet" => Len(cs) = 5 + Len(r.groups))
  BY <1>7, <1>9, <1>12
<1>14. /\ cs[1] = Clause("type", IF t = "ethernet" THEN {} ELSE {Word})
       /\ cs[2] = Clause("vrf", {r.vrf}) /\ cs[3] = Clause("mtu", {r.mtu})
       /\ cs[4] = Clause("address", a) /\ cs[5] = Clause("status", {Word})
  BY <1>6, <1>9
<1>15. \A j \in 1..Len(r.groups) : cs[5 + j] = Clause("group", {r.groups[j]})
  BY <1>3, <1>9
<1>16. cs \in Seq(Clauses)
  BY <1>8
<1>17. QED
  BY <1>10, <1>11, <1>13, <1>14, <1>15, <1>16, Zenon DEF a, c, LineIs
\* A line names no type its parser would know, so that it takes what all types
\* have and nothing else; the word "type" is not among that.
LEMMA AcceptsGeneral ==
  ASSUME NEW c, c.of = "interface", c.as = "unknown", NEW k
  PROVE  Accepts(c, k) <=> k \in General
<1>1. dispatch("unknown").takes = {}
  BY DispatchNone DEF NoToken, Token
<1>2. "interface" \notin Targets
  BY DEF Targets
<1>3. QED  BY <1>1, <1>2 DEF Accepts

LEMMA ClonedReadsNothing ==
  ASSUME NEW n \in Name, NEW t, t # "ethernet", NEW r \in Interfaces, NEW i
  PROVE  Nothing(InterfaceLine(n, t, r, i))
<1> DEFINE c == InterfaceLine(n, t, r, i)
<1>1. /\ c.of = "interface" /\ c.as = "unknown"
      /\ c.clauses \in Seq(Clauses) /\ Len(c.clauses) >= 5 + Len(r.groups)
      /\ c.clauses[1] = Clause("type", {Word})
  <2>1. LineIs(c, n, t, r, i)
    BY LineShape
  <2> HIDE DEF c
  <2>2. QED  BY <2>1 DEF LineIs
<1>2. Len(r.groups) \in Nat
  BY DEF Interfaces
<1> HIDE DEF c
<1>3. c.clauses # <<>>
  BY <1>1, <1>2
<1>4. c.clauses[1].val # {} /\ c.clauses[1].kw = "type"
  BY <1>1 DEF Clause
<1>5. ~Accepts(c, "type")
  BY <1>1, AcceptsGeneral DEF General
<1>6. Nothing(c)
  BY <1>1, <1>3, <1>4, <1>5, StopsAtFirst
<1>7. QED  BY <1>6 DEF c

LEMMA EntryReadsNothing ==
  ASSUME NEW x, x.of \in Targets, x.n \in Value \cup Nat
  PROVE  /\ EntryLine(x) \in Commands /\ EntryLine(x).of = x.of
         /\ Nothing(EntryLine(x))
<1> DEFINE p == dispatch(x.of).prints
           vl(k) == {IF k \in {"dest", "entry", "fibnum"} THEN x.n ELSE Word}
           cs == EntryLine(x).clauses
<1>1. p \in Seq(Keywords)
  BY PrintsKeywords
<1>2. \A k : vl(k) \subseteq Value \cup Nat
  BY Shape
<1> DEFINE cl(i) == Clause(p[i], vl(p[i]))
<1>3. EntryLine(x) = [of |-> x.of, n |-> x.n, as |-> "unknown",
                      clauses |-> [i \in DOMAIN p |-> cl(i)]]
  BY DEF EntryLine
<1>4. \A k \in Keywords, S \in SUBSET (Value \cup Nat) : Clause(k, S) \in Clauses
  BY DEF Clause, Clauses
<1>5. cs = [i \in DOMAIN p |-> cl(i)]
  BY <1>3
<1> HIDE DEF vl
<1>6. \A i \in DOMAIN p : cl(i) \in Clauses
  BY <1>1, <1>2, <1>4
<1>7. DOMAIN p = 1..Len(p) /\ Len(p) \in Nat
  BY <1>1
<1>8. p # <<>> /\ ~Accepts(EntryLine(x), p[1])
  <2>1. EntryLine(x).of = x.of
    BY <1>3
  <2>2. CASE x.of = "vrf"
    <3>1. p = VrfToken.prints /\ dispatch(x.of).takes = VrfToken.takes
      BY <2>2 DEF dispatch
    <3>2. p # <<>> /\ p[1] = "fibnum"
      BY <3>1 DEF VrfToken, Token
    <3>3. "fibnum" \notin dispatch(x.of).takes
      BY <3>1 DEF VrfToken, Token
    <3>4. QED  BY <2>1, <3>2, <3>3 DEF Accepts
  <2>3. CASE x.of = "route"
    <3>1. p = RouteToken.prints /\ dispatch(x.of).takes = RouteToken.takes
      BY <2>3 DEF dispatch
    <3>2. p # <<>> /\ p[1] = "protocol"
      BY <3>1 DEF RouteToken, Token
    <3>3. "protocol" \notin dispatch(x.of).takes
      BY <3>1 DEF RouteToken, Token
    <3>4. QED  BY <2>1, <3>2, <3>3 DEF Accepts
  <2>4. CASE x.of = "arp"
    <3>1. p = ArpToken.prints /\ dispatch(x.of).takes = ArpToken.takes
      BY <2>4 DEF dispatch
    <3>2. p # <<>> /\ p[1] = "entry"
      BY <3>1 DEF ArpToken, Token
    <3>3. "entry" \notin dispatch(x.of).takes
      BY <3>1 DEF ArpToken, Token
    <3>4. QED  BY <2>1, <3>2, <3>3 DEF Accepts
  <2>5. CASE x.of = "ndp"
    <3>1. p = NdpToken.prints /\ dispatch(x.of).takes = NdpToken.takes
      BY <2>5 DEF dispatch
    <3>2. p # <<>> /\ p[1] = "entry"
      BY <3>1 DEF NdpToken, Token
    <3>3. "entry" \notin dispatch(x.of).takes
      BY <3>1 DEF NdpToken, Token
    <3>4. QED  BY <2>1, <3>2, <3>3 DEF Accepts
  <2>6. QED  BY <2>2, <2>3, <2>4, <2>5 DEF Targets
<1> HIDE DEF p, cl
<1>9. cs \in Seq(Clauses) /\ Len(cs) = Len(p)
  BY <1>5, <1>6, <1>7
<1>10. EntryLine(x) \in Commands /\ EntryLine(x).of = x.of
  <2>1. EntryLine(x) = [of |-> x.of, n |-> x.n, as |-> "unknown", clauses |-> cs]
    BY <1>3, <1>5
  <2> HIDE DEF cs
  <2>2. QED  BY <1>9, <2>1 DEF Commands
<1>11. 1 \in DOMAIN p
  BY <1>1, <1>8
<1>12. cs[1].kw = p[1] /\ cs[1].val # {}
  <2>1. cs[1] = cl(1)
    BY <1>5, <1>11
  <2>2. QED  BY <2>1 DEF cl, vl, Clause
<1>13. cs # <<>>
  BY <1>7, <1>9, <1>11
<1>14. Nothing(EntryLine(x))
  BY <1>8, <1>9, <1>12, <1>13, StopsAtFirst
<1>15. QED  BY <1>10, <1>14

\* The line of an Ethernet interface, its first for one without an address, any
\* line for one with addresses.
LEMMA EthernetReads ==
  ASSUME NEW n \in Name, NEW r \in Interfaces, NEW i,
         r.addrs # <<>> => i \in DOMAIN r.addrs
  PROVE  LET c == InterfaceLine(n, "ethernet", r, i) IN
         /\ Given(c, "inet") = {} /\ Given(c, "vrf") = {r.vrf}
         /\ Given(c, "mtu") = {r.mtu} /\ Given(c, "group") = LastGroup(r)
<1> DEFINE c == InterfaceLine(n, "ethernet", r, i)
           a == {r.addrs[j] : j \in DOMAIN r.addrs \cap {i}}
           cs == c.clauses
           L == Len(r.groups)
<1>0. LineIs(c, n, "ethernet", r, i)
  BY LineShape
<1>1. /\ c.of = "interface" /\ c.as = "unknown"
      /\ cs \in Seq(Clauses) /\ Len(cs) = 5 + L
  <2> HIDE DEF c
  <2>1. QED  BY <1>0 DEF LineIs
<1>1a. /\ cs[1] = Clause("type", {}) /\ cs[2] = Clause("vrf", {r.vrf})
      /\ cs[3] = Clause("mtu", {r.mtu}) /\ cs[4] = Clause("address", a)
      /\ cs[5] = Clause("status", {Word})
      /\ \A j \in 1..L : cs[5 + j] = Clause("group", {r.groups[j]})
  <2> HIDE DEF c
  <2>1. QED  BY <1>0 DEF LineIs
<1>2. r.groups \in Seq(Group) /\ r.addrs \in Seq(Addr) /\ L \in Nat
  BY DEF Interfaces
<1>3. a = {} <=> r.addrs = <<>>
  <2>1. CASE r.addrs = <<>>
    <3>1. DOMAIN r.addrs = {}
      BY <2>1
    <3>2. QED  BY <2>1, <3>1
  <2>2. CASE r.addrs # <<>>
    <3>1. r.addrs[i] \in a
      BY <2>2
    <3>2. QED  BY <2>2, <3>1
  <2>3. QED  BY <2>1, <2>2
<1> HIDE DEF c, a, cs, L
<1>4. /\ cs[1].kw = "type" /\ cs[1].val = {}
      /\ cs[2].kw = "vrf" /\ cs[2].val = {r.vrf}
      /\ cs[3].kw = "mtu" /\ cs[3].val = {r.mtu}
      /\ cs[4].kw = "address" /\ cs[4].val = a
      /\ cs[5].kw = "status"
      /\ \A j \in 1..L : cs[5 + j].kw = "group" /\ cs[5 + j].val = {r.groups[j]}
  <2>2. \A j \in 1..L : cs[5 + j].kw = "group" /\ cs[5 + j].val = {r.groups[j]}
    <3>1. \A j \in 1..L : cs[5 + j] = Clause("group", {r.groups[j]})
      BY <1>1a
    <3>2. TAKE j \in 1..L
    <3>3. cs[5 + j] = Clause("group", {r.groups[j]})
      BY <3>1
    <3> HIDE DEF cs
    <3>4. QED  BY <3>3 DEF Clause
  <2>3. cs[1].kw = "type" /\ cs[1].val = {} /\ cs[2].kw = "vrf" /\ cs[2].val = {r.vrf}
    BY <1>1a DEF Clause
  <2>4. /\ cs[3].kw = "mtu" /\ cs[3].val = {r.mtu}
        /\ cs[4].kw = "address" /\ cs[4].val = a /\ cs[5].kw = "status"
    BY <1>1a DEF Clause
  <2>5. QED  BY <2>2, <2>3, <2>4
<1>5. \A k : Accepts(c, k) <=> k \in General
  BY <1>1, AcceptsGeneral
<1>6. /\ Accepts(c, "vrf") /\ Accepts(c, "mtu") /\ Accepts(c, "status")
      /\ Accepts(c, "group") /\ ~Accepts(c, "address")
  BY <1>5 DEF General
<1>7. DOMAIN cs = 1..(5 + L)
  BY <1>1
<1>8. \A j \in 1..(5 + L) : j # 4 => (cs[j].val # {} => Accepts(c, cs[j].kw))
  <2>1. \A j \in 1..(5 + L) : j \in 1..5 \/ j - 5 \in 1..L
    BY <1>2
  <2>2. \A j \in 1..L : 5 + j \in 1..(5 + L) /\ (5 + j) - 5 = j
    BY <1>2
  <2>3. \A j \in 1..5 : j # 4 => (cs[j].val # {} => Accepts(c, cs[j].kw))
    BY <1>4, <1>6
  <2>4. \A j \in 1..(5 + L) : j - 5 \in 1..L => cs[j].kw = "group"
    <3>1. \A j \in 1..(5 + L) : 5 + (j - 5) = j
      BY <1>2
    <3>2. QED  BY <1>4, <3>1
  <2>5. QED  BY <1>6, <2>1, <2>3, <2>4
<1>9. Taken(c) = {l \in 1..(5 + L) :
                    \A j \in 1..l : cs[j].val # {} => Accepts(c, cs[j].kw)}
  BY <1>7 DEF Taken, cs
<1>10. {1, 2, 3} \subseteq Taken(c)
  <2>1. \A l \in {1, 2, 3} : l \in 1..(5 + L) /\ \A j \in 1..l : j \in 1..(5 + L) /\ j # 4
    BY <1>2
  <2>2. QED  BY <1>8, <1>9, <2>1
<1>11. \A m \in Taken(c) :
         (m = 1 \/ m = 2 \/ m = 3 \/ m = 4 \/ m = 5 \/ m - 5 \in 1..L) /\ m \in Nat
  BY <1>2, <1>9
<1>12. \A m \in Taken(c) : m - 5 \in 1..L => cs[m].kw = "group" /\ 5 + (m - 5) = m
  <2>1. \A m \in Taken(c) : m - 5 \in 1..L => 5 + (m - 5) = m
    BY <1>11
  <2>2. QED  BY <1>4, <2>1
<1>13. \A m \in Taken(c) : cs[m].kw # "inet" /\ (cs[m].kw = "vrf" <=> m = 2)
                           /\ (cs[m].kw = "mtu" <=> m = 3)
  <2>1. ~(2 - 5 \in 1..L) /\ ~(3 - 5 \in 1..L)
    BY <1>2
  <2>2. QED  BY <1>4, <1>11, <1>12, <2>1
<1>14. c.clauses \in Seq(Clauses) /\ cs = c.clauses
  BY <1>1 DEF cs
<1>15. Given(c, "inet") = {}
  BY <1>13, <1>14, GivenNone
<1>16. Given(c, "vrf") = {r.vrf} /\ Given(c, "mtu") = {r.mtu}
  <2>1. Given(c, "vrf") = cs[2].val
    <3>1. 2 \in Taken(c) /\ cs[2].kw = "vrf"
      BY <1>4, <1>10
    <3>2. \A m \in Taken(c) : cs[m].kw = "vrf" => m <= 2
      BY <1>13
    <3>3. QED  BY <1>14, <3>1, <3>2, GivenAt
  <2>2. Given(c, "mtu") = cs[3].val
    <3>1. 3 \in Taken(c) /\ cs[3].kw = "mtu"
      BY <1>4, <1>10
    <3>2. \A m \in Taken(c) : cs[m].kw = "mtu" => m <= 3
      BY <1>13
    <3>3. QED  BY <1>14, <3>1, <3>2, GivenAt
  <2>3. QED  BY <1>4, <2>1, <2>2
<1>17. Given(c, "group") = LastGroup(r)
  <2>1. CASE r.addrs # <<>>
    <3>1. ~(cs[4].val # {} => Accepts(c, cs[4].kw))
      BY <1>3, <1>4, <1>6, <2>1
    <3>2. \A l \in 1..(5 + L) : l >= 4 => 4 \in 1..l
      BY <1>2
    <3>3. \A m \in Taken(c) : ~(m >= 4)
      BY <1>9, <3>1, <3>2
    <3>4. \A m \in Taken(c) : cs[m].kw # "group"
      BY <1>4, <1>11, <3>3
    <3>5. Given(c, "group") = {}
      BY <1>14, <3>4, GivenNone
    <3>6. QED  BY <2>1, <3>5 DEF LastGroup
  <2>2. CASE r.addrs = <<>> /\ r.groups = <<>>
    <3>1. L = 0
      BY <2>2 DEF L
    <3>2. \A m \in Taken(c) : cs[m].kw # "group"
      BY <1>4, <1>11, <3>1
    <3>3. Given(c, "group") = {}
      BY <1>14, <3>2, GivenNone
    <3>4. QED  BY <2>2, <3>3 DEF LastGroup
  <2>3. CASE r.addrs = <<>> /\ r.groups # <<>>
    <3>1. L \in 1..L
      BY <1>2, <2>3 DEF L
    <3>2. \A j \in 1..(5 + L) : cs[j].val # {} => Accepts(c, cs[j].kw)
      <4>1. cs[4].val = {}
        BY <1>3, <1>4, <2>3
      <4>2. QED  BY <1>8, <4>1
    <3>3. 5 + L \in 1..(5 + L) /\ \A j \in 1..(5 + L) : j <= 5 + L
      BY <1>2
    <3>4. 5 + L \in Taken(c)
      BY <1>9, <3>2, <3>3
    <3>5. cs[5 + L].kw = "group" /\ cs[5 + L].val = {r.groups[L]}
      BY <1>4, <3>1
    <3>6. \A m \in Taken(c) : m <= 5 + L
      BY <1>9, <3>3
    <3>7. Given(c, "group") = {r.groups[L]}
      BY <1>14, <3>4, <3>5, <3>6, GivenAt
    <3>8. QED  BY <2>3, <3>7 DEF LastGroup, L
  <2>4. QED  BY <2>1, <2>2, <2>3
<1>18. QED  BY <1>15, <1>16, <1>17 DEF c
-----------------------------------------------------------------------------
(* What a command does                                                      *)

LEMMA AddedNothing == ASSUME NEW s PROVE Added(s, {}) = s
BY DEF Added

LEMMA OrFacts ==
  ASSUME NEW v PROVE Or({}, v) = v /\ \A w : Or({w}, v) = w
BY DEF Or

LEMMA AddedType ==
  ASSUME NEW A, NEW s \in Seq(A), NEW S \in SUBSET A
  PROVE  Added(s, S) \in Seq(A)
<1>1. CASE S \subseteq {s[i] : i \in DOMAIN s}
  BY <1>1 DEF Added
<1>2. CASE ~(S \subseteq {s[i] : i \in DOMAIN s})
  <2>1. (CHOOSE x \in S : TRUE) \in A
    BY <1>2
  <2>2. QED  BY <1>2, <2>1 DEF Added
<1>3. QED  BY <1>1, <1>2

LEMMA OrType == ASSUME NEW A, NEW v \in A, NEW S \in SUBSET A PROVE Or(S, v) \in A
BY DEF Or

LEMMA FreshType == Fresh \in Interfaces /\ Fresh.vrf = 0
<1>1. 0 \in Fib /\ DefaultMtu \in Mtu
  BY Shape DEF Fib
<1>2. QED  BY <1>1 DEF Fresh, Interfaces

\* What may be given: TypedShape, and what holds of every printed line.
Fits(c) ==
  /\ c \in Commands /\ c.n \in Name
  /\ Given(c, "inet") \subseteq Addr /\ Given(c, "group") \subseteq Group
  /\ Given(c, "mtu") \subseteq Mtu /\ Given(c, "vrf") \subseteq Nat

LEMMA GivenType ==
  ASSUME NEW c \in Commands
  PROVE  GivenKeys(c) \subseteq Keywords /\ \A k : Given(c, k) \subseteq Value \cup Nat
<1>1. c.clauses \in Seq(Clauses)
  BY DEF Commands
<1>2. Taken(c) \subseteq DOMAIN c.clauses
  BY <1>1, TakenIndices
<1>3. \A i \in DOMAIN c.clauses : c.clauses[i] \in Clauses
  BY <1>1
<1>4. \A i \in Taken(c) : c.clauses[i].kw \in Keywords
                          /\ c.clauses[i].val \subseteq Value \cup Nat
  <2>1. \A x \in Clauses : x.kw \in Keywords /\ x.val \subseteq Value \cup Nat
    BY DEF Clauses
  <2>2. QED  BY <1>2, <1>3, <2>1
<1>5. QED  BY <1>4 DEF GivenKeys, Given

LEMMA WithOwnType ==
  ASSUME NEW r \in Interfaces, NEW t, NEW c \in Commands
  PROVE  WithOwn(r, t, c) \in Interfaces /\ WithOwn(r, t, c).vrf = r.vrf
<1> DEFINE old == {s \in r.own : s.kw \in Lists \/ s.kw \notin Kept(t, c)}
           new == UNION {{[kw |-> k, val |-> v] : v \in Given(c, k)} : k \in Kept(t, c)}
<1>1. Kept(t, c) \subseteq Keywords
  BY GivenType DEF Kept
<1>2. \A k \in Keywords : \A v \in Given(c, k) : [kw |-> k, val |-> v] \in Settings
  BY GivenType DEF Settings
<1>3. new \subseteq Settings
  BY <1>1, <1>2
<1>4. old \subseteq Settings
  BY DEF Interfaces
<1>5. WithOwn(r, t, c) = [r EXCEPT !.own = old \cup new]
  BY DEF WithOwn, Interfaces
<1> HIDE DEF old, new
<1>6. QED  BY <1>3, <1>4, <1>5 DEF Interfaces

LEMMA WithLinkType ==
  ASSUME NEW r \in Interfaces, NEW c, Fits(c)
  PROVE  WithLink(r, c) \in Interfaces /\ WithLink(r, c).vrf = r.vrf
<1>1. Added(r.addrs, Given(c, "inet")) \in Seq(Addr)
  BY AddedType DEF Fits, Interfaces
<1>2. Or(Given(c, "mtu"), r.mtu) \in Mtu
  BY OrType DEF Fits, Interfaces
<1>3. WithLink(r, c) = [r EXCEPT !.addrs = Added(r.addrs, Given(c, "inet")),
                                 !.mtu = Or(Given(c, "mtu"), r.mtu), !.up = TRUE]
  BY DEF WithLink, Interfaces
<1>4. QED  BY <1>1, <1>2, <1>3 DEF Interfaces

LEMMA WithFibType ==
  ASSUME NEW r \in Interfaces, NEW c, Fits(c), fibs \in BootFibs..MaxFibs,
         r.vrf < fibs, ~FibRefused(c)
  PROVE  WithFib(r, c) \in Interfaces /\ WithFib(r, c).vrf < fibs
<1>1. Added(r.groups, Given(c, "group")) \in Seq(Group)
  BY AddedType DEF Fits, Interfaces
<1> DEFINE V == {v \in Fib : v < fibs}
<1>2. fibs \in Nat /\ fibs <= MaxFibs /\ MaxFibs \in Nat
  BY Shape
<1>3. Given(c, "vrf") \subseteq V
  <2>1. Given(c, "vrf") \subseteq Nat
    BY DEF Fits
  <2>2. \A v \in Given(c, "vrf") : ~(v >= fibs)
    BY DEF FibRefused
  <2>3. \A v \in Given(c, "vrf") : v \in Nat /\ v < fibs /\ v <= MaxFibs
    BY <1>2, <2>1, <2>2
  <2>4. QED  BY <2>3, <1>2 DEF Fib
<1>4. r.vrf \in V
  BY DEF Interfaces
<1>5. Or(Given(c, "vrf") \ {0}, r.vrf) \in V
  <2> HIDE DEF V
  <2>1. QED  BY <1>3, <1>4, OrType
<1>6. WithFib(r, c) = [r EXCEPT !.vrf = Or(Given(c, "vrf") \ {0}, r.vrf),
                                !.groups = Added(r.groups, Given(c, "group"))]
  BY DEF WithFib, Interfaces
<1>7. QED  BY <1>1, <1>5, <1>6 DEF Interfaces

LEMMA SavedType ==
  ASSUME TypeOK, NEW c, Fits(c)
  PROVE  Saved(c) \in Interfaces /\ Saved(c).vrf < fibs
<1> DEFINE link == WithLink(Found(c.n), c)
<1>1. fibs \in BootFibs..MaxFibs /\ fibs > 0
  BY Shape DEF TypeOK
<1>2. c \in Commands /\ c.n \in Name
  BY DEF Fits
<1>3. Found(c.n) \in Interfaces /\ Found(c.n).vrf < fibs
  <2>1. sys[c.n] \in Interfaces \cup {Absent} /\ (Present(c.n) => sys[c.n].vrf < fibs)
    BY <1>2 DEF TypeOK
  <2>2. QED  BY <1>1, <2>1, FreshType DEF Found, Present
<1>4. link \in Interfaces /\ link.vrf < fibs
  BY <1>3, WithLinkType
<1> HIDE DEF link
<1>5. CASE OnlyCreated(c)
  <2>1. Saved(c) = WithOwn(Fresh, typeOf[c.n], c)
    BY <1>5 DEF Saved
  <2>2. QED  BY <1>1, <1>2, <2>1, FreshType, WithOwnType
<1>6. CASE ~OnlyCreated(c) /\ FibRefused(c)
  <2>1. Saved(c) = link
    BY <1>6 DEF Saved, link
  <2>2. QED  BY <1>4, <2>1
<1>7. CASE ~OnlyCreated(c) /\ ~FibRefused(c)
  <2>1. WithFib(link, c) \in Interfaces /\ WithFib(link, c).vrf < fibs
    BY <1>1, <1>4, <1>7, WithFibType
  <2>2. Saved(c) = IF Handled(c) THEN WithOwn(WithFib(link, c), typeOf[c.n], c)
                   ELSE WithFib(link, c)
    BY <1>7 DEF Saved, link
  <2>3. QED  BY <1>2, <2>1, <2>2, WithOwnType
<1>8. QED  BY <1>5, <1>6, <1>7
Up(r) == [r EXCEPT !.up = TRUE]

LEMMA UpType ==
  ASSUME NEW r \in Interfaces
  PROVE  /\ Up(r) \in Interfaces /\ Up(r).up = TRUE /\ Up(r).mtu = r.mtu
         /\ Up(r).vrf = r.vrf /\ Up(r).addrs = r.addrs /\ Up(r).groups = r.groups
         /\ Up(r).own = r.own
BY DEF Up, Interfaces

LEMMA AbsentType == Absent \notin Interfaces
BY Shape

\* A command of which nothing is read brings a cloned interface up, creating it
\* if that is possible, and does no more; or it is refused.
LEMMA ClonedRun ==
  ASSUME NEW c, Nothing(c), c.as = "unknown", typeOf[c.n] # "ethernet",
         sys[c.n] \in Interfaces \cup {Absent}
  PROVE  /\ Saved(c) = Up(Found(c.n))
         /\ ~Present(c.n) => (Refused(c) <=> typeOf[c.n] \notin Cloneable)
<1> DEFINE r == Found(c.n)
<1>1. /\ Given(c, "inet") = {} /\ Given(c, "vrf") = {} /\ Given(c, "mtu") = {}
      /\ Given(c, "group") = {} /\ GivenKeys(c) = {}
  <2>1. {"inet", "vrf", "mtu", "group"} \subseteq Keywords
    BY DEF Keywords
  <2>2. QED  BY <2>1 DEF Nothing
<1>2. r \in Interfaces
  BY FreshType DEF Found, Present
<1> HIDE DEF r
<1>3. WithLink(r, c) = Up(r)
  BY <1>1, <1>2, AddedNothing, OrFacts DEF WithLink, Up, Interfaces
<1>4. Up(r) \in Interfaces
  BY <1>2, UpType
<1>5. WithFib(Up(r), c) = Up(r)
  <2> DEFINE u == Up(r)
  <2>1. u \in Interfaces
    BY <1>4
  <2> HIDE DEF u
  <2>2. WithFib(u, c) = [u EXCEPT !.vrf = Or({}, u.vrf), !.groups = Added(u.groups, {})]
    BY <1>1, <2>1 DEF WithFib, Interfaces
  <2>3. WithFib(u, c) = [u EXCEPT !.vrf = u.vrf, !.groups = u.groups]
    BY <2>2, AddedNothing, OrFacts
  <2>4. WithFib(u, c) = u
    BY <2>1, <2>3 DEF Interfaces
  <2>5. QED  BY <2>4 DEF u
<1>6. WithOwn(Up(r), typeOf[c.n], c) = Up(r)
  <2> DEFINE u == Up(r)
  <2>1. u \in Interfaces
    BY <1>4
  <2>2. Kept(typeOf[c.n], c) = {}
    BY <1>1 DEF Kept
  <2> HIDE DEF u
  <2> DEFINE own == {s \in u.own : s.kw \in Lists \/ s.kw \notin Kept(typeOf[c.n], c)} \cup
                UNION {{[kw |-> k, val |-> v] : v \in Given(c, k)} : k \in Kept(typeOf[c.n], c)}
  <2>3. WithOwn(u, typeOf[c.n], c) = [u EXCEPT !.own = u.own]
    <3>1. own = u.own
      BY <2>2
    <3>2. WithOwn(u, typeOf[c.n], c) = [u EXCEPT !.own = own]
      BY <2>1 DEF WithOwn, Interfaces
    <3> HIDE DEF own
    <3>3. QED  BY <3>1, <3>2
  <2>4. WithOwn(u, typeOf[c.n], c) = u
    BY <2>1, <2>3 DEF Interfaces
  <2>5. QED  BY <2>4 DEF u
<1>7. ~FibRefused(c) /\ ~OnlyCreated(c)
  BY <1>1 DEF FibRefused, OnlyCreated, Handled
<1>8. Saved(c) = Up(r)
  BY <1>3, <1>5, <1>6, <1>7 DEF Saved, r
<1>9. ~Present(c.n) => ~Handled(c)
  BY DEF Handled
<1>10. QED  BY <1>8, <1>9 DEF r, Refused

\* A line about an Ethernet interface that is there sets its MTU, and its FIB
\* and group if the kernel has the FIB.
EthernetSaved(r, o) ==
  IF o.vrf >= fibs THEN [r EXCEPT !.mtu = o.mtu, !.up = TRUE]
  ELSE [r EXCEPT !.mtu = o.mtu, !.up = TRUE,
                 !.vrf = IF o.vrf = 0 THEN @ ELSE o.vrf,
                 !.groups = Added(@, LastGroup(o))]

LEMMA EthernetRun ==
  ASSUME NEW c, NEW o, typeOf[c.n] = "ethernet", Present(c.n), sys[c.n] \in Interfaces,
         Given(c, "inet") = {}, Given(c, "vrf") = {o.vrf}, Given(c, "mtu") = {o.mtu},
         Given(c, "group") = LastGroup(o)
  PROVE  ~Refused(c) /\ Saved(c) = EthernetSaved(sys[c.n], o)
<1> DEFINE r == sys[c.n]
           link == WithLink(r, c)
<1>1. ~Refused(c) /\ ~Handled(c) /\ ~OnlyCreated(c) /\ Found(c.n) = r
  BY DEF Refused, Handled, OnlyCreated, Found
<1>2. r \in Interfaces
  OBVIOUS
<1>3. FibRefused(c) <=> o.vrf >= fibs
  BY DEF FibRefused
<1> HIDE DEF r, link
<1>4. link = [r EXCEPT !.mtu = o.mtu, !.up = TRUE]
  <2>1. link = [r EXCEPT !.addrs = r.addrs, !.mtu = o.mtu, !.up = TRUE]
    <3>1. Added(r.addrs, Given(c, "inet")) = r.addrs /\ Or(Given(c, "mtu"), r.mtu) = o.mtu
      BY AddedNothing, OrFacts
    <3>2. QED  BY <3>1 DEF WithLink, link
  <2>2. QED  BY <1>2, <2>1 DEF Interfaces
<1>5. Or({o.vrf} \ {0}, r.vrf) = IF o.vrf = 0 THEN r.vrf ELSE o.vrf
  <2>1. CASE o.vrf = 0
    <3>1. {o.vrf} \ {0} = {}
      BY <2>1
    <3>2. QED  BY <2>1, <3>1, OrFacts
  <2>2. CASE o.vrf # 0
    <3>1. {o.vrf} \ {0} = {o.vrf}
      BY <2>2
    <3>2. QED  BY <2>2, <3>1, OrFacts
  <2>3. QED  BY <2>1, <2>2
<1>6. WithFib(link, c) = [r EXCEPT !.mtu = o.mtu, !.up = TRUE,
                            !.vrf = IF o.vrf = 0 THEN r.vrf ELSE o.vrf,
                            !.groups = Added(r.groups, LastGroup(o))]
  <2>1. link.vrf = r.vrf /\ link.groups = r.groups
    BY <1>2, <1>4 DEF Interfaces
  <2>2. WithFib(link, c) = [link EXCEPT !.vrf = IF o.vrf = 0 THEN r.vrf ELSE o.vrf,
                                        !.groups = Added(r.groups, LastGroup(o))]
    <3>1. WithFib(link, c) = [link EXCEPT !.vrf = Or({o.vrf} \ {0}, link.vrf),
                                          !.groups = Added(link.groups, LastGroup(o))]
      BY <1>2, <1>4 DEF WithFib, Interfaces
    <3>2. QED  BY <1>5, <2>1, <3>1
  <2>3. QED  BY <1>2, <1>4, <2>2 DEF Interfaces
<1>7. Saved(c) = IF o.vrf >= fibs THEN link ELSE WithFib(link, c)
  BY <1>1, <1>3 DEF Saved, link
<1>8. EthernetSaved(r, o) =
        IF o.vrf >= fibs THEN [r EXCEPT !.mtu = o.mtu, !.up = TRUE]
        ELSE [r EXCEPT !.mtu = o.mtu, !.up = TRUE,
                 !.vrf = IF o.vrf = 0 THEN r.vrf ELSE o.vrf,
                 !.groups = Added(r.groups, LastGroup(o))]
  BY <1>2 DEF EthernetSaved, Interfaces
<1>9. Saved(c) = EthernetSaved(r, o)
  BY <1>4, <1>6, <1>7, <1>8
<1>10. QED  BY <1>1, <1>9 DEF r
LEMMA SameFields ==
  ASSUME NEW r \in Interfaces, NEW q \in Interfaces
  PROVE  SameButUp(r, q) <=>
           r = q \/ /\ r.up = TRUE /\ r.mtu = q.mtu /\ r.vrf = q.vrf
                    /\ r.addrs = q.addrs /\ r.groups = q.groups /\ r.own = q.own
<1>1. r # Absent /\ q # Absent
  BY AbsentType
<1>2. [r EXCEPT !.up = q.up] = q <=>
        /\ r.mtu = q.mtu /\ r.vrf = q.vrf
        /\ r.addrs = q.addrs /\ r.groups = q.groups /\ r.own = q.own
  BY DEF Interfaces
<1>3. r.up <=> r.up = TRUE
  BY DEF Interfaces
<1>4. QED  BY <1>1, <1>2, <1>3 DEF SameButUp

\* The state the proofs of the steps start from, interface by interface.
LEMMA SystemType ==
  ASSUME TypeOK, NEW n \in Name
  PROVE  /\ sys[n] \in Interfaces \cup {Absent} /\ orig.sys[n] \in Interfaces \cup {Absent}
         /\ seen[n] \in Interfaces \cup {Absent} /\ typeOf[n] \in Types
         /\ Present(n) => sys[n] \in Interfaces /\ sys[n].vrf < fibs
         /\ orig.sys[n] # Absent => orig.sys[n] \in Interfaces
         /\ fibs \in Nat
<1>1. orig.sys \in [Name -> Interfaces \cup {Absent}]
  BY DEF TypeOK
<1>2. fibs \in Nat
  BY Shape DEF TypeOK
<1>3. sys[n] \in Interfaces \cup {Absent} /\ (Present(n) => sys[n].vrf < fibs)
  BY DEF TypeOK
<1>4. seen[n] \in Interfaces \cup {Absent} /\ typeOf[n] \in Types
  BY DEF TypeOK
<1>5. QED  BY <1>1, <1>2, <1>3, <1>4 DEF Present

\* On the running system a printed line brings its interface up and leaves it as
\* it is otherwise.
After(c) == IF Refused(c) THEN sys[c.n] ELSE Saved(c)

LEMMA LastGroupThere ==
  ASSUME NEW o \in Interfaces PROVE Added(o.groups, LastGroup(o)) = o.groups
<1>1. o.groups \in Seq(Group)
  BY DEF Interfaces
<1>2. LastGroup(o) \subseteq {o.groups[i] : i \in DOMAIN o.groups}
  <2>1. o.groups # <<>> => Len(o.groups) \in DOMAIN o.groups
    BY <1>1
  <2>2. QED  BY <2>1 DEF LastGroup
<1>3. QED  BY <1>2 DEF Added

LEMMA LiveRun ==
  ASSUME TypeOK, LiveReplayOnlyBringsUp, phase = "live",
         NEW c, Reads(c), c.of = "interface"
  PROVE  c.n \in Name /\ SameButUp(After(c), orig.sys[c.n])
<1> DEFINE n == c.n
           r == sys[c.n]
           o == orig.sys[c.n]
<1>1. "interface" \notin Targets
  BY DEF Targets
<1>2. /\ c.n \in Name /\ c.as = "unknown" /\ o # Absent
      /\ typeOf[c.n] # "ethernet" => Nothing(c)
      /\ typeOf[c.n] = "ethernet" =>
           /\ Given(c, "inet") = {} /\ Given(c, "vrf") = {o.vrf}
           /\ Given(c, "mtu") = {o.mtu} /\ Given(c, "group") = LastGroup(o)
  BY <1>1 DEF Reads
<1>3. o \in Interfaces /\ r \in Interfaces \cup {Absent}
  BY <1>2, SystemType
<1>4. SameButUp(r, o)
  BY <1>2 DEF LiveReplayOnlyBringsUp
<1>5. Present(c.n) /\ r \in Interfaces
  BY <1>2, <1>3, <1>4 DEF SameButUp, Present
<1>6. Found(c.n) = r
  BY <1>5 DEF Found
<1>7. r.vrf < fibs /\ fibs \in Nat
  BY <1>2, <1>5, SystemType
<1> HIDE DEF r, o
<1>8. r.mtu = o.mtu /\ r.vrf = o.vrf /\ r.addrs = o.addrs /\ r.groups = o.groups
      /\ r.own = o.own
  BY <1>3, <1>4, <1>5, SameFields
<1>9. SameButUp(Up(r), o)
  <2>1. /\ Up(r) \in Interfaces /\ Up(r).up = TRUE /\ Up(r).mtu = r.mtu
        /\ Up(r).vrf = r.vrf /\ Up(r).addrs = r.addrs /\ Up(r).groups = r.groups
        /\ Up(r).own = r.own
    BY <1>5, UpType
  <2>2. QED  BY <1>3, <1>8, <2>1, SameFields
<1>10. CASE Refused(c)
  BY <1>2, <1>4, <1>10 DEF After, r, o
<1>11. CASE ~Refused(c) /\ typeOf[c.n] # "ethernet"
  <2>1. Saved(c) = Up(r)
    BY <1>2, <1>3, <1>6, <1>11, ClonedRun DEF r
  <2>2. QED  BY <1>2, <1>9, <1>11, <2>1 DEF After, o
<1>12. CASE ~Refused(c) /\ typeOf[c.n] = "ethernet"
  <2>1. Saved(c) = EthernetSaved(r, o)
    BY <1>2, <1>5, <1>12, EthernetRun DEF r
  <2>2. ~(o.vrf >= fibs)
    <3>1. o.vrf \in Nat
      BY <1>3, Shape DEF Interfaces, Fib
    <3>2. QED  BY <1>7, <1>8, <3>1
  <2>3. Added(r.groups, LastGroup(o)) = r.groups
    BY <1>3, <1>8, LastGroupThere
  <2>4. EthernetSaved(r, o) = Up(r)
    <3>1. EthernetSaved(r, o) =
            [r EXCEPT !.mtu = o.mtu, !.up = TRUE,
                      !.vrf = IF o.vrf = 0 THEN r.vrf ELSE o.vrf,
                      !.groups = Added(r.groups, LastGroup(o))]
      BY <1>5, <2>2 DEF EthernetSaved, Interfaces
    <3>2. EthernetSaved(r, o) = [r EXCEPT !.mtu = r.mtu, !.up = TRUE, !.vrf = r.vrf,
                                          !.groups = r.groups]
      BY <1>8, <2>3, <3>1
    <3>3. QED  BY <1>5, <3>2 DEF Up, Interfaces
  <2>5. QED  BY <1>2, <1>9, <1>12, <2>1, <2>4 DEF After, o
<1>13. QED  BY <1>2, <1>10, <1>11, <1>12 DEF o
LEMMA InterfaceFields ==
  ASSUME NEW r \in Interfaces, NEW q \in Interfaces,
         r.up = q.up, r.mtu = q.mtu, r.vrf = q.vrf, r.addrs = q.addrs,
         r.groups = q.groups, r.own = q.own
  PROVE  r = q
BY DEF Interfaces

LEMMA AddedOne ==
  ASSUME NEW g
  PROVE  Added(<<>>, {g}) = <<g>> /\ Added(<<g>>, {g}) = <<g>>
<1>1. (CHOOSE x \in {g} : TRUE) = g
  OBVIOUS
<1>2. ~({g} \subseteq {<<>>[i] : i \in DOMAIN <<>>})
  OBVIOUS
<1>3. {g} \subseteq {<<g>>[i] : i \in DOMAIN <<g>>}
  <2>1. 1 \in DOMAIN <<g>> /\ <<g>>[1] = g
    OBVIOUS
  <2>2. QED  BY <2>1
<1>4. Append(<<>>, g) = <<g>>
  OBVIOUS
<1>5. QED  BY <1>1, <1>2, <1>3, <1>4 DEF Added

\* After a restart a printed line leaves its interface restored, whether it was
\* before or not.
LEMMA RebootedRun ==
  ASSUME TypeOK, Restoring, phase = "rebooted",
         NEW c, Reads(c), c.of = "interface"
  PROVE  c.n \in Name /\ After(c) = Restored(c.n)
<1> DEFINE r == sys[c.n]
           o == orig.sys[c.n]
<1>1. "interface" \notin Targets
  BY DEF Targets
<1>2. /\ c.n \in Name /\ c.as = "unknown" /\ o # Absent
      /\ typeOf[c.n] # "ethernet" => Nothing(c)
      /\ typeOf[c.n] = "ethernet" =>
           /\ Given(c, "inet") = {} /\ Given(c, "vrf") = {o.vrf}
           /\ Given(c, "mtu") = {o.mtu} /\ Given(c, "group") = LastGroup(o)
  BY <1>1 DEF Reads
<1>3. o \in Interfaces /\ r \in Interfaces \cup {Absent}
  BY <1>2, SystemType
<1>4. fibs = BootFibs /\ (r = Boot(c.n) \/ r = Restored(c.n))
  BY <1>2 DEF Restoring
<1>5. Fresh \in Interfaces /\ Fresh # Absent
  BY FreshType, AbsentType
<1>6. CASE typeOf[c.n] # "ethernet" /\ typeOf[c.n] \notin Cloneable
  <2>1. Restored(c.n) = Absent /\ Boot(c.n) = Absent
    BY <1>6 DEF Restored, Boot
  <2>2. ~Present(c.n)
    BY <1>4, <2>1 DEF Present
  <2>3. Refused(c)
    BY <1>6, <2>2 DEF Refused
  <2>4. QED  BY <1>2, <1>4, <2>1, <2>3 DEF After
<1>7. CASE typeOf[c.n] # "ethernet" /\ typeOf[c.n] \in Cloneable
  <2>1. Restored(c.n) = Up(Fresh) /\ Boot(c.n) = Absent
    BY <1>2, <1>7 DEF Restored, Boot, Up
  <2>2. Up(Fresh) \in Interfaces /\ Up(Up(Fresh)) = Up(Fresh)
    BY <1>5, UpType DEF Up, Interfaces
  <2>3. /\ Saved(c) = Up(Found(c.n))
        /\ ~Present(c.n) => ~Refused(c)
    BY <1>2, <1>3, <1>7, ClonedRun
  <2>4. CASE Present(c.n)
    <3>1. r = Up(Fresh) /\ Found(c.n) = r
      BY <1>4, <2>1, <2>4 DEF Present, Found
    <3>2. QED  BY <1>2, <2>1, <2>2, <2>3, <3>1 DEF After
  <2>5. CASE ~Present(c.n)
    <3>1. Found(c.n) = Fresh
      BY <2>5 DEF Found
    <3>2. QED  BY <1>2, <2>1, <2>3, <2>5, <3>1 DEF After
  <2>6. QED  BY <2>4, <2>5
<1>8. CASE typeOf[c.n] = "ethernet"
  <2> DEFINE k == o.vrf < BootFibs
             R == Restored(c.n)
             G == IF k /\ o.addrs = <<>> /\ o.groups # <<>>
                    THEN <<o.groups[Len(o.groups)]>> ELSE <<>>
             F == [Fresh EXCEPT !.up = TRUE, !.mtu = o.mtu,
                                !.vrf = IF k THEN o.vrf ELSE 0, !.groups = G]
  <2>1. R = F /\ Boot(c.n) = Fresh
    BY <1>2, <1>8 DEF Restored, Boot
  <2>2. o.vrf \in Nat /\ BootFibs \in Nat /\ o.mtu \in Mtu /\ o.vrf \in Fib /\ 0 \in Fib
    <3>1. Fib \subseteq Nat /\ BootFibs \in Nat /\ 0 \in Fib
      BY Shape DEF Fib
    <3>2. QED  BY <1>3, <3>1 DEF Interfaces
  <2>3. G \in Seq(Group)
    <3>1. o.groups \in Seq(Group)
      BY <1>3 DEF Interfaces
    <3>2. QED  BY <3>1
  <2>4. F \in Interfaces /\ F.groups = G /\ F.mtu = o.mtu /\ F.up = TRUE
        /\ F.addrs = <<>> /\ F.own = {} /\ F.vrf = IF k THEN o.vrf ELSE 0
    <3> HIDE DEF G
    <3>1. QED  BY <1>5, <2>2, <2>3 DEF Interfaces, Fresh
  <2>5. Fresh.groups = <<>> /\ Fresh.vrf = 0 /\ Fresh.addrs = <<>> /\ Fresh.own = {}
    BY DEF Fresh
  <2> HIDE DEF F, R
  <2>6. r \in Interfaces /\ Present(c.n) /\ (r = Fresh \/ r = F)
    BY <1>4, <1>5, <2>1, <2>4, AbsentType DEF Present, R
  <2>7. ~Refused(c) /\ Saved(c) = EthernetSaved(r, o)
    BY <1>2, <1>8, <2>6, EthernetRun
  <2>8. k => Added(r.groups, LastGroup(o)) = G
    <3>1. CASE o.addrs = <<>> /\ o.groups # <<>> /\ k
      <4> DEFINE g == o.groups[Len(o.groups)]
      <4>1. LastGroup(o) = {g} /\ G = <<g>>
        BY <3>1 DEF LastGroup
      <4> HIDE DEF G, g
      <4>2. r.groups = <<>> \/ r.groups = <<g>>
        BY <2>4, <2>5, <2>6, <4>1
      <4>3. QED  BY <4>1, <4>2, AddedOne
    <3>2. CASE ~(o.addrs = <<>> /\ o.groups # <<>>) /\ k
      <4>1. LastGroup(o) = {} /\ G = <<>>
        BY <3>2 DEF LastGroup
      <4> HIDE DEF G
      <4>2. r.groups = <<>>
        BY <2>4, <2>5, <2>6, <4>1
      <4>3. QED  BY <4>1, <4>2, AddedNothing
    <3>3. QED  BY <3>1, <3>2
  <2>9. ~k => G = <<>>
    OBVIOUS
  <2> HIDE DEF G
  <2>10. k => EthernetSaved(r, o) = F
    <3> SUFFICES ASSUME k PROVE EthernetSaved(r, o) = F
      OBVIOUS
    <3>1. EthernetSaved(r, o) = [r EXCEPT !.mtu = o.mtu, !.up = TRUE,
                                   !.vrf = IF o.vrf = 0 THEN r.vrf ELSE o.vrf, !.groups = G]
      <4>1. ~(o.vrf >= fibs)
        BY <1>4, <2>2
      <4>2. EthernetSaved(r, o) = [r EXCEPT !.mtu = o.mtu, !.up = TRUE,
                                     !.vrf = IF o.vrf = 0 THEN r.vrf ELSE o.vrf,
                                     !.groups = Added(r.groups, LastGroup(o))]
        BY <2>6, <4>1 DEF EthernetSaved, Interfaces
      <4>3. QED  BY <2>8, <4>2
    <3>2. (IF o.vrf = 0 THEN r.vrf ELSE o.vrf) = o.vrf
      BY <2>4, <2>5, <2>6
    <3>3. EthernetSaved(r, o) = [r EXCEPT !.mtu = o.mtu, !.up = TRUE, !.vrf = o.vrf,
                                          !.groups = G]
      BY <3>1, <3>2
    <3>4. r.addrs = <<>> /\ r.own = {}
      BY <2>4, <2>5, <2>6
    <3> DEFINE e == [r EXCEPT !.mtu = o.mtu, !.up = TRUE, !.vrf = o.vrf, !.groups = G]
    <3>5. /\ e \in Interfaces /\ e.up = TRUE /\ e.mtu = o.mtu /\ e.vrf = o.vrf
          /\ e.groups = G /\ e.addrs = r.addrs /\ e.own = r.own
      <4>1. r \in Interfaces /\ o.mtu \in Mtu /\ o.vrf \in Fib /\ G \in Seq(Group)
        BY <2>2, <2>3, <2>6
      <4> HIDE DEF r, o
      <4>2. QED  BY <4>1 DEF Interfaces
    <3> HIDE DEF e
    <3>6. e = F
      BY <2>4, <3>4, <3>5, InterfaceFields
    <3>7. QED  BY <3>3, <3>6 DEF e
  <2>11. ~k => EthernetSaved(r, o) = F
    <3> SUFFICES ASSUME ~k PROVE EthernetSaved(r, o) = F
      OBVIOUS
    <3>1. o.vrf >= fibs
      BY <1>4, <2>2
    <3>2. EthernetSaved(r, o) = [r EXCEPT !.mtu = o.mtu, !.up = TRUE]
      BY <3>1 DEF EthernetSaved
    <3>3. r.addrs = <<>> /\ r.own = {} /\ r.vrf = 0 /\ r.groups = <<>>
      BY <2>4, <2>5, <2>6, <2>9
    <3> DEFINE e == [r EXCEPT !.mtu = o.mtu, !.up = TRUE]
    <3>4. /\ e \in Interfaces /\ e.up = TRUE /\ e.mtu = o.mtu /\ e.vrf = r.vrf
          /\ e.groups = r.groups /\ e.addrs = r.addrs /\ e.own = r.own
      BY <2>2, <2>6 DEF Interfaces
    <3> HIDE DEF e
    <3>5. e = F
      BY <2>4, <2>9, <3>3, <3>4, InterfaceFields
    <3>6. QED  BY <3>2, <3>5 DEF e
  <2>12. QED  BY <1>2, <2>1, <2>7, <2>10, <2>11 DEF After, R
<1>9. QED  BY <1>6, <1>7, <1>8
-----------------------------------------------------------------------------
(* Printing and running, for the system as a whole                          *)

LEMMA TypesTargets == Types \cap Targets = {} /\ "interface" \notin Types \cup Targets
BY DEF Types, Targets

\* The lines of what a listing holds.
LEMMA LinesRead ==
  ASSUME TypeOK, NEW x \in Listed, Good(x)
  PROVE  /\ Lines(x) \in Seq(Commands) /\ Lines(x) # <<>>
         /\ \A i \in DOMAIN Lines(x) :
              /\ Reads(Lines(x)[i])
              /\ x.of \in Types => Lines(x)[i].of = "interface" /\ Lines(x)[i].n = x.n
<1>1. CASE x.of \notin Types
  <2>1. x.of \in Targets /\ x.n \in Value \cup Nat
    BY <1>1 DEF Listed
  <2>2. Lines(x) = <<EntryLine(x)>>
    BY <1>1 DEF Lines
  <2>3. EntryLine(x) \in Commands /\ EntryLine(x).of \in Targets /\ Nothing(EntryLine(x))
    BY <2>1, EntryReadsNothing
  <2>4. Reads(EntryLine(x))
    BY <2>3 DEF Reads
  <2>5. QED  BY <1>1, <2>2, <2>3, <2>4
<1>2. CASE x.of \in Types
  <2> DEFINE n == x.n
             r == seen[x.n]
             o == orig.sys[x.n]
             L == IF r.addrs = <<>> THEN 1 ELSE Len(r.addrs)
             line(i) == InterfaceLine(x.n, x.of, r, i)
  <2>1. n \in Name /\ typeOf[n] = x.of /\ r # Absent /\ SameButUp(r, o)
    BY <1>2 DEF Good
  <2>2. r \in Interfaces
    BY <2>1, SystemType
  <2>3. o # Absent /\ o \in Interfaces
    <3>1. o # Absent
      BY <2>1 DEF SameButUp
    <3>2. QED  BY <2>1, <3>1, SystemType
  <2>4. Lines(x) = [i \in 1..L |-> line(i)]
    BY <1>2 DEF Lines
  <2>5. r.addrs \in Seq(Addr)
    BY <2>2 DEF Interfaces
  <2>6. L \in Nat /\ L >= 1 /\ \A i \in 1..L : r.addrs # <<>> => i \in DOMAIN r.addrs
    BY <2>5
  <2>7. \A i : line(i) \in Commands /\ line(i).of = "interface" /\ line(i).n = n
               /\ line(i).as = "unknown"
    <3>1. TAKE i
    <3>2. LineIs(line(i), n, x.of, r, i)
      BY <2>1, <2>2, LineShape
    <3> HIDE DEF line
    <3>3. QED  BY <3>2 DEF LineIs
  <2>8. \A i \in 1..L : typeOf[n] # "ethernet" => Nothing(line(i))
    BY <2>1, <2>2, ClonedReadsNothing
  <2>9. r.mtu = o.mtu /\ r.vrf = o.vrf /\ LastGroup(r) = LastGroup(o)
    <3> HIDE DEF r, o
    <3>1. r.mtu = o.mtu /\ r.vrf = o.vrf /\ r.addrs = o.addrs /\ r.groups = o.groups
      BY <2>1, <2>2, <2>3, SameFields
    <3>2. QED  BY <3>1 DEF LastGroup
  <2>10. \A i \in 1..L : typeOf[n] = "ethernet" =>
            /\ Given(line(i), "inet") = {} /\ Given(line(i), "vrf") = {o.vrf}
            /\ Given(line(i), "mtu") = {o.mtu} /\ Given(line(i), "group") = LastGroup(o)
    <3> SUFFICES ASSUME NEW i \in 1..L, typeOf[n] = "ethernet"
                 PROVE  /\ Given(line(i), "inet") = {} /\ Given(line(i), "vrf") = {o.vrf}
                        /\ Given(line(i), "mtu") = {o.mtu}
                        /\ Given(line(i), "group") = LastGroup(o)
      OBVIOUS
    <3>1. x.of = "ethernet" /\ (r.addrs # <<>> => i \in DOMAIN r.addrs)
      BY <2>1, <2>6
    <3>2. /\ Given(line(i), "inet") = {} /\ Given(line(i), "vrf") = {r.vrf}
          /\ Given(line(i), "mtu") = {r.mtu} /\ Given(line(i), "group") = LastGroup(r)
      <4> HIDE DEF r
      <4>1. QED  BY <2>1, <2>2, <3>1, EthernetReads
    <3>3. QED  BY <2>9, <3>2
  <2> HIDE DEF r, o, L, line, n
  <2>11. \A i \in 1..L : Reads(line(i))
    BY <2>1, <2>3, <2>7, <2>8, <2>10 DEF Reads, n, o
  <2>12. Lines(x) \in Seq(Commands) /\ DOMAIN Lines(x) = 1..L /\ Len(Lines(x)) = L
    BY <2>4, <2>6, <2>7
  <2>13. Lines(x) # <<>>
    BY <2>6, <2>12
  <2>14. \A i \in DOMAIN Lines(x) : Lines(x)[i] = line(i)
    BY <2>4, <2>12
  <2>15. QED  BY <2>7, <2>11, <2>12, <2>13, <2>14 DEF n
<1>3. QED  BY <1>1, <1>2

LEMMA SystemKept ==
  ASSUME TypeOK, NEW c \in Commands, c.of = "interface" => Fits(c), Execute(c)
  PROVE  /\ sys' \in [Name -> Interfaces \cup {Absent}]
         /\ \A n \in Name : sys'[n] # Absent => sys'[n].vrf < fibs'
         /\ fibs' = fibs /\ entries' \subseteq Entries
<1>1. sys \in [Name -> Interfaces \cup {Absent}] /\ entries \subseteq Entries
      /\ \A n \in Name : sys[n] # Absent => sys[n].vrf < fibs
  BY DEF TypeOK, Present
<1>2. CASE SetInterface(c)
  <2>1. fibs' = fibs /\ entries' = entries /\ Fits(c)
        /\ sys' = IF Refused(c) THEN sys ELSE [sys EXCEPT ![c.n] = Saved(c)]
    BY <1>2 DEF SetInterface
  <2>2. Saved(c) \in Interfaces /\ Saved(c).vrf < fibs
    BY <2>1, SavedType
  <2>3. c.n \in Name
    BY <2>1 DEF Fits
  <2>4. QED  BY <1>1, <2>1, <2>2, <2>3
<1>3. CASE SetEntry(c)
  <2> DEFINE k == IF c.of = "route" THEN "dest" ELSE "ip"
             new == {[of |-> c.of, n |-> d, fib |-> FibOf(c),
                      shown |-> (c.of = "arp" => "pub" \in GivenKeys(c))] : d \in Given(c, k)}
  <2>1. c.of \in Targets /\ fibs' = fibs /\ sys' = sys
        /\ (entries' = entries \/ entries' = entries \cup new)
    BY <1>3 DEF SetEntry
  <2>2. Given(c, k) \subseteq Value \cup Nat
    BY GivenType
  <2>3. new \subseteq Entries
    <3> DEFINE b == c.of = "arp" => "pub" \in GivenKeys(c)
    <3>1. b \in BOOLEAN
      OBVIOUS
    <3>2. FibOf(c) \in Fib
      <4>1. 0..(fibs - 1) \subseteq Fib /\ 0 \in Fib
        BY Shape DEF TypeOK, Fib
      <4>2. QED  BY <4>1 DEF FibOf, Or
    <3> HIDE DEF k, b
    <3>3. \A d \in Given(c, k) :
            [of |-> c.of, n |-> d, fib |-> FibOf(c), shown |-> b] \in Entries
      BY <2>1, <2>2, <3>1, <3>2 DEF Entries
    <3>4. QED  BY <3>3 DEF b
  <2> HIDE DEF new
  <2>4. QED  BY <1>1, <2>1, <2>3
<1>4. QED  BY <1>2, <1>3 DEF Execute

LEMMA EntryNeeds == ASSUME NEW t \in Targets, t # "vrf" PROVE Needs(t) # {}
<1>1. dispatch("route") = RouteToken /\ dispatch("arp") = ArpToken
      /\ dispatch("ndp") = NdpToken
  BY DEF dispatch
<1>2. "dest" \in RouteToken.needs /\ "mac" \in ArpToken.needs /\ "mac" \in NdpToken.needs
  BY DEF RouteToken, ArpToken, NdpToken, Token
<1>3. dispatch(t).needs # {}
  BY <1>1, <1>2 DEF Targets
<1>4. QED  BY <1>3 DEF Needs

\* No printed line sets an entry.
LEMMA EntryLinesDoNothing ==
  ASSUME NEW c, Reads(c), c.of \in Targets, Execute(c)
  PROVE  UNCHANGED system
<1>1. c.of # "interface"
  BY DEF Targets
<1>2. Nothing(c) /\ SetEntry(c)
  BY <1>1 DEF Reads, Execute, SetInterface
<1>3. c.of # "vrf" => ~(Needs(c.of) \subseteq GivenKeys(c))
  BY <1>2, EntryNeeds DEF Nothing
<1>4. QED  BY <1>2, <1>3 DEF SetEntry, system

\* A printed line fits its interface.
LEMMA ReadsFit ==
  ASSUME TypeOK, NEW c \in Commands, Reads(c), c.of = "interface"
  PROVE  Fits(c)
<1>1. "interface" \notin Targets
  BY DEF Targets
<1>2. CASE Nothing(c)
  <2>1. {"inet", "vrf", "mtu", "group"} \subseteq Keywords
    BY DEF Keywords
  <2>2. c.n \in Name
    BY <1>1 DEF Reads
  <2>3. QED  BY <1>2, <2>1, <2>2 DEF Nothing, Fits
<1>3. CASE ~Nothing(c)
  <2> DEFINE o == orig.sys[c.n]
  <2>1. /\ c.n \in Name /\ o # Absent
        /\ Given(c, "inet") = {} /\ Given(c, "vrf") = {o.vrf}
        /\ Given(c, "mtu") = {o.mtu} /\ Given(c, "group") = LastGroup(o)
    BY <1>1, <1>3 DEF Reads
  <2>2. o \in Interfaces
    BY <2>1, SystemType
  <2>3. o.vrf \in Nat /\ o.mtu \in Mtu
    <3>1. Fib \subseteq Nat
      BY Shape DEF Fib
    <3>2. QED  BY <2>2, <3>1 DEF Interfaces
  <2>4. LastGroup(o) \subseteq Group
    <3>1. o.groups \in Seq(Group)
      BY <2>2 DEF Interfaces
    <3> HIDE DEF o
    <3>2. QED  BY <3>1 DEF LastGroup
  <2> HIDE DEF o
  <2>5. QED  BY <2>1, <2>3, <2>4 DEF Fits
<1>4. QED  BY <1>2, <1>3
-----------------------------------------------------------------------------
(* The invariant is inductive                                               *)

LEMMA Fixed ==
  ASSUME typeOf' = typeOf, orig' = orig
  PROVE  /\ \A c : Reads(c)' <=> Reads(c)
         /\ \A n : Restored(n)' = Restored(n) /\ Boot(n)' = Boot(n)
<1>1. \A c : Reads(c)' <=> Reads(c)
  BY DEF Reads
<1>2. \A n : Boot(n)' = Boot(n)
  BY DEF Boot
<1>3. \A n : Restored(n)' = Restored(n)
  BY <1>2 DEF Restored
<1>4. QED  BY <1>1, <1>2, <1>3

\* While a section has anything to list or print, `net -g` runs on the live system.
LEMMA WritingLive ==
  ASSUME TypeOK, Phases, Writing \/ pending # <<>> \/ sorted # <<>>
  PROVE  Writing /\ phase = "live" /\ (pending # <<>> \/ sorted # <<>> => fetched)
<1>1. Writing
  BY DEF Phases
<1>2. section \in 1..22 /\ ~Complete
  BY <1>1, SectionsDomain DEF Writing, Complete
<1>3. phase = "live"
  BY <1>2 DEF TypeOK, Phases
<1>4. QED  BY <1>1, <1>3 DEF Phases

LEMMA TypingIdle ==
  ASSUME TypeOK, Phases, phase = "typing"
  PROVE  section = 0 /\ ~fetched /\ script = <<>> /\ pending = <<>> /\ sorted = <<>>
<1>1. section = 0 /\ script = <<>>
  BY DEF Phases
<1>2. ~Writing
  BY <1>1, SectionsDomain DEF Writing
<1>3. QED  BY <1>1, <1>2 DEF Phases

LEMMA InitInv == ASSUME Init PROVE IInv
<1>1. 0 \in Nat /\ BootFibs \in Nat /\ BootFibs > 0 /\ BootFibs <= MaxFibs /\ MaxFibs \in Nat
      /\ Learned \subseteq Entries
  BY Shape
<1>2. \A n \in Name : sys[n] \in Interfaces \cup {Absent} /\ (Present(n) => sys[n].vrf < fibs)
  BY <1>1, FreshType DEF Init, Present
<1>3. sys \in [Name -> Interfaces \cup {Absent}]
  BY FreshType DEF Init
<1>4. seen \in [Name -> Interfaces \cup {Absent}]
      /\ orig \in [sys : [Name -> Interfaces \cup {Absent}], entries : SUBSET Entries]
  BY DEF Init
<1>5. typed \in 0..MaxTyped
  BY Shape DEF Init
<1>6. typeOf \in [Name -> Types] /\ fibs \in BootFibs..MaxFibs /\ entries \subseteq Entries
  BY <1>1 DEF Init
<1>7. /\ phase = "typing" /\ section = 0 /\ fetched = FALSE /\ pending = <<>>
      /\ sorted = <<>> /\ script = <<>> /\ next = 1
  BY DEF Init
<1>8. TypeOK
  <2>1. section \in 0..(Len(Sections) + 1) /\ next \in 1..(Len(script) + 1)
    BY <1>7, SectionsDomain
  <2>2. pending \in Seq(Listed) /\ sorted \in Seq(Listed) /\ script \in Seq(Commands)
    BY <1>7
  <2>3. QED  BY <1>2, <1>3, <1>4, <1>5, <1>6, <1>7, <2>1, <2>2 DEF TypeOK
<1>9. Phases
  BY <1>7 DEF Phases
<1>10. Listings /\ Scripted /\ Covered /\ LiveReplayOnlyBringsUp /\ Restoring
  BY <1>7 DEF Listings, Scripted, Covered, LiveReplayOnlyBringsUp, Restoring
<1>11. QED  BY <1>8, <1>9, <1>10 DEF IInv

LEMMA TypeInv ==
  ASSUME IInv, NEW c \in Typed, Type(c) PROVE IInv'
<1>1. TypeOK /\ Phases
  BY DEF IInv
<1>2. /\ phase = "typing" /\ phase' = "typing" /\ typeOf' = typeOf /\ orig' = orig
      /\ section' = section /\ fetched' = fetched /\ seen' = seen /\ pending' = pending
      /\ sorted' = sorted /\ script' = script /\ next' = next
      /\ typed' = typed + 1 /\ typed < MaxTyped /\ Execute(c)
  BY DEF Type, generator
<1>3. c \in Commands /\ (c.of = "interface" => Fits(c))
  BY TypedShape DEF Fits
<1>4. section' = 0 /\ ~fetched' /\ script' = <<>> /\ pending' = <<>> /\ sorted' = <<>>
  BY <1>1, <1>2, TypingIdle
<1>5. TypeOK'
  <2>1. /\ sys' \in [Name -> Interfaces \cup {Absent}]
        /\ \A n \in Name : sys'[n] # Absent => sys'[n].vrf < fibs'
        /\ fibs' = fibs /\ entries' \subseteq Entries
    BY <1>1, <1>2, <1>3, SystemKept
  <2>2. typed' \in 0..MaxTyped
    BY <1>1, <1>2, Shape DEF TypeOK
  <2>3. QED  BY <1>1, <1>2, <2>1, <2>2 DEF TypeOK, Present
<1>6. Phases'
  BY <1>2, <1>4 DEF Phases
<1>7. Listings' /\ Scripted'
  BY <1>4 DEF Listings, Scripted
<1>8. Covered' /\ LiveReplayOnlyBringsUp' /\ Restoring'
  BY <1>2 DEF Covered, LiveReplayOnlyBringsUp, Restoring
<1>9. QED  BY <1>5, <1>6, <1>7, <1>8 DEF IInv

LEMMA GenerateInv ==
  ASSUME IInv, Generate PROVE IInv'
<1>1. TypeOK /\ Phases
  BY DEF IInv
<1>2. /\ phase = "typing" /\ phase' = "live" /\ section' = 1
      /\ orig' = [sys |-> sys, entries |-> entries]
      /\ typeOf' = typeOf /\ sys' = sys /\ fibs' = fibs /\ entries' = entries
      /\ typed' = typed /\ fetched' = fetched /\ seen' = seen /\ pending' = pending
      /\ sorted' = sorted /\ script' = script /\ next' = next
  BY DEF Generate, system
<1>3. ~fetched' /\ script' = <<>> /\ pending' = <<>> /\ sorted' = <<>>
  BY <1>1, <1>2, TypingIdle
<1>4. TypeOK'
  <2>1. orig' \in [sys : [Name -> Interfaces \cup {Absent}], entries : SUBSET Entries]
    BY <1>1, <1>2 DEF TypeOK
  <2>2. section' \in 0..(Len(Sections) + 1)
    BY <1>2, SectionsDomain
  <2>3. QED  BY <1>1, <1>2, <2>1, <2>2 DEF TypeOK, Present
<1>5. Phases'
  BY <1>2, <1>3 DEF Phases
<1>6. Listings' /\ Scripted'
  BY <1>3 DEF Listings, Scripted
<1>7. Covered'
  <2>1. \A n \in Name : Due(n)'
    <3> SUFFICES ASSUME NEW n \in Name PROVE Due(n)'
      OBVIOUS
    <3>1. typeOf[n] \in Types
      BY <1>1, SystemType
    <3>2. PICK s \in DOMAIN Sections : Sections[s] = typeOf[n]
      BY <3>1, SectionsAll
    <3>3. 1 < s \/ 1 = s
      BY <3>2, SectionsDomain
    <3>4. QED  BY <1>2, <1>3, <3>2, <3>3 DEF Due
  <2>2. QED  BY <2>1 DEF Covered
<1>8. LiveReplayOnlyBringsUp'
  <2>1. \A n \in Name : SameButUp(sys[n], sys[n])
    BY DEF SameButUp
  <2>2. QED  BY <1>2, <2>1 DEF LiveReplayOnlyBringsUp
<1>9. Restoring'
  BY <1>2 DEF Restoring
<1>10. QED  BY <1>4, <1>5, <1>6, <1>7, <1>8, <1>9 DEF IInv
\* A listing of the live system holds what was there when `net -g` began.
LEMMA ItemsGood ==
  ASSUME TypeOK, LiveReplayOnlyBringsUp, phase = "live",
         NEW s \in Types \cup Targets, NEW x \in Items(s)
  PROVE  /\ x \in Listed
         /\ x.of \in Types =>
              /\ x.n \in Name /\ typeOf[x.n] = x.of
              /\ sys[x.n] # Absent /\ SameButUp(sys[x.n], orig.sys[x.n])
<1>0. 0 \in Fib
  BY Shape DEF Fib
<1>1. CASE s \in Types
  <2>1. PICK m \in Name : typeOf[m] = s /\ Present(m)
                          /\ x = [of |-> s, n |-> m, fib |-> 0, shown |-> TRUE]
    BY <1>1 DEF Items
  <2>2. m \in Value /\ SameButUp(sys[m], orig.sys[m])
    BY Shape DEF LiveReplayOnlyBringsUp
  <2>3. x.of = s /\ x.n = m
    BY <2>1
  <2>4. x \in Listed
    BY <1>0, <1>1, <2>1, <2>2 DEF Listed
  <2>5. QED  BY <2>1, <2>2, <2>3, <2>4 DEF Present
<1>2. CASE s \in Targets
  <2>1. s \notin Types
    BY <1>2, TypesTargets
  <2>2. CASE s = "vrf"
    <3>1. x = [of |-> s, n |-> fibs, fib |-> 0, shown |-> TRUE] /\ fibs \in Nat
      BY <2>1, <2>2, Shape DEF Items, TypeOK
    <3>2. x \in Listed /\ x.of = s
      BY <1>0, <1>2, <3>1 DEF Listed
    <3>3. QED  BY <2>1, <3>2
  <2>3. CASE s # "vrf"
    <3>1. x \in Entries /\ x.of = s
      BY <2>1, <2>3 DEF Items, TypeOK
    <3>2. x \in Listed
      BY <3>1 DEF Entries, Listed
    <3>3. QED  BY <2>1, <3>1, <3>2
  <2>4. QED  BY <2>2, <2>3
<1>3. QED  BY <1>1, <1>2

LEMMA FetchInv ==
  ASSUME IInv, Fetch PROVE IInv'
<1>1. TypeOK /\ Phases /\ Listings /\ Scripted /\ Covered /\ LiveReplayOnlyBringsUp
  BY DEF IInv
<1> DEFINE S == Items(Sections[section])
<1>2. /\ Writing /\ ~fetched /\ fetched' = TRUE /\ seen' = sys
      /\ typeOf' = typeOf /\ sys' = sys /\ fibs' = fibs /\ entries' = entries
      /\ typed' = typed /\ phase' = phase /\ section' = section /\ sorted' = sorted
      /\ script' = script /\ next' = next /\ orig' = orig
  BY DEF Fetch, system
<1>3. phase = "live" /\ pending = <<>> /\ sorted = <<>>
  BY <1>1, <1>2, WritingLive DEF Phases
<1>4. PICK q \in [1..Cardinality(S) -> S] :
        IsFiniteSet(S) /\ S = {q[i] : i \in DOMAIN q} /\ pending' = q
  BY DEF Fetch
<1>5. Cardinality(S) \in Nat
  BY <1>4, FS_CardinalityType
<1>6. section \in DOMAIN Sections /\ Sections[section] \in Types \cup Targets
  BY <1>2, SectionsKnown DEF Writing
<1>7. \A x \in S : /\ x \in Listed
                   /\ x.of \in Types =>
                        /\ x.n \in Name /\ typeOf[x.n] = x.of
                        /\ sys[x.n] # Absent /\ SameButUp(sys[x.n], orig.sys[x.n])
  BY <1>1, <1>3, <1>6, ItemsGood
<1> HIDE DEF S
<1>8. pending' \in Seq(S) /\ \A i \in DOMAIN pending' : pending'[i] \in S
  BY <1>4, <1>5
<1>9. TypeOK'
  <2>1. pending' \in Seq(Listed)
    BY <1>7, <1>8
  <2>2. QED  BY <1>1, <1>2, <2>1 DEF TypeOK, Present
<1>10. Phases'
  BY <1>1, <1>2 DEF Phases, Writing, Complete
<1>11. Listings'
  <2>1. \A x \in S : Good(x)'
    BY <1>2, <1>7 DEF Good
  <2>2. QED  BY <1>2, <1>3, <1>8, <2>1 DEF Listings
<1>12. Scripted'
  BY <1>1, <1>2, Fixed DEF Scripted
<1>13. Covered'
  <2> SUFFICES ASSUME NEW n \in Name, orig.sys[n] # Absent
               PROVE  Due(n)' \/ ListedIn(pending', n) \/ Printed(n)'
    BY <1>2 DEF Covered
  <2>1. CASE Printed(n)
    BY <1>2, <2>1 DEF Printed
  <2>2. CASE Due(n)
    <3>1. PICK s \in DOMAIN Sections :
            Sections[s] = typeOf[n] /\ (section < s \/ section = s)
      BY <2>2 DEF Due
    <3>2. CASE section < s
      BY <1>2, <3>1, <3>2 DEF Due
    <3>3. CASE section = s
      <4>1. typeOf[n] \in Types /\ Present(n)
        <5>1. SameButUp(sys[n], orig.sys[n])
          BY <1>1, <1>3 DEF LiveReplayOnlyBringsUp
        <5>2. sys[n] # Absent
          BY <5>1 DEF SameButUp
        <5>3. QED  BY <1>1, <5>2, SystemType DEF Present
      <4> DEFINE x == [of |-> typeOf[n], n |-> n, fib |-> 0, shown |-> TRUE]
      <4>2. x \in S
        BY <3>1, <3>3, <4>1 DEF S, Items
      <4>3. x.of \in Types /\ x.n = n
        BY <4>1
      <4> HIDE DEF x
      <4>4. PICK i \in DOMAIN q : q[i] = x
        BY <1>4, <4>2
      <4>5. QED  BY <1>4, <4>3, <4>4 DEF ListedIn
    <3>4. QED  BY <3>1, <3>2, <3>3
  <2>3. ~ListedIn(pending, n) /\ ~ListedIn(sorted, n)
    BY <1>3 DEF ListedIn
  <2>4. QED  BY <1>1, <1>3, <2>1, <2>2, <2>3 DEF Covered
<1>14. LiveReplayOnlyBringsUp'
  BY <1>1, <1>2 DEF LiveReplayOnlyBringsUp
<1>15. Restoring'
  BY <1>2, <1>3 DEF Restoring
<1>16. QED  BY <1>9, <1>10, <1>11, <1>12, <1>13, <1>14, <1>15 DEF IInv

\* x put into s after its first k elements.
Put(s, x, k) == SubSeq(s, 1, k) \o <<x>> \o SubSeq(s, k + 1, Len(s))

LEMMA Inserted ==
  ASSUME NEW A, NEW s \in Seq(A), NEW x \in A, NEW k \in 0..Len(s)
  PROVE  /\ Put(s, x, k) \in Seq(A) /\ Len(Put(s, x, k)) = Len(s) + 1
         /\ Put(s, x, k)[k + 1] = x
         /\ \A i \in 1..k : Put(s, x, k)[i] = s[i]
         /\ \A i \in (k + 1)..Len(s) : Put(s, x, k)[i + 1] = s[i]
<1> DEFINE h == SubSeq(s, 1, k)
           m == <<x>>
           u == SubSeq(s, k + 1, Len(s))
           t == h \o m \o u
<1>1. h \in Seq(A) /\ Len(h) = k /\ \A i \in 1..k : h[i] = s[i]
  OBVIOUS
<1>2. u \in Seq(A) /\ Len(u) = Len(s) - k
  OBVIOUS
<1>3. \A i \in 1..(Len(s) - k) : u[i] = s[k + i]
  OBVIOUS
<1>4. k \in Nat /\ Len(s) \in Nat /\ k <= Len(s)
  OBVIOUS
<1>5. m \in Seq(A) /\ Len(m) = 1 /\ m[1] = x
  OBVIOUS
<1>6. h \in Seq(A) /\ m \in Seq(A) /\ u \in Seq(A)
  BY <1>1, <1>2, <1>5
<1> HIDE DEF h, m, u
<1>7. /\ t \in Seq(A) /\ Len(t) = Len(h) + Len(m) + Len(u)
      /\ \A i \in 1..Len(h) : t[i] = h[i]
      /\ \A i \in 1..Len(m) : t[Len(h) + i] = m[i]
      /\ \A i \in 1..Len(u) : t[Len(h) + Len(m) + i] = u[i]
  BY <1>6, Joined
<1>8. Len(h) = k /\ Len(m) = 1 /\ Len(u) = Len(s) - k
  BY <1>1, <1>2, <1>5
<1> HIDE DEF t
<1>9. \A i \in (k + 1)..Len(s) : t[i + 1] = s[i]
  <2> SUFFICES ASSUME NEW i \in (k + 1)..Len(s) PROVE t[i + 1] = s[i]
    OBVIOUS
  <2>1. i - k \in 1..(Len(s) - k) /\ k + 1 + (i - k) = i + 1 /\ k + (i - k) = i
    BY <1>4
  <2>2. t[k + 1 + (i - k)] = u[i - k]
    BY <1>7, <1>8, <2>1
  <2>3. u[i - k] = s[k + (i - k)]
    BY <1>3, <2>1
  <2>4. QED  BY <2>1, <2>2, <2>3
<1>10. t[k + 1] = x /\ \A i \in 1..k : t[i] = s[i]
  <2>1. 1 \in 1..Len(m)
    BY <1>8
  <2>2. QED  BY <1>1, <1>5, <1>7, <1>8, <2>1
<1>11. t \in Seq(A) /\ Len(t) = Len(s) + 1
  BY <1>4, <1>7, <1>8
<1>12. t = Put(s, x, k)
  BY DEF t, h, m, u, Put
<1>13. QED  BY <1>9, <1>10, <1>11, <1>12

\* The first of the listing goes into the sorted part after its first k elements.
LEMMA Moved ==
  ASSUME TypeOK, Arrange
  PROVE  \E k \in 0..Len(sorted) :
           /\ InsertAt(sorted, pending[1], k)
           /\ sorted' \in Seq(Listed) /\ Len(sorted') = Len(sorted) + 1
           /\ sorted'[k + 1] = pending[1]
           /\ \A i \in 1..k : sorted'[i] = sorted[i]
           /\ \A i \in (k + 1)..Len(sorted) : sorted'[i + 1] = sorted[i]
           /\ pending # <<>> /\ pending' \in Seq(Listed) /\ Len(pending') = Len(pending) - 1
           /\ \A i \in 1..Len(pending') : pending'[i] = pending[i + 1]
<1>1. pending \in Seq(Listed) /\ sorted \in Seq(Listed) /\ pending # <<>>
  BY DEF TypeOK, Arrange
<1>2. /\ pending[1] \in Listed /\ Head(pending) = pending[1]
      /\ pending' \in Seq(Listed) /\ Len(pending') = Len(pending) - 1
      /\ \A i \in 1..Len(pending') : pending'[i] = pending[i + 1]
  <2>1. pending' = Tail(pending)
    BY DEF Arrange
  <2>2. QED
    BY <1>1, <2>1
<1>3. PICK k \in 0..Len(sorted) :
        InsertAt(sorted, Head(pending), k) /\ sorted' = Put(sorted, Head(pending), k)
  BY DEF Arrange, Put
<1> DEFINE x == pending[1]
<1>4. sorted' = Put(sorted, x, k) /\ InsertAt(sorted, x, k)
  BY <1>2, <1>3
<1>5. x \in Listed /\ sorted \in Seq(Listed)
  BY <1>1, <1>2
<1> HIDE DEF x
<1>6. Put(sorted, x, k) \in Seq(Listed)
  BY <1>5, Inserted
<1>7. Len(Put(sorted, x, k)) = Len(sorted) + 1 /\ Put(sorted, x, k)[k + 1] = x
  BY <1>5, Inserted
<1>8. \A i \in 1..k : Put(sorted, x, k)[i] = sorted[i]
  BY <1>5, Inserted
<1>9. \A i \in (k + 1)..Len(sorted) : Put(sorted, x, k)[i + 1] = sorted[i]
  BY <1>5, Inserted
<1>10. QED
  BY <1>1, <1>2, <1>4, <1>6, <1>7, <1>8, <1>9 DEF x

LEMMA ArrangeInv ==
  ASSUME IInv, Arrange PROVE IInv'
<1>1. TypeOK /\ Phases /\ Listings /\ Scripted /\ Covered /\ LiveReplayOnlyBringsUp
  BY DEF IInv
<1>2. /\ pending # <<>> /\ pending' = Tail(pending) /\ fetched' = fetched /\ seen' = seen
      /\ typeOf' = typeOf /\ sys' = sys /\ fibs' = fibs /\ entries' = entries
      /\ typed' = typed /\ phase' = phase /\ section' = section
      /\ script' = script /\ next' = next /\ orig' = orig
  BY DEF Arrange, system
<1>3. phase = "live" /\ fetched
  BY <1>1, <1>2, WritingLive
<1> DEFINE x == pending[1]
<1>4. PICK k \in 0..Len(sorted) :
        /\ sorted' \in Seq(Listed) /\ Len(sorted') = Len(sorted) + 1 /\ sorted'[k + 1] = x
        /\ \A i \in 1..k : sorted'[i] = sorted[i]
        /\ \A i \in (k + 1)..Len(sorted) : sorted'[i + 1] = sorted[i]
        /\ pending' \in Seq(Listed) /\ Len(pending') = Len(pending) - 1
        /\ \A i \in 1..Len(pending') : pending'[i] = pending[i + 1]
  BY <1>1, Moved
<1>5. pending \in Seq(Listed) /\ sorted \in Seq(Listed)
  BY <1>1 DEF TypeOK
<1>6. /\ x \in Listed /\ x = pending[1] /\ 1 \in DOMAIN pending
      /\ pending' \in Seq(Listed) /\ Len(pending') = Len(pending) - 1
      /\ \A i \in 1..Len(pending') : pending'[i] = pending[i + 1]
  BY <1>2, <1>4, <1>5
<1> HIDE DEF x
<1>7. /\ sorted' \in Seq(Listed) /\ Len(sorted') = Len(sorted) + 1 /\ sorted'[k + 1] = x
      /\ \A i \in 1..k : sorted'[i] = sorted[i]
      /\ \A i \in (k + 1)..Len(sorted) : sorted'[i + 1] = sorted[i]
  BY <1>4
<1>8. /\ DOMAIN sorted' = 1..(Len(sorted) + 1) /\ DOMAIN sorted = 1..Len(sorted)
      /\ DOMAIN pending' = 1..(Len(pending) - 1) /\ DOMAIN pending = 1..Len(pending)
      /\ Len(sorted) \in Nat /\ Len(pending) \in Nat /\ k \in Nat /\ k <= Len(sorted)
  BY <1>5, <1>6, <1>7
\* Every element is an old one or x, and every old one is still there.
<1>9. \A i \in DOMAIN sorted' : sorted'[i] = x \/ \E j \in DOMAIN sorted : sorted'[i] = sorted[j]
  <2> SUFFICES ASSUME NEW i \in DOMAIN sorted'
               PROVE  sorted'[i] = x \/ \E j \in DOMAIN sorted : sorted'[i] = sorted[j]
    OBVIOUS
  <2>1. i \in 1..k \/ i = k + 1 \/ i - 1 \in (k + 1)..Len(sorted)
    BY <1>8
  <2>2. (i - 1) + 1 = i
    BY <1>8
  <2>3. CASE i \in 1..k
    <3>1. i \in DOMAIN sorted
      BY <1>8, <2>3
    <3>2. QED  BY <1>7, <2>3, <3>1
  <2>4. CASE i - 1 \in (k + 1)..Len(sorted)
    <3>1. i - 1 \in DOMAIN sorted
      BY <1>8, <2>4
    <3>2. QED  BY <1>7, <2>2, <2>4, <3>1
  <2>5. QED  BY <1>7, <2>1, <2>3, <2>4
<1>10. \A j \in DOMAIN sorted : \E i \in DOMAIN sorted' : sorted'[i] = sorted[j]
  <2> SUFFICES ASSUME NEW j \in DOMAIN sorted
               PROVE  \E i \in DOMAIN sorted' : sorted'[i] = sorted[j]
    OBVIOUS
  <2>1. j \in 1..k \/ j \in (k + 1)..Len(sorted)
    BY <1>8
  <2>2. j \in DOMAIN sorted' /\ j + 1 \in DOMAIN sorted'
    BY <1>8
  <2>3. QED  BY <1>7, <2>1, <2>2
<1>11. \A j \in DOMAIN pending : pending[j] = x \/ \E i \in DOMAIN pending' : pending'[i] = pending[j]
  <2> SUFFICES ASSUME NEW j \in DOMAIN pending, j # 1
               PROVE  \E i \in DOMAIN pending' : pending'[i] = pending[j]
    BY <1>6
  <2>1. j - 1 \in DOMAIN pending' /\ (j - 1) + 1 = j /\ j - 1 \in 1..Len(pending')
    BY <1>6, <1>8
  <2>2. QED  BY <1>6, <2>1
<1>12. TypeOK'
  BY <1>1, <1>2, <1>6, <1>7 DEF TypeOK, Present
<1>13. Phases'
  BY <1>1, <1>2, <1>3 DEF Phases, Writing, Complete
<1>14. Listings'
  <2>1. \A y : Good(y)' <=> Good(y)
    BY <1>2 DEF Good
  <2>2. Good(x)
    BY <1>1, <1>6 DEF Listings
  <2>3. \A i \in DOMAIN sorted' : Good(sorted'[i])
    BY <1>1, <1>9, <2>2 DEF Listings
  <2>4. \A i \in DOMAIN pending' : Good(pending'[i])
    <3>1. \A i \in DOMAIN pending' : i + 1 \in DOMAIN pending /\ i \in 1..Len(pending')
      BY <1>6, <1>8
    <3>2. QED  BY <1>1, <1>6, <3>1 DEF Listings
  <2>5. QED  BY <2>1, <2>3, <2>4 DEF Listings
<1>15. Scripted'
  BY <1>1, <1>2, Fixed DEF Scripted
<1>16. Covered'
  <2> SUFFICES ASSUME NEW n \in Name, orig.sys[n] # Absent
               PROVE  Due(n)' \/ ListedIn(pending', n) \/ ListedIn(sorted', n) \/ Printed(n)'
    BY <1>2 DEF Covered
  <2>1. Due(n) => Due(n)'
    BY <1>2 DEF Due
  <2>2. Printed(n) => Printed(n)'
    BY <1>2 DEF Printed
  <2>3. ListedIn(sorted, n) => ListedIn(sorted', n)
    BY <1>10 DEF ListedIn
  <2>4. ListedIn(pending, n) => ListedIn(pending', n) \/ ListedIn(sorted', n)
    <3>1. k + 1 \in DOMAIN sorted'
      BY <1>8
    <3>2. QED  BY <1>7, <1>11, <3>1 DEF ListedIn
  <2>5. QED  BY <1>1, <1>3, <2>1, <2>2, <2>3, <2>4 DEF Covered
<1>17. LiveReplayOnlyBringsUp'
  BY <1>1, <1>2 DEF LiveReplayOnlyBringsUp
<1>18. Restoring'
  BY <1>2, <1>3 DEF Restoring
<1>19. QED  BY <1>12, <1>13, <1>14, <1>15, <1>16, <1>17, <1>18 DEF IInv
LEMMA EmitInv ==
  ASSUME IInv, Emit PROVE IInv'
<1>1. TypeOK /\ Phases /\ Listings /\ Scripted /\ Covered /\ LiveReplayOnlyBringsUp
  BY DEF IInv
<1> DEFINE x == Head(sorted)
           ls == Lines(x)
<1>2. /\ pending = <<>> /\ sorted # <<>> /\ script' = script \o ls /\ sorted' = Tail(sorted)
      /\ pending' = pending /\ fetched' = fetched /\ seen' = seen
      /\ typeOf' = typeOf /\ sys' = sys /\ fibs' = fibs /\ entries' = entries
      /\ typed' = typed /\ phase' = phase /\ section' = section
      /\ next' = next /\ orig' = orig
  BY DEF Emit, system
<1>3. phase = "live" /\ fetched
  BY <1>1, <1>2, WritingLive
<1>4. sorted \in Seq(Listed) /\ script \in Seq(Commands) /\ next \in 1..(Len(script) + 1)
  BY <1>1 DEF TypeOK
<1> HIDE DEF ls
<1>5. /\ x \in Listed /\ x = sorted[1] /\ 1 \in DOMAIN sorted
      /\ sorted' \in Seq(Listed) /\ Len(sorted') = Len(sorted) - 1
      /\ \A i \in 1..Len(sorted') : sorted'[i] = sorted[i + 1]
  BY <1>2, <1>4
<1> HIDE DEF x
<1>6. Good(x)
  BY <1>1, <1>5 DEF Listings
<1>7. /\ ls \in Seq(Commands) /\ ls # <<>>
      /\ \A i \in DOMAIN ls :
           /\ Reads(ls[i])
           /\ x.of \in Types => ls[i].of = "interface" /\ ls[i].n = x.n
  BY <1>1, <1>5, <1>6, LinesRead DEF ls
<1>8. /\ script' \in Seq(Commands) /\ Len(script') = Len(script) + Len(ls)
      /\ \A i \in 1..Len(script) : script'[i] = script[i]
      /\ \A i \in 1..Len(ls) : script'[Len(script) + i] = ls[i]
  <2>1. ls \in Seq(Commands)
    BY <1>7
  <2>2. QED  BY <1>2, <1>4, <2>1
<1>9. /\ DOMAIN script' = 1..(Len(script) + Len(ls)) /\ DOMAIN script = 1..Len(script)
      /\ DOMAIN ls = 1..Len(ls) /\ Len(script) \in Nat /\ Len(ls) \in Nat /\ Len(ls) >= 1
  <2>1. ls \in Seq(Commands) /\ ls # <<>>
    BY <1>7
  <2>2. script' \in Seq(Commands) /\ Len(script') = Len(script) + Len(ls)
    BY <1>8
  <2>3. Len(ls) \in Nat /\ Len(ls) >= 1 /\ DOMAIN ls = 1..Len(ls)
    BY <2>1
  <2>4. QED  BY <1>4, <2>2, <2>3
<1>10. TypeOK'
  <2>1. next' \in 1..(Len(script') + 1)
    <3>1. Len(script') = Len(script) + Len(ls)
      BY <1>8
    <3>2. QED  BY <1>2, <1>4, <1>9, <3>1
  <2>2. sorted' \in Seq(Listed) /\ script' \in Seq(Commands)
    BY <1>5, <1>8
  <2>3. QED  BY <1>1, <1>2, <2>1, <2>2 DEF TypeOK, Present
<1>11. Phases'
  BY <1>1, <1>2, <1>3 DEF Phases, Writing, Complete
<1>12. Listings'
  <2>1. \A y : Good(y)' <=> Good(y)
    BY <1>2 DEF Good
  <2>2. \A i \in DOMAIN sorted' : i + 1 \in DOMAIN sorted /\ i \in 1..Len(sorted')
    <3>1. sorted' \in Seq(Listed) /\ Len(sorted') = Len(sorted) - 1
      BY <1>5
    <3>2. QED  BY <1>4, <3>1
  <2>3. \A i \in DOMAIN sorted' : Good(sorted'[i])
    BY <1>1, <1>5, <2>2 DEF Listings
  <2>4. QED  BY <1>1, <1>2, <2>1, <2>3 DEF Listings
<1>13. Scripted'
  <2>1. \A i \in DOMAIN script' : Reads(script'[i])
    <3> SUFFICES ASSUME NEW i \in DOMAIN script' PROVE Reads(script'[i])
      OBVIOUS
    <3>1. i \in 1..Len(script) \/ i - Len(script) \in 1..Len(ls)
      BY <1>9
    <3>2. Len(script) + (i - Len(script)) = i
      BY <1>9
    <3>3. CASE i \in 1..Len(script)
      BY <1>1, <1>8, <1>9, <3>3 DEF Scripted
    <3>4. CASE i - Len(script) \in 1..Len(ls)
      BY <1>7, <1>8, <1>9, <3>2, <3>4
    <3>5. QED  BY <3>1, <3>3, <3>4
  <2>2. QED  BY <1>2, <2>1, Fixed DEF Scripted
<1>14. Covered'
  <2> SUFFICES ASSUME NEW n \in Name, orig.sys[n] # Absent
               PROVE  Due(n)' \/ ListedIn(sorted', n) \/ Printed(n)'
    BY <1>2 DEF Covered
  <2>1. Due(n) => Due(n)'
    BY <1>2 DEF Due
  <2>2. Printed(n) => Printed(n)'
    <3>1. \A i \in DOMAIN script : i \in DOMAIN script' /\ script'[i] = script[i]
      BY <1>8, <1>9
    <3>2. QED  BY <3>1 DEF Printed
  <2>3. ListedIn(sorted, n) => ListedIn(sorted', n) \/ Printed(n)'
    <3> SUFFICES ASSUME NEW j \in DOMAIN sorted, sorted[j].of \in Types, sorted[j].n = n
                 PROVE  ListedIn(sorted', n) \/ Printed(n)'
      BY DEF ListedIn
    <3>1. CASE j = 1
      <4>1. 1 \in DOMAIN ls /\ Len(script) + 1 \in DOMAIN script' /\ 1 \in 1..Len(ls)
        BY <1>9
      <4>2. script'[Len(script) + 1] = ls[1] /\ x.of \in Types /\ x.n = n
        BY <1>5, <1>8, <3>1, <4>1
      <4>3. QED  BY <1>7, <4>1, <4>2 DEF Printed
    <3>2. CASE j # 1
      <4>1. Len(sorted') = Len(sorted) - 1 /\ sorted' \in Seq(Listed)
        BY <1>5
      <4>2. j - 1 \in DOMAIN sorted' /\ (j - 1) + 1 = j /\ j - 1 \in 1..Len(sorted')
        BY <1>4, <3>2, <4>1
      <4>3. sorted'[j - 1] = sorted[j]
        BY <1>5, <4>2
      <4>4. QED  BY <4>2, <4>3 DEF ListedIn
    <3>3. QED  BY <3>1, <3>2
  <2>4. ~ListedIn(pending, n)
    BY <1>2 DEF ListedIn
  <2>5. QED  BY <1>1, <1>3, <2>1, <2>2, <2>3, <2>4 DEF Covered
<1>15. LiveReplayOnlyBringsUp'
  BY <1>1, <1>2 DEF LiveReplayOnlyBringsUp
<1>16. Restoring'
  BY <1>2, <1>3 DEF Restoring
<1>17. QED  BY <1>10, <1>11, <1>12, <1>13, <1>14, <1>15, <1>16 DEF IInv

LEMMA NextSectionInv ==
  ASSUME IInv, NextSection PROVE IInv'
<1>1. TypeOK /\ Phases /\ Listings /\ Scripted /\ Covered /\ LiveReplayOnlyBringsUp
  BY DEF IInv
<1>2. /\ Writing /\ fetched /\ pending = <<>> /\ sorted = <<>>
      /\ section' = section + 1 /\ fetched' = FALSE
      /\ script' = script /\ sorted' = sorted /\ pending' = pending /\ seen' = seen
      /\ typeOf' = typeOf /\ sys' = sys /\ fibs' = fibs /\ entries' = entries
      /\ typed' = typed /\ phase' = phase /\ next' = next /\ orig' = orig
  BY DEF NextSection, system
<1>3. phase = "live" /\ section \in 1..22
  BY <1>1, <1>2, WritingLive, SectionsDomain DEF Writing
<1>4. TypeOK'
  <2>1. section' \in 0..(Len(Sections) + 1)
    BY <1>2, <1>3, SectionsDomain
  <2>2. QED  BY <1>1, <1>2, <2>1 DEF TypeOK, Present
<1>5. Phases'
  BY <1>2, <1>3 DEF Phases
<1>6. Listings' /\ Scripted'
  BY <1>1, <1>2, Fixed DEF Listings, Scripted
<1>7. Covered'
  <2> SUFFICES ASSUME NEW n \in Name, orig.sys[n] # Absent PROVE Due(n)' \/ Printed(n)'
    BY <1>2 DEF Covered
  <2>1. Due(n) => Due(n)'
    <3> SUFFICES ASSUME NEW s \in DOMAIN Sections, Sections[s] = typeOf[n], section < s
                 PROVE  Due(n)'
      BY <1>2 DEF Due
    <3>1. s \in 1..22
      BY SectionsDomain
    <3>2. section' < s \/ section' = s
      <4>1. section' = section + 1 /\ section \in 1..22
        BY <1>2, <1>3
      <4>2. QED  BY <3>1, <4>1
    <3>3. QED  BY <1>2, <3>2 DEF Due
  <2>2. Printed(n) => Printed(n)'
    BY <1>2 DEF Printed
  <2>3. ~ListedIn(pending, n) /\ ~ListedIn(sorted, n)
    BY <1>2 DEF ListedIn
  <2>4. QED  BY <1>1, <1>3, <2>1, <2>2, <2>3 DEF Covered
<1>8. LiveReplayOnlyBringsUp'
  BY <1>1, <1>2 DEF LiveReplayOnlyBringsUp
<1>9. Restoring'
  BY <1>2, <1>3 DEF Restoring
<1>10. QED  BY <1>4, <1>5, <1>6, <1>7, <1>8, <1>9 DEF IInv

\* Nothing of the generator changes, so what was covered is covered.
LEMMA CoveredKept ==
  ASSUME Covered, phase # "typing", typeOf' = typeOf, orig' = orig, UNCHANGED generator
  PROVE  Covered'
<1>1. /\ section' = section /\ fetched' = fetched /\ pending' = pending
      /\ sorted' = sorted /\ script' = script
  BY DEF generator
<1>2. \A n : (Due(n)' <=> Due(n)) /\ (Printed(n)' <=> Printed(n))
  BY <1>1 DEF Due, Printed
<1>3. QED  BY <1>1, <1>2 DEF Covered

LEMMA ListingsKept ==
  ASSUME Listings, typeOf' = typeOf, orig' = orig, UNCHANGED generator
  PROVE  Listings'
<1>1. pending' = pending /\ sorted' = sorted /\ seen' = seen
  BY DEF generator
<1>2. \A x : Good(x)' <=> Good(x)
  BY <1>1 DEF Good
<1>3. QED  BY <1>1, <1>2 DEF Listings
LEMMA RunInv ==
  ASSUME IInv, Run PROVE IInv'
<1>1. TypeOK /\ Phases /\ Listings /\ Scripted /\ Covered /\ LiveReplayOnlyBringsUp
      /\ Restoring
  BY DEF IInv
<1> DEFINE c == script[next]
<1>2. /\ next <= Len(script) /\ Execute(c) /\ next' = next + 1
      /\ typeOf' = typeOf /\ typed' = typed /\ phase' = phase /\ UNCHANGED generator
      /\ orig' = orig
  BY DEF Run
<1>3. /\ section' = section /\ fetched' = fetched /\ seen' = seen /\ pending' = pending
      /\ sorted' = sorted /\ script' = script
  BY <1>2 DEF generator
<1>4. script \in Seq(Commands) /\ next \in 1..(Len(script) + 1)
  BY <1>1 DEF TypeOK
<1>5. next \in DOMAIN script /\ c \in Commands /\ next' \in 1..(Len(script) + 1)
      /\ next \in Nat
  BY <1>2, <1>4
<1> HIDE DEF c
<1>6. Reads(c)
  BY <1>1, <1>5 DEF Scripted, c
<1>7. phase # "typing"
  <2>1. script # <<>>
    BY <1>5
  <2>2. QED  BY <1>1, <2>1 DEF Phases
<1>8. c.of = "interface" => Fits(c)
  BY <1>1, <1>5, <1>6, ReadsFit
<1>9. c.of = "interface" \/ c.of \in Targets
  BY <1>5 DEF Commands
<1>10. TypeOK'
  <2>1. /\ sys' \in [Name -> Interfaces \cup {Absent}]
        /\ \A n \in Name : sys'[n] # Absent => sys'[n].vrf < fibs'
        /\ fibs' = fibs /\ entries' \subseteq Entries
    BY <1>1, <1>2, <1>5, <1>8, SystemKept
  <2>2. QED  BY <1>1, <1>2, <1>3, <1>5, <2>1 DEF TypeOK, Present
<1>11. Phases'
  BY <1>1, <1>2, <1>3 DEF Phases, Writing, Complete
<1>12. Listings' /\ Covered'
  BY <1>1, <1>2, <1>7, ListingsKept, CoveredKept
<1>13. Scripted'
  BY <1>1, <1>2, <1>3, Fixed DEF Scripted
\* An interface's line gives its interface After(c), any other line changes nothing.
<1>14. /\ fibs' = fibs /\ entries' = entries
       /\ \A n \in Name : sys'[n] = IF c.of = "interface" /\ n = c.n THEN After(c) ELSE sys[n]
  <2>1. CASE c.of \in Targets
    <3>1. sys' = sys /\ fibs' = fibs /\ entries' = entries
      BY <1>2, <1>6, <2>1, EntryLinesDoNothing DEF system
    <3>2. QED  BY <2>1, <3>1, TypesTargets
  <2>2. CASE c.of = "interface"
    <3>1. SetInterface(c)
      BY <1>2, <2>2 DEF Execute, SetEntry, Targets
    <3>2. fibs' = fibs /\ entries' = entries
          /\ sys' = IF Refused(c) THEN sys ELSE [sys EXCEPT ![c.n] = Saved(c)]
      BY <3>1 DEF SetInterface
    <3>3. sys \in [Name -> Interfaces \cup {Absent}]
      BY <1>1 DEF TypeOK
    <3>4. QED  BY <2>2, <3>2, <3>3 DEF After
  <2>3. QED  BY <1>9, <2>1, <2>2
<1>15. LiveReplayOnlyBringsUp'
  <2> SUFFICES ASSUME phase = "live"
               PROVE  /\ entries' = orig.entries
                      /\ \A n \in Name : SameButUp(sys'[n], orig.sys[n])
    BY <1>2 DEF LiveReplayOnlyBringsUp
  <2>1. c.of = "interface" => SameButUp(After(c), orig.sys[c.n])
    BY <1>1, <1>6, LiveRun
  <2>2. \A n \in Name : SameButUp(sys[n], orig.sys[n])
    BY <1>1 DEF LiveReplayOnlyBringsUp
  <2>3. \A n \in Name : SameButUp(sys'[n], orig.sys[n])
    <3> SUFFICES ASSUME NEW n \in Name PROVE SameButUp(sys'[n], orig.sys[n])
      OBVIOUS
    <3>1. CASE c.of = "interface" /\ n = c.n
      <4>1. sys'[n] = After(c)
        BY <1>14, <3>1
      <4>2. QED  BY <2>1, <3>1, <4>1
    <3>2. CASE ~(c.of = "interface" /\ n = c.n)
      <4>1. sys'[n] = sys[n]
        BY <1>14, <3>2
      <4>2. QED  BY <2>2, <4>1
    <3>3. QED  BY <3>1, <3>2
  <2>4. entries' = orig.entries
    BY <1>1, <1>14 DEF LiveReplayOnlyBringsUp
  <2>5. QED  BY <2>3, <2>4
<1>16. Restoring'
  <2> SUFFICES ASSUME phase = "rebooted" PROVE Restoring'
    BY <1>2 DEF Restoring
  <2>1. c.of = "interface" => After(c) = Restored(c.n) /\ c.n \in Name
    BY <1>1, <1>6, RebootedRun
  <2>2. /\ fibs = BootFibs /\ entries = Learned
        /\ \A n \in Name : sys[n] \in {Boot(n), Restored(n)}
        /\ \A n \in Name : Ran(n) => sys[n] = Restored(n)
    BY <1>1 DEF Restoring
  <2>3. \A n \in Name : sys[n] = Restored(n) => sys'[n] = Restored(n)
    <3> SUFFICES ASSUME NEW n \in Name, sys[n] = Restored(n) PROVE sys'[n] = Restored(n)
      OBVIOUS
    <3>1. CASE c.of = "interface" /\ n = c.n
      BY <1>14, <2>1, <3>1
    <3>2. CASE ~(c.of = "interface" /\ n = c.n)
      BY <1>14, <3>2
    <3>3. QED  BY <3>1, <3>2
  <2>4. \A n \in Name : sys'[n] \in {Boot(n), Restored(n)}
    <3> SUFFICES ASSUME NEW n \in Name PROVE sys'[n] \in {Boot(n), Restored(n)}
      OBVIOUS
    <3>1. CASE c.of = "interface" /\ n = c.n
      BY <1>14, <2>1, <3>1
    <3>2. CASE ~(c.of = "interface" /\ n = c.n)
      BY <1>14, <2>2, <3>2
    <3>3. QED  BY <3>1, <3>2
  <2>5. \A n \in Name : Ran(n)' => sys'[n] = Restored(n)
    <3> SUFFICES ASSUME NEW n \in Name, NEW i \in DOMAIN script, i < next + 1,
                        script[i].of = "interface", script[i].n = n
                 PROVE  sys'[n] = Restored(n)
      BY <1>2, <1>3 DEF Ran
    <3>1. i < next \/ i = next
      <4>1. i \in Nat
        BY <1>4
      <4>2. QED  BY <1>5, <4>1
    <3>2. CASE i < next
      <4>1. Ran(n)
        BY <3>2 DEF Ran
      <4>2. QED  BY <2>2, <2>3, <4>1
    <3>3. CASE i = next
      <4>1. c.of = "interface" /\ c.n = n
        BY <3>3 DEF c
      <4>2. QED  BY <1>14, <2>1, <4>1
    <3>4. QED  BY <3>1, <3>2, <3>3
  <2>6. \A n \in Name : Restored(n)' = Restored(n) /\ Boot(n)' = Boot(n)
    BY <1>2, Fixed
  <2>7. fibs' = BootFibs /\ entries' = Learned
    BY <1>14, <2>2
  <2>8. QED  BY <2>4, <2>5, <2>6, <2>7 DEF Restoring
<1>17. QED  BY <1>10, <1>11, <1>12, <1>13, <1>15, <1>16 DEF IInv
LEMMA AgainInv ==
  ASSUME IInv, Again PROVE IInv'
<1>1. TypeOK /\ Phases /\ Listings /\ Scripted /\ Covered /\ LiveReplayOnlyBringsUp
      /\ Restoring
  BY DEF IInv
<1>2. /\ next > Len(script) /\ next # 1 /\ next' = 1 /\ UNCHANGED generator
      /\ typeOf' = typeOf /\ sys' = sys /\ fibs' = fibs /\ entries' = entries
      /\ typed' = typed /\ phase' = phase /\ orig' = orig
  BY DEF Again, system
<1>3. /\ section' = section /\ fetched' = fetched /\ seen' = seen /\ pending' = pending
      /\ sorted' = sorted /\ script' = script
  BY <1>2 DEF generator
<1>4. script \in Seq(Commands) /\ next \in 1..(Len(script) + 1)
  BY <1>1 DEF TypeOK
<1>5. phase # "typing" /\ next' \in 1..(Len(script) + 1)
  <2>1. script # <<>>
    BY <1>2, <1>4
  <2>2. phase # "typing"
    BY <1>1, <2>1 DEF Phases
  <2>3. QED  BY <1>2, <1>4, <2>2
<1>6. TypeOK'
  BY <1>1, <1>2, <1>3, <1>5 DEF TypeOK, Present
<1>7. Phases'
  BY <1>1, <1>2, <1>3 DEF Phases, Writing, Complete
<1>8. Listings' /\ Covered'
  BY <1>1, <1>2, <1>5, ListingsKept, CoveredKept
<1>9. Scripted'
  BY <1>1, <1>2, <1>3, Fixed DEF Scripted
<1>10. LiveReplayOnlyBringsUp'
  BY <1>1, <1>2 DEF LiveReplayOnlyBringsUp
<1>11. Restoring'
  <2>1. \A n \in Name : Restored(n)' = Restored(n) /\ Boot(n)' = Boot(n)
    BY <1>2, Fixed
  <2>2. \A n \in Name : ~Ran(n)'
    <3>1. \A i \in DOMAIN script : ~(i < 1)
      BY <1>4
    <3>2. QED  BY <1>2, <1>3, <3>1 DEF Ran
  <2>3. QED  BY <1>1, <1>2, <2>1, <2>2 DEF Restoring
<1>12. QED  BY <1>6, <1>7, <1>8, <1>9, <1>10, <1>11 DEF IInv

LEMMA RebootInv ==
  ASSUME IInv, Reboot PROVE IInv'
<1>1. TypeOK /\ Phases /\ Listings /\ Scripted /\ Covered
  BY DEF IInv
<1>2. /\ Complete /\ phase' = "rebooted" /\ sys' = [n \in Name |-> Boot(n)]
      /\ fibs' = BootFibs /\ entries' = Learned /\ next' = 1
      /\ typeOf' = typeOf /\ typed' = typed /\ UNCHANGED generator /\ orig' = orig
  BY DEF Reboot
<1>3. /\ section' = section /\ fetched' = fetched /\ seen' = seen /\ pending' = pending
      /\ sorted' = sorted /\ script' = script
  BY <1>2 DEF generator
<1>4. script \in Seq(Commands) /\ next' \in 1..(Len(script) + 1)
  BY <1>1, <1>2 DEF TypeOK
<1>5. phase # "typing"
  <2>1. section # 0
    BY <1>2, SectionsDomain DEF Complete
  <2>2. QED  BY <1>1, <2>1 DEF Phases
<1>6. TypeOK'
  <2>1. BootFibs \in BootFibs..MaxFibs /\ BootFibs > 0 /\ Learned \subseteq Entries
    BY Shape
  <2>2. /\ sys' \in [Name -> Interfaces \cup {Absent}]
        /\ \A n \in Name : sys'[n] # Absent => sys'[n].vrf < BootFibs
    BY <1>2, <2>1, FreshType DEF Boot
  <2>3. QED  BY <1>1, <1>2, <1>3, <1>4, <2>1, <2>2 DEF TypeOK, Present
<1>7. Phases'
  BY <1>1, <1>2, <1>3 DEF Phases, Writing, Complete
<1>8. Listings' /\ Covered'
  BY <1>1, <1>2, <1>5, ListingsKept, CoveredKept DEF Covered
<1>9. Scripted'
  BY <1>1, <1>2, <1>3, Fixed DEF Scripted
<1>10. LiveReplayOnlyBringsUp'
  BY <1>2 DEF LiveReplayOnlyBringsUp
<1>11. Restoring'
  <2>1. \A n \in Name : Boot(n)' = Boot(n)
    BY <1>2, Fixed
  <2>2. \A n \in Name : ~Ran(n)'
    <3>1. \A i \in DOMAIN script : ~(i < 1)
      BY <1>4
    <3>2. QED  BY <1>2, <1>3, <3>1 DEF Ran
  <2>3. \A n \in Name : sys'[n] = Boot(n)
    BY <1>2
  <2>4. QED  BY <1>2, <2>1, <2>2, <2>3 DEF Restoring
<1>12. QED  BY <1>6, <1>7, <1>8, <1>9, <1>10, <1>11 DEF IInv

LEMMA StutterInv ==
  ASSUME IInv, UNCHANGED vars PROVE IInv'
<1>1. TypeOK /\ Phases /\ Listings /\ Scripted /\ Covered /\ LiveReplayOnlyBringsUp
      /\ Restoring
  BY DEF IInv
<1>2. /\ typeOf' = typeOf /\ sys' = sys /\ fibs' = fibs /\ entries' = entries
      /\ typed' = typed /\ phase' = phase /\ next' = next /\ orig' = orig
      /\ UNCHANGED generator
  BY DEF vars, system
<1>3. /\ section' = section /\ fetched' = fetched /\ seen' = seen /\ pending' = pending
      /\ sorted' = sorted /\ script' = script
  BY <1>2 DEF generator
<1>4. TypeOK' /\ Phases' /\ LiveReplayOnlyBringsUp'
  BY <1>1, <1>2, <1>3 DEF TypeOK, Present, Phases, Writing, Complete, LiveReplayOnlyBringsUp
<1>5. Listings'
  BY <1>1, <1>2, ListingsKept
<1>6. Scripted'
  BY <1>1, <1>2, <1>3, Fixed DEF Scripted
<1>7. Covered'
  <2>1. CASE phase = "typing"
    BY <1>2, <2>1 DEF Covered
  <2>2. CASE phase # "typing"
    BY <1>1, <1>2, <2>2, CoveredKept
  <2>3. QED  BY <2>1, <2>2
<1>8. Restoring'
  <2>1. \A n \in Name : Restored(n)' = Restored(n) /\ Boot(n)' = Boot(n)
    BY <1>2, Fixed
  <2>2. \A n \in Name : Ran(n)' => Ran(n)
    BY <1>2, <1>3 DEF Ran
  <2>3. QED  BY <1>1, <1>2, <2>1, <2>2 DEF Restoring
<1>9. QED  BY <1>4, <1>5, <1>6, <1>7, <1>8 DEF IInv

-----------------------------------------------------------------------------
(* Theorems                                                                 *)

THEOREM Invariance == Spec => []IInv
<1>1. Init => IInv
  BY InitInv
<1>2. IInv /\ [Next]_vars => IInv'
  <2> SUFFICES ASSUME IInv, [Next]_vars PROVE IInv'
    OBVIOUS
  <2>1. ASSUME NEW c \in Typed, Type(c) PROVE IInv'
    BY <2>1, TypeInv
  <2>2. CASE Generate
    BY <2>2, GenerateInv
  <2>3. CASE Fetch
    BY <2>3, FetchInv
  <2>4. CASE Arrange
    BY <2>4, ArrangeInv
  <2>5. CASE Emit
    BY <2>5, EmitInv
  <2>6. CASE NextSection
    BY <2>6, NextSectionInv
  <2>7. CASE Run
    BY <2>7, RunInv
  <2>8. CASE Again
    BY <2>8, AgainInv
  <2>9. CASE Reboot
    BY <2>9, RebootInv
  <2>10. CASE UNCHANGED vars
    BY <2>10, StutterInv
  <2>11. QED
    BY <2>1, <2>2, <2>3, <2>4, <2>5, <2>6, <2>7, <2>8, <2>9, <2>10 DEF Next
<1>3. QED  BY <1>1, <1>2, PTL DEF Spec

\* Whatever was typed and however the sections list, every value stays what it is
\* declared to be, and no interface is in a FIB the kernel does not have.
THEOREM Typing == Spec => []TypeOK
<1>1. IInv => TypeOK
  BY DEF IInv
<1>2. QED  BY <1>1, Invariance, PTL

\* `net -g | net`, for every system of any number of interfaces, every order of
\* the listings and every interleaving of printing and running: nothing changes
\* but that interfaces come up.
THEOREM LiveReplay == Spec => []LiveReplayOnlyBringsUp
<1>1. IInv => LiveReplayOnlyBringsUp
  BY DEF IInv
<1>2. QED  BY <1>1, Invariance, PTL

\* After any number of restarts, also in the middle of it, a full run of the file
\* leaves exactly what Restored says of every interface that was there.
THEOREM ReplayAfterRestart == Spec => []RestoredExactly
<1>1. IInv => RestoredExactly
  <2> SUFFICES ASSUME IInv, phase = "rebooted"
               PROVE  /\ entries = Learned
                      /\ \A n \in Name : sys[n] \in {Boot(n), Restored(n)}
                      /\ next > Len(script) => \A n \in Name : sys[n] = Restored(n)
    BY DEF RestoredExactly
  <2>1. TypeOK /\ Phases /\ Covered /\ Restoring
    BY DEF IInv
  <2>2. /\ entries = Learned /\ \A n \in Name : sys[n] \in {Boot(n), Restored(n)}
        /\ \A n \in Name : Ran(n) => sys[n] = Restored(n)
    BY <2>1 DEF Restoring
  <2>3. ASSUME next > Len(script), NEW n \in Name PROVE sys[n] = Restored(n)
    <3>1. CASE orig.sys[n] = Absent
      <4>1. Restored(n) = Boot(n)
        BY <3>1 DEF Restored
      <4>2. QED  BY <2>2, <4>1
    <3>2. CASE orig.sys[n] # Absent
      <4>1. Complete /\ section \in Nat
        BY <2>1 DEF Phases, TypeOK
      <4>2. pending = <<>> /\ sorted = <<>>
        <5>1. ~Writing
          BY <4>1, SectionsDomain DEF Complete, Writing
        <5>2. QED  BY <2>1, <5>1 DEF Phases
      <4>3. ~Due(n)
        BY <4>1, SectionsDomain DEF Due, Complete
      <4>4. ~ListedIn(pending, n) /\ ~ListedIn(sorted, n)
        BY <4>2 DEF ListedIn
      <4>5. Printed(n)
        BY <2>1, <3>2, <4>3, <4>4 DEF Covered
      <4>6. \A i \in DOMAIN script : i < next
        <5>1. script \in Seq(Commands) /\ next \in Nat
          BY <2>1 DEF TypeOK
        <5>2. QED  BY <2>3, <5>1
      <4>7. Ran(n)
        BY <4>5, <4>6 DEF Printed, Ran
      <4>8. QED  BY <2>2, <4>7
    <3>3. QED  BY <3>1, <3>2
  <2>4. QED  BY <2>2, <2>3
<1>2. QED  BY <1>1, Invariance, PTL

-----------------------------------------------------------------------------
(* The script is complete, and parents come first                          *)

\* What `net -g` has to print: the interfaces and the entries of FIB 0 worth it
\* that were there when it began.
Item(n) == [of |-> typeOf[n], n |-> n, fib |-> 0, shown |-> TRUE]
Worth == {Item(n) : n \in {m \in Name : orig.sys[m] # Absent}}
           \cup {e \in orig.entries : e.shown /\ e.fib = 0}

\* The lines about x; it waits while its section has not listed it, or has not
\* printed it.
SaidAs(x) == IF x.of \in Types THEN "interface" ELSE x.of
About(x) == {i \in DOMAIN script : script[i].of = SaidAs(x) /\ script[i].n = x.n}

InQueue(x) ==
  \/ \E i \in DOMAIN pending : pending[i] = x
  \/ \E i \in DOMAIN sorted : sorted[i] = x
DueSection(t) ==
  \E s \in DOMAIN Sections :
    Sections[s] = t /\ (section < s \/ (section = s /\ ~fetched))
Waits(x) == InQueue(x) \/ DueSection(x.of)

\* A section lists nothing twice, and nothing that was not there; its listing
\* shows the system as it was.
Distinct(q) == \A i, j \in DOMAIN q : q[i] = q[j] => i = j
Belongs(x) == x.of = Sections[section] /\ (x.of # "vrf" => x \in Worth)
Queued ==
  /\ \A i \in DOMAIN pending : Belongs(pending[i])
  /\ \A i \in DOMAIN sorted : Belongs(sorted[i])
  /\ Distinct(pending) /\ Distinct(sorted)
  /\ \A i \in DOMAIN pending, j \in DOMAIN sorted : pending[i] # sorted[j]
  /\ fetched => \A n \in Name : SameButUp(seen[n], orig.sys[n])

\* Nothing is forgotten, nothing printed twice.
Once == \A x \in Worth : Waits(x) <=> About(x) = {}

\* The lines about n follow each other, the i-th with its i-th address.
LinesOf(o) == IF o.addrs = <<>> THEN 1 ELSE Len(o.addrs)
Whole(x, o) ==
  \E b \in 0..Len(script) :
    /\ About(x) = (b + 1)..(b + LinesOf(o))
    /\ \A i \in 1..LinesOf(o) : Shows(b + i) = {o.addrs[j] : j \in DOMAIN o.addrs \cap {i}}
Wholes ==
  \A n \in Name :
    orig.sys[n] # Absent /\ About(Item(n)) # {} => Whole(Item(n), orig.sys[n])

\* The other lines are about entries that were there.
Genuine ==
  \A i \in DOMAIN script : script[i].of \in Targets \ {"vrf"} =>
    [of |-> script[i].of, n |-> script[i].n, fib |-> 0, shown |-> TRUE] \in orig.entries

\* No VRF is an entry: CreateVrf is empty.
NoVrf == \A e \in entries \cup orig.entries : e.shown => e.of # "vrf"

\* What the sort achieves: VLANs in VLANs after all others.
Tiers ==
  Writing /\ Sections[section] = "vlan" =>
    \A i, j \in DOMAIN sorted :
      i < j /\ ParentIsVlan(sorted[i].n) => ParentIsVlan(sorted[j].n)

\* A VLAN is printed after its parents.
Ordered ==
  Shallow =>
    \A n \in Name : IsVlan(n) =>
      \A p \in VlanParents(n) :
        /\ LinesAbout(n) # {} => LinesAbout(p) # {}
        /\ \A i \in LinesAbout(n), j \in LinesAbout(p) : j < i

ScriptInv == Queued /\ Once /\ Wholes /\ Genuine /\ NoVrf /\ Tiers /\ Ordered

LEMMA SectionsDiffer == \A s, t \in DOMAIN Sections : Sections[s] = Sections[t] => s = t
BY DEF Sections

\* What has to be printed is known by its kind and its name.
LEMMA WorthShape ==
  ASSUME TypeOK, NEW x \in Worth
  PROVE  /\ x.of \in Types \cup Targets
         /\ x = [of |-> x.of, n |-> x.n, fib |-> 0, shown |-> TRUE]
         /\ x.of \in Types => x.n \in Name /\ x = Item(x.n) /\ orig.sys[x.n] # Absent
         /\ x.of \in Targets => x \in orig.entries
<1>1. CASE \E n \in Name : orig.sys[n] # Absent /\ x = Item(n)
  <2>1. PICK n \in Name : orig.sys[n] # Absent /\ x = Item(n)
    BY <1>1
  <2>2. typeOf[n] \in Types /\ typeOf[n] \notin Targets
    BY SystemType, TypesTargets
  <2>3. x.of = typeOf[n] /\ x.n = n /\ x = [of |-> x.of, n |-> x.n, fib |-> 0, shown |-> TRUE]
    BY <2>1 DEF Item
  <2>4. QED
    BY <2>1, <2>2, <2>3
<1>2. CASE x \in orig.entries /\ x.shown /\ x.fib = 0
  <2>1. x \in Entries
    BY <1>2 DEF TypeOK
  <2>2. x.of \in Targets /\ x.shown = TRUE /\ x = [of |-> x.of, n |-> x.n, fib |-> x.fib, shown |-> x.shown]
    BY <1>2, <2>1 DEF Entries
  <2>3. QED
    BY <1>2, <2>2, TypesTargets
<1>3. QED
  BY <1>1, <1>2 DEF Worth

LEMMA WorthKeys ==
  ASSUME TypeOK, NEW x \in Worth, NEW y \in Worth, SaidAs(x) = SaidAs(y), x.n = y.n
  PROVE  x = y
<1>1. CASE x.of \in Types
  <2>1. y.of \in Types
    BY <1>1, WorthShape, TypesTargets DEF SaidAs
  <2>2. QED
    BY <1>1, <2>1, WorthShape
<1>2. CASE x.of \notin Types
  <2>1. y.of \notin Types /\ x.of = y.of
    BY <1>2, WorthShape, TypesTargets DEF SaidAs
  <2>2. QED
    BY <2>1, WorthShape
<1>3. QED
  BY <1>1, <1>2

\* A section lists exactly what has to be printed of its kind.
LEMMA ItemsWorth ==
  ASSUME TypeOK, LiveReplayOnlyBringsUp, NoVrf, phase = "live",
         NEW t \in Types \cup Targets, NEW x
  PROVE  /\ x \in Items(t) => x.of = t
         /\ t # "vrf" => (x \in Items(t) <=> x \in Worth /\ x.of = t)
<1>1. CASE t \in Types
  <2>1. \A n \in Name : Present(n) <=> orig.sys[n] # Absent
    BY DEF LiveReplayOnlyBringsUp, SameButUp, Present
  <2>2. x \in Items(t) <=> \E n \in Name : typeOf[n] = t /\ Present(n) /\ x = Item(n)
    BY <1>1 DEF Items, Item
  <2>3. x \in Items(t) => x \in Worth /\ x.of = t
    BY <2>1, <2>2 DEF Worth, Item
  <2>4. ASSUME x \in Worth, x.of = t PROVE x \in Items(t)
    <3>1. x.n \in Name /\ x = Item(x.n) /\ orig.sys[x.n] # Absent
      BY <1>1, <2>4, WorthShape
    <3>2. typeOf[x.n] = t
      BY <2>4, <3>1 DEF Item
    <3>3. QED
      BY <2>1, <2>2, <3>1, <3>2
  <2>5. QED
    BY <2>3, <2>4
<1>2. CASE t \in Targets
  <2>1. t \notin Types /\ entries = orig.entries
    BY <1>2, TypesTargets DEF LiveReplayOnlyBringsUp
  <2>2. CASE t = "vrf"
    BY <2>1, <2>2 DEF Items
  <2>3. CASE t # "vrf"
    <3>1. x \in Items(t) <=> x \in orig.entries /\ x.of = t /\ x.shown /\ x.fib = 0
      BY <2>1, <2>3 DEF Items
    <3>2. x \in Items(t) => x \in Worth /\ x.of = t
      BY <3>1 DEF Worth
    <3>3. ASSUME x \in Worth, x.of = t PROVE x \in Items(t)
      <4>1. x \in orig.entries /\ x = [of |-> x.of, n |-> x.n, fib |-> 0, shown |-> TRUE]
        BY <1>2, <3>3, WorthShape
      <4>2. x.shown /\ x.fib = 0
        BY <4>1
      <4>3. QED
        BY <3>1, <3>3, <4>1, <4>2
    <3>4. QED
      BY <3>2, <3>3, <3>1
  <2>4. QED
    BY <2>2, <2>3
<1>3. QED
  BY <1>1, <1>2

\* The lines of an item are about it.
LEMMA LinesAreAbout ==
  ASSUME TypeOK, NEW x \in Listed, Good(x)
  PROVE  \A i \in DOMAIN Lines(x) : Lines(x)[i].of = SaidAs(x) /\ Lines(x)[i].n = x.n
<1>1. CASE x.of \in Types
  BY <1>1, LinesRead DEF SaidAs
<1>2. CASE x.of \notin Types
  <2>1. Lines(x) = <<EntryLine(x)>>
    BY <1>2 DEF Lines
  <2>2. EntryLine(x).of = x.of /\ EntryLine(x).n = x.n
    BY DEF EntryLine
  <2>3. QED
    BY <1>2, <2>1, <2>2 DEF SaidAs
<1>3. QED
  BY <1>1, <1>2

\* What no keyword of a type is printed as.
LEMMA NoOwnAddress ==
  ASSUME NEW t
  PROVE  \A i \in DOMAIN dispatch(t).prints : PrintedAs(dispatch(t).prints[i]) # "address"
<1> DEFINE P(q) == \A i \in DOMAIN q : PrintedAs(q[i]) # "address"
<1>1. /\ P(NoToken.prints) /\ P(BridgeToken.prints) /\ P(LaggToken.prints)
      /\ P(VlanToken.prints) /\ P(TunToken.prints) /\ P(WireGuardToken.prints)
  BY DEF Token, NoToken, BridgeToken, LaggToken, VlanToken, TunToken, WireGuardToken, PrintedAs
<1>2. /\ P(IpsecToken.prints) /\ P(GreToken.prints)
      /\ P(VxlanToken.prints) /\ P(WlanToken.prints) /\ P(CarpToken.prints)
  BY DEF Token, IpsecToken, GreToken, VxlanToken, WlanToken, CarpToken, PrintedAs
<1>3. P(RouteToken.prints) /\ P(ArpToken.prints) /\ P(NdpToken.prints) /\ P(VrfToken.prints)
  BY DEF Token, RouteToken, ArpToken, NdpToken, VrfToken, PrintedAs
<1> HIDE DEF P
<1>4. P(dispatch(t).prints)
  BY <1>1, <1>2, <1>3
  DEF dispatch, LoopbackToken, TapToken, PflogToken, PfsyncToken, SixToFourToken,
      GifToken, OvpnToken
<1>5. QED
  BY <1>4 DEF P

\* A line shows the address it was printed for, if there is one.
ShownBy(c) ==
  UNION {c.clauses[j].val : j \in {l \in DOMAIN c.clauses : c.clauses[l].kw = "address"}}

LEMMA LineShows ==
  ASSUME NEW n \in Name, NEW t, NEW r \in Interfaces, NEW i
  PROVE  ShownBy(InterfaceLine(n, t, r, i)) = {r.addrs[j] : j \in DOMAIN r.addrs \cap {i}}
<1> DEFINE a == {r.addrs[j] : j \in DOMAIN r.addrs \cap {i}}
           g == GenericClauses(t, r, a)
           q == GroupClauses(r)
           o == IF i = 1 THEN OwnClauses(t, r) ELSE <<>>
           cs == g \o q \o o
<1>1. a \subseteq Value
  <2>1. r.addrs \in Seq(Addr) /\ Addr \subseteq Value
    BY Shape DEF Interfaces
  <2>2. QED
    BY <2>1
<1>2. g \in Seq(Clauses) /\ Len(g) = 5
  BY <1>1, GenericType
<1>3. /\ g[1].kw = "type" /\ g[2].kw = "vrf" /\ g[3].kw = "mtu" /\ g[5].kw = "status"
      /\ g[4].kw = "address" /\ g[4].val = a
  BY DEF GenericClauses, Clause
<1>4. q \in Seq(Clauses) /\ \A j \in DOMAIN q : q[j].kw = "group"
  <2>1. q \in Seq(Clauses)
    BY GroupType
  <2>2. \A j \in DOMAIN q : q[j].kw = "group"
    BY DEF GroupClauses, Clause
  <2>3. QED
    BY <2>1, <2>2
<1>5. o \in Seq(Clauses) /\ \A j \in DOMAIN o : o[j].kw # "address"
  <2>1. o \in Seq(Clauses)
    BY OwnType
  <2>2. \A j \in DOMAIN OwnClauses(t, r) :
          j \in DOMAIN dispatch(t).prints
            /\ OwnClauses(t, r)[j].kw = PrintedAs(dispatch(t).prints[j])
    BY DEF OwnClauses, Clause
  <2>3. \A j \in DOMAIN OwnClauses(t, r) : OwnClauses(t, r)[j].kw # "address"
    BY <2>2, NoOwnAddress
  <2>4. \A j \in DOMAIN <<>> : FALSE
    OBVIOUS
  <2>5. QED
    BY <2>1, <2>3, <2>4
<1> HIDE DEF a, g, q, o
<1>6. /\ cs \in Seq(Clauses) /\ Len(cs) = Len(g) + Len(q) + Len(o)
      /\ \A j \in 1..Len(g) : cs[j] = g[j]
      /\ \A j \in 1..Len(q) : cs[Len(g) + j] = q[j]
      /\ \A j \in 1..Len(o) : cs[Len(g) + Len(q) + j] = o[j]
  <2>1. g \in Seq(Clauses) /\ q \in Seq(Clauses) /\ o \in Seq(Clauses)
    BY <1>2, <1>4, <1>5
  <2>2. QED
    BY <2>1, Joined
<1> HIDE DEF cs
<1>7. \A l \in DOMAIN cs : cs[l].kw = "address" <=> l = 4
  <2> SUFFICES ASSUME NEW l \in DOMAIN cs PROVE cs[l].kw = "address" <=> l = 4
    OBVIOUS
  <2>1. /\ Len(q) \in Nat /\ Len(o) \in Nat
        /\ DOMAIN q = 1..Len(q) /\ DOMAIN o = 1..Len(o)
    BY <1>4, <1>5
  <2>2. Len(cs) = 5 + Len(q) + Len(o) /\ l \in 1..Len(cs)
    BY <1>2, <1>6
  <2>3. CASE l \in 1..5
    <3>1. cs[l] = g[l]
      BY <1>2, <1>6, <2>3
    <3>2. l = 1 \/ l = 2 \/ l = 3 \/ l = 4 \/ l = 5
      BY <2>3
    <3>3. QED
      BY <1>3, <3>1, <3>2
  <2>4. CASE l - 5 \in 1..Len(q)
    <3>1. cs[5 + (l - 5)] = q[l - 5] /\ 5 + (l - 5) = l /\ l # 4
      BY <1>2, <1>6, <2>4, <2>2
    <3>2. QED
      BY <1>4, <2>1, <2>4, <3>1
  <2>5. CASE l - 5 - Len(q) \in 1..Len(o)
    <3>1. cs[5 + Len(q) + (l - 5 - Len(q))] = o[l - 5 - Len(q)]
      BY <1>2, <1>6, <2>5
    <3>2. 5 + Len(q) + (l - 5 - Len(q)) = l /\ l # 4
      BY <2>1, <2>2, <2>5
    <3>3. QED
      BY <1>5, <2>1, <2>5, <3>1, <3>2
  <2>6. QED
    BY <2>1, <2>2, <2>3, <2>4, <2>5
<1>8. 4 \in DOMAIN cs /\ cs[4].val = a
  <2>1. Len(cs) \in Nat /\ Len(cs) >= 5 /\ DOMAIN cs = 1..Len(cs)
    BY <1>2, <1>4, <1>5, <1>6
  <2>2. QED
    BY <1>2, <1>3, <1>6, <2>1
<1>9. InterfaceLine(n, t, r, i).clauses = cs
  BY DEF InterfaceLine, a, g, q, o, cs
<1>10. ShownBy(InterfaceLine(n, t, r, i)) = cs[4].val
  BY <1>7, <1>8, <1>9 DEF ShownBy
<1>11. QED
  BY <1>8, <1>10 DEF a

LEMMA SectionsCover == \A t \in Targets : \E s \in DOMAIN Sections : Sections[s] = t
<1>1. /\ Sections[1] = "vrf" /\ Sections[20] = "route" /\ Sections[21] = "arp"
      /\ Sections[22] = "ndp"
  BY DEF Sections
<1>2. 1 \in DOMAIN Sections /\ \A i \in 20..22 : i \in DOMAIN Sections
  BY SectionsDomain
<1>3. QED
  BY <1>1, <1>2 DEF Targets

LEMMA WorthNoVrf == ASSUME TypeOK, NoVrf, NEW x \in Worth PROVE x.of # "vrf" /\ SaidAs(x) # "vrf"
<1>1. x.of # "vrf"
  <2>1. CASE x.of \in Types
    BY <2>1, TypesTargets DEF Targets
  <2>2. CASE x.of \in Targets
    <3>1. x \in orig.entries /\ x = [of |-> x.of, n |-> x.n, fib |-> 0, shown |-> TRUE]
      BY <2>2, WorthShape
    <3>2. x.shown
      BY <3>1
    <3>3. QED
      BY <3>1, <3>2 DEF NoVrf
  <2>3. QED
    BY <2>1, <2>2, WorthShape
<1>2. QED
  BY <1>1 DEF SaidAs

LEMMA WorthStays ==
  ASSUME typeOf' = typeOf, orig' = orig
  PROVE  /\ Worth' = Worth /\ \A n : Item(n)' = Item(n)
         /\ \A n : (IsVlan(n)' <=> IsVlan(n)) /\ VlanParents(n)' = VlanParents(n)
         /\ Shallow' <=> Shallow
<1>1. Worth' = Worth /\ \A n : Item(n)' = Item(n)
  BY DEF Worth, Item
<1>2. \A n : (IsVlan(n)' <=> IsVlan(n)) /\ VlanParents(n)' = VlanParents(n)
  BY DEF IsVlan, VlanParents
<1>3. Shallow' <=> Shallow
  BY <1>2 DEF Shallow
<1>4. QED
  BY <1>1, <1>2, <1>3

\* While nothing is printed the lines stay what they are.
LEMMA LinesStay ==
  ASSUME typeOf' = typeOf, orig' = orig, script' = script
  PROVE  /\ \A x : About(x)' = About(x)
         /\ \A n : LinesAbout(n)' = LinesAbout(n)
         /\ \A i : Shows(i)' = Shows(i)
         /\ Wholes => Wholes'
         /\ Genuine => Genuine'
         /\ Ordered => Ordered'
<1>1. \A x : About(x)' = About(x)
  BY DEF About
<1>2. \A n : LinesAbout(n)' = LinesAbout(n)
  BY DEF LinesAbout
<1>3. \A i : Shows(i)' = Shows(i)
  BY DEF Shows
<1>4. \A n : Item(n)' = Item(n)
  BY WorthStays
<1>5. \A x, o : Whole(x, o)' <=> Whole(x, o)
  BY <1>1, <1>3 DEF Whole
<1>6. Wholes => Wholes'
  BY <1>1, <1>4, <1>5 DEF Wholes
<1>7. Genuine => Genuine'
  BY DEF Genuine
<1>8. Ordered => Ordered'
  BY <1>2, WorthStays DEF Ordered
<1>9. QED
  BY <1>1, <1>2, <1>3, <1>6, <1>7, <1>8

LEMMA InitScript == ASSUME Init PROVE ScriptInv
<1>1. /\ script = <<>> /\ pending = <<>> /\ sorted = <<>> /\ fetched = FALSE
      /\ \A n \in Name : orig.sys[n] = Absent
      /\ orig.entries = {} /\ entries = Learned
  BY DEF Init
<1>2. Worth = {}
  BY <1>1 DEF Worth
<1>3. \A x : About(x) = {}
  BY <1>1 DEF About
<1>4. Queued /\ Tiers
  BY <1>1 DEF Queued, Tiers, Distinct
<1>5. Once /\ Wholes
  BY <1>2, <1>3 DEF Once, Wholes
<1>6. Genuine
  BY <1>1 DEF Genuine
<1>7. NoVrf
  BY <1>1, Shape DEF NoVrf
<1>8. Ordered
  BY <1>1 DEF Ordered, IsVlan
<1>9. QED
  BY <1>4, <1>5, <1>6, <1>7, <1>8 DEF ScriptInv

\* Steps that neither list nor print.
LEMMA QuietScript ==
  ASSUME ScriptInv, NoVrf', UNCHANGED <<typeOf, orig, generator>>
  PROVE  ScriptInv'
<1>1. /\ typeOf' = typeOf /\ orig' = orig /\ section' = section /\ fetched' = fetched
      /\ seen' = seen /\ pending' = pending /\ sorted' = sorted /\ script' = script
  BY DEF generator
<1>2. Queued'
  <2>1. \A x : Belongs(x)' <=> Belongs(x)
    BY <1>1, WorthStays DEF Belongs
  <2>2. QED
    BY <1>1, <2>1 DEF ScriptInv, Queued
<1>3. Once'
  <2>1. \A x : Waits(x)' <=> Waits(x)
    BY <1>1 DEF Waits, InQueue, DueSection
  <2>2. QED
    BY <1>1, <2>1, WorthStays, LinesStay DEF ScriptInv, Once
<1>4. Wholes' /\ Genuine' /\ Ordered'
  BY <1>1, LinesStay DEF ScriptInv
<1>5. Tiers'
  <2>1. \A n : ParentIsVlan(n)' <=> ParentIsVlan(n)
    BY <1>1 DEF ParentIsVlan, ParentOf
  <2>2. QED
    BY <1>1, <2>1 DEF ScriptInv, Tiers, Writing
<1>6. QED
  BY <1>2, <1>3, <1>4, <1>5 DEF ScriptInv

\* Nothing typed and nothing read makes a VRF an entry.
LEMMA ExecuteScript ==
  ASSUME ScriptInv, NEW c, Execute(c), UNCHANGED <<typeOf, orig, generator>>
  PROVE  ScriptInv'
<1>1. \A e \in entries' : e \in entries \/ e.of # "vrf"
  <2>1. CASE SetInterface(c)
    BY <2>1 DEF SetInterface
  <2>2. CASE SetEntry(c)
    BY <2>2 DEF SetEntry
  <2>3. QED
    BY <2>1, <2>2 DEF Execute
<1>2. NoVrf'
  BY <1>1 DEF ScriptInv, NoVrf
<1>3. QED
  BY <1>2, QuietScript

LEMMA RebootScript == ASSUME ScriptInv, Reboot PROVE ScriptInv'
<1>1. UNCHANGED <<typeOf, orig, generator>> /\ entries' = Learned
  BY DEF Reboot
<1>2. NoVrf'
  BY <1>1, Shape DEF ScriptInv, NoVrf
<1>3. QED
  BY <1>1, <1>2, QuietScript

\* When `net -g` begins all is still to come.
LEMMA GenerateScript == ASSUME IInv, ScriptInv, Generate PROVE ScriptInv'
<1>1. /\ script = <<>> /\ pending = <<>> /\ sorted = <<>> /\ ~fetched
  BY TypingIdle DEF IInv, Generate
<1>2. /\ section' = 1 /\ orig' = [sys |-> sys, entries |-> entries] /\ typeOf' = typeOf
      /\ script' = script /\ pending' = pending /\ sorted' = sorted /\ fetched' = fetched
      /\ entries' = entries
  BY DEF Generate, system
<1>3. /\ orig'.sys = sys /\ orig'.entries = entries
  BY <1>2
<1>4. \A x : About(x)' = {}
  BY <1>1, <1>2 DEF About
<1>5. \A n : LinesAbout(n)' = {}
  BY <1>1, <1>2 DEF LinesAbout
<1>6. Queued' /\ Tiers' /\ Genuine'
  BY <1>1, <1>2 DEF Queued, Tiers, Genuine, Distinct
<1>7. Once'
  <2> SUFFICES ASSUME NEW x \in Worth' PROVE Waits(x)'
    BY <1>4 DEF Once
  <2>1. x.of \in Types \cup Targets
    <3>1. typeOf \in [Name -> Types] /\ entries \subseteq Entries
      BY DEF IInv, TypeOK
    <3>2. QED
      BY <1>2, <1>3, <3>1 DEF Worth, Item, Entries
  <2>2. PICK s \in DOMAIN Sections : Sections[s] = x.of
    BY <2>1, SectionsAll, SectionsCover
  <2>3. 1 < s \/ 1 = s
    BY SectionsDomain
  <2>4. QED
    BY <1>1, <1>2, <2>2, <2>3 DEF Waits, DueSection
<1>8. Wholes' /\ Ordered'
  BY <1>4, <1>5 DEF Wholes, Ordered
<1>9. NoVrf'
  BY <1>2, <1>3 DEF ScriptInv, NoVrf
<1>10. QED
  BY <1>6, <1>7, <1>8, <1>9 DEF ScriptInv

\* A section lists what waits for it, each once.
LEMMA FetchScript == ASSUME IInv, ScriptInv, Fetch PROVE ScriptInv'
<1> DEFINE S == Items(Sections[section])
<1>1. TypeOK /\ Phases /\ LiveReplayOnlyBringsUp /\ Queued /\ Once /\ NoVrf
  BY DEF IInv, ScriptInv
<1>2. /\ Writing /\ ~fetched /\ fetched' = TRUE /\ seen' = sys
      /\ typeOf' = typeOf /\ section' = section /\ sorted' = sorted /\ script' = script
      /\ orig' = orig /\ entries' = entries
  BY DEF Fetch, system
<1>3. phase = "live" /\ pending = <<>> /\ sorted = <<>>
  BY <1>1, <1>2, WritingLive DEF Phases
<1>4. PICK q \in [1..Cardinality(S) -> S] :
        IsFiniteSet(S) /\ S = {q[i] : i \in DOMAIN q} /\ pending' = q
  BY DEF Fetch
<1>5. section \in DOMAIN Sections /\ Sections[section] \in Types \cup Targets
  BY <1>2, SectionsKnown DEF Writing
<1>6. \A x : /\ x \in S => x.of = Sections[section]
             /\ Sections[section] # "vrf" =>
                  (x \in S <=> x \in Worth /\ x.of = Sections[section])
  BY <1>1, <1>3, <1>5, ItemsWorth
<1> HIDE DEF S
<1>7. \A x : (\E i \in DOMAIN pending' : pending'[i] = x) <=> x \in S
  BY <1>4
<1>8. Queued'
  <2>1. \A x \in S : Belongs(x)'
    <3>1. Sections[section]' = Sections[section]
      BY <1>2 DEF Sections
    <3>2. QED
      BY <1>2, <1>6, <3>1, WorthStays DEF Belongs
  <2>2. Distinct(pending)'
    <3>1. Cardinality(S) \in Nat
      BY <1>4, FS_CardinalityType
    <3>2. IsFiniteSet(1..Cardinality(S)) /\ Cardinality(1..Cardinality(S)) = Cardinality(S)
      BY <3>1, FS_Interval
    <3>3. q \in Surjection(1..Cardinality(S), S)
      BY <1>4 DEF Surjection
    <3>4. q \in Injection(1..Cardinality(S), S)
      BY <3>2, <3>3, FS_SurjSameCardinalityImpliesInj
    <3>5. QED
      BY <1>4, <3>4 DEF Injection, IsInjective, Distinct
  <2>3. \A n \in Name : SameButUp(seen'[n], orig'.sys[n])
    BY <1>1, <1>2, <1>3 DEF LiveReplayOnlyBringsUp
  <2>4. \A i \in DOMAIN sorted' : FALSE
    BY <1>2, <1>3
  <2>5. Distinct(sorted)'
    BY <2>4 DEF Distinct
  <2>6. \A i \in DOMAIN pending' : pending'[i] \in S
    BY <1>7
  <2>7. QED
    BY <2>1, <2>2, <2>3, <2>4, <2>5, <2>6 DEF Queued
<1>9. Once'
  <2> SUFFICES ASSUME NEW x \in Worth PROVE Waits(x)' <=> Waits(x)
    BY <1>1, <1>2, WorthStays, LinesStay DEF Once
  <2>1. x.of # "vrf"
    BY <1>1, WorthNoVrf
  <2>2. InQueue(x)' <=> x.of = Sections[section]
    BY <1>2, <1>3, <1>6, <1>7, <2>1 DEF InQueue
  <2>3. ~InQueue(x)
    BY <1>3 DEF InQueue
  <2>4. DueSection(x.of) <=>
          \/ x.of = Sections[section]
          \/ \E s \in DOMAIN Sections : Sections[s] = x.of /\ section < s
    BY <1>2, <1>5 DEF DueSection
  <2>5. DueSection(x.of)' <=> \E s \in DOMAIN Sections : Sections[s] = x.of /\ section < s
    BY <1>2 DEF DueSection
  <2>6. QED
    BY <2>2, <2>3, <2>4, <2>5 DEF Waits
<1>10. Wholes' /\ Genuine' /\ Ordered'
  BY <1>2, LinesStay DEF ScriptInv
<1>11. NoVrf'
  BY <1>1, <1>2 DEF NoVrf
<1>12. Tiers'
  BY <1>2, <1>3 DEF Tiers
<1>13. QED
  BY <1>8, <1>9, <1>10, <1>11, <1>12 DEF ScriptInv

\* The next section starts when nothing of the last is left.
LEMMA NextSectionScript == ASSUME IInv, ScriptInv, NextSection PROVE ScriptInv'
<1>1. TypeOK /\ Once /\ NoVrf
  BY DEF IInv, ScriptInv
<1>2. /\ fetched /\ fetched' = FALSE /\ section' = section + 1
      /\ pending = <<>> /\ sorted = <<>> /\ pending' = pending /\ sorted' = sorted
      /\ typeOf' = typeOf /\ script' = script /\ orig' = orig /\ entries' = entries
  BY DEF NextSection, system
<1>3. Queued' /\ Tiers'
  BY <1>2 DEF Queued, Tiers, Distinct
<1>4. Once'
  <2> SUFFICES ASSUME NEW x \in Worth PROVE Waits(x)' <=> Waits(x)
    BY <1>1, <1>2, WorthStays, LinesStay DEF Once
  <2>1. section \in Nat
    BY <1>1 DEF TypeOK
  <2>2. \A s \in DOMAIN Sections : section < s <=> section + 1 < s \/ section + 1 = s
    BY <2>1, SectionsDomain
  <2>3. DueSection(x.of)' <=> DueSection(x.of)
    BY <1>2, <2>2 DEF DueSection
  <2>4. InQueue(x)' <=> InQueue(x)
    BY <1>2 DEF InQueue
  <2>5. QED
    BY <2>3, <2>4 DEF Waits
<1>5. Wholes' /\ Genuine' /\ Ordered'
  BY <1>2, LinesStay DEF ScriptInv
<1>6. NoVrf'
  BY <1>1, <1>2 DEF NoVrf
<1>7. QED
  BY <1>3, <1>4, <1>5, <1>6 DEF ScriptInv

\* The comparison puts VLANs in VLANs last, whatever else it does.
LEMMA BeforeNested ==
  ASSUME NEW x, NEW y, x.n \in Name, typeOf[x.n] = "vlan", seen[x.n] # Absent, Before(x, y)
  PROVE  ParentIsVlan(y.n)
BY DEF Before, ParentIsVlan

LEMMA AfterNested ==
  ASSUME NEW x, NEW y, x.of = "vlan", y.n \in Name, typeOf[y.n] = "vlan",
         seen[y.n] # Absent, ~Before(x, y), ParentIsVlan(y.n)
  PROVE  ParentIsVlan(x.n)
<1>1. y.n \in ParentOf(x.n) \/ ParentIsVlan(x.n)
  BY DEF Before
<1>2. QED
  BY <1>1 DEF ParentIsVlan

\* Sorting one more element loses and doubles nothing, and keeps the order.
LEMMA ArrangeScript == ASSUME IInv, ScriptInv, Arrange PROVE ScriptInv'
<1> DEFINE x == pending[1]
<1>1. TypeOK /\ Phases /\ Listings /\ Queued /\ Once /\ NoVrf /\ Tiers
  BY DEF IInv, ScriptInv
<1>2. /\ fetched' = fetched /\ seen' = seen /\ typeOf' = typeOf /\ section' = section
      /\ script' = script /\ orig' = orig /\ entries' = entries
  BY DEF Arrange, system
<1>3. PICK k \in 0..Len(sorted) :
        /\ InsertAt(sorted, x, k)
        /\ sorted' \in Seq(Listed) /\ Len(sorted') = Len(sorted) + 1 /\ sorted'[k + 1] = x
        /\ \A i \in 1..k : sorted'[i] = sorted[i]
        /\ \A i \in (k + 1)..Len(sorted) : sorted'[i + 1] = sorted[i]
        /\ pending # <<>> /\ pending' \in Seq(Listed) /\ Len(pending') = Len(pending) - 1
        /\ \A i \in 1..Len(pending') : pending'[i] = pending[i + 1]
  BY <1>1, Moved
<1>4. /\ DOMAIN sorted = 1..Len(sorted) /\ DOMAIN sorted' = 1..(Len(sorted) + 1)
      /\ DOMAIN pending = 1..Len(pending) /\ DOMAIN pending' = 1..(Len(pending) - 1)
      /\ Len(sorted) \in Nat /\ Len(pending) \in Nat /\ k \in Nat /\ k <= Len(sorted)
      /\ 1 \in DOMAIN pending
  <2>1. pending \in Seq(Listed) /\ sorted \in Seq(Listed)
    BY <1>1 DEF TypeOK
  <2>2. QED
    BY <1>3, <2>1
<1> DEFINE old(i) == IF i <= k THEN i ELSE i - 1
<1>5. \A i \in DOMAIN sorted' : i # k + 1 =>
        /\ old(i) \in DOMAIN sorted /\ sorted'[i] = sorted[old(i)]
        /\ i <= k => old(i) <= k
        /\ i > k => old(i) > k
  <2> SUFFICES ASSUME NEW i \in DOMAIN sorted', i # k + 1
               PROVE  /\ old(i) \in DOMAIN sorted /\ sorted'[i] = sorted[old(i)]
                      /\ i <= k => old(i) <= k
                      /\ i > k => old(i) > k
    OBVIOUS
  <2>1. CASE i <= k
    <3>1. i \in 1..k /\ i \in DOMAIN sorted
      BY <1>4, <2>1
    <3>2. QED
      BY <1>3, <1>4, <2>1, <3>1
  <2>2. CASE i > k
    <3>1. i - 1 \in (k + 1)..Len(sorted) /\ (i - 1) + 1 = i /\ i - 1 \in DOMAIN sorted
      BY <1>4, <2>2
    <3>2. sorted'[i] = sorted[i - 1]
      BY <1>3, <3>1
    <3>3. QED
      BY <1>4, <2>2, <3>1, <3>2
  <2>3. QED
    BY <1>4, <2>1, <2>2
<1>6. \A i, j \in DOMAIN sorted' : i # k + 1 /\ j # k + 1 =>
        /\ old(i) = old(j) => i = j
        /\ i < j => old(i) < old(j)
  BY <1>4
<1>7. \A j \in DOMAIN sorted : \E i \in DOMAIN sorted' : sorted'[i] = sorted[j]
  <2> SUFFICES ASSUME NEW j \in DOMAIN sorted
               PROVE  \E i \in DOMAIN sorted' : sorted'[i] = sorted[j]
    OBVIOUS
  <2>1. j \in 1..k \/ j \in (k + 1)..Len(sorted)
    BY <1>4
  <2>2. j \in DOMAIN sorted' /\ j + 1 \in DOMAIN sorted'
    BY <1>4
  <2>3. QED
    BY <1>3, <2>1, <2>2
<1>8. \A i \in DOMAIN pending' : i + 1 \in DOMAIN pending /\ pending'[i] = pending[i + 1]
  BY <1>3, <1>4
<1>9. k + 1 \in DOMAIN sorted'
  BY <1>4
<1>10. \A j \in DOMAIN sorted : sorted[j] # x
  BY <1>1, <1>4 DEF Queued
<1> HIDE DEF x, old
<1>11. Queued'
  <2>1. \A y : Belongs(y)' <=> Belongs(y)
    <3>1. Sections[section]' = Sections[section]
      BY <1>2 DEF Sections
    <3>2. QED
      BY <1>2, <3>1, WorthStays DEF Belongs
  <2>2. \A i \in DOMAIN sorted' : Belongs(sorted'[i])
    <3>1. Belongs(x)
      BY <1>1, <1>4 DEF Queued, x
    <3>2. QED
      BY <1>1, <1>3, <1>5, <3>1 DEF Queued
  <2>3. \A i \in DOMAIN pending' : Belongs(pending'[i])
    BY <1>1, <1>8 DEF Queued
  <2>4. Distinct(sorted)'
    <3> SUFFICES ASSUME NEW i \in DOMAIN sorted', NEW j \in DOMAIN sorted',
                        sorted'[i] = sorted'[j]
                 PROVE  i = j
      BY DEF Distinct
    <3>1. CASE i = k + 1 \/ j = k + 1
      BY <1>3, <1>5, <1>10, <3>1
    <3>2. CASE i # k + 1 /\ j # k + 1
      <4>1. sorted[old(i)] = sorted[old(j)] /\ old(i) \in DOMAIN sorted /\ old(j) \in DOMAIN sorted
        BY <1>5, <3>2
      <4>2. old(i) = old(j)
        BY <1>1, <4>1 DEF Queued, Distinct
      <4>3. QED
        BY <1>6, <3>2, <4>2
    <3>3. QED
      BY <3>1, <3>2
  <2>5. Distinct(pending)'
    <3> SUFFICES ASSUME NEW i \in DOMAIN pending', NEW j \in DOMAIN pending',
                        pending'[i] = pending'[j]
                 PROVE  i = j
      BY DEF Distinct
    <3>1. i + 1 = j + 1
      BY <1>1, <1>8 DEF Queued, Distinct
    <3>2. QED
      BY <1>4, <3>1
  <2>6. \A i \in DOMAIN pending', j \in DOMAIN sorted' : pending'[i] # sorted'[j]
    <3> SUFFICES ASSUME NEW i \in DOMAIN pending', NEW j \in DOMAIN sorted'
                 PROVE  pending'[i] # sorted'[j]
      OBVIOUS
    <3>1. i + 1 \in DOMAIN pending /\ pending'[i] = pending[i + 1] /\ i + 1 # 1
      BY <1>4, <1>8
    <3>2. CASE j = k + 1
      BY <1>1, <1>3, <1>4, <3>1, <3>2 DEF Queued, Distinct, x
    <3>3. CASE j # k + 1
      BY <1>1, <1>5, <3>1, <3>3 DEF Queued
    <3>4. QED
      BY <3>2, <3>3
  <2>7. QED
    BY <1>1, <1>2, <2>1, <2>2, <2>3, <2>4, <2>5, <2>6 DEF Queued
<1>12. Once'
  <2> SUFFICES ASSUME NEW y \in Worth PROVE Waits(y)' <=> Waits(y)
    BY <1>1, <1>2, WorthStays, LinesStay DEF Once
  <2>1. InQueue(y) => InQueue(y)'
    <3>1. ASSUME NEW j \in DOMAIN pending PROVE pending[j] = x \/ \E i \in DOMAIN pending' : pending'[i] = pending[j]
      <4>1. CASE j = 1
        BY <4>1 DEF x
      <4>2. CASE j # 1
        <5>1. j - 1 \in DOMAIN pending' /\ (j - 1) + 1 = j
          BY <1>4, <4>2
        <5>2. QED
          BY <1>8, <5>1
      <4>3. QED
        BY <4>1, <4>2
    <3>2. ASSUME NEW j \in DOMAIN pending, pending[j] = y PROVE InQueue(y)'
      <4>1. CASE y = x
        BY <1>3, <1>9, <4>1 DEF InQueue
      <4>2. CASE y # x
        BY <3>1, <3>2, <4>2 DEF InQueue
      <4>3. QED
        BY <4>1, <4>2
    <3>3. ASSUME NEW j \in DOMAIN sorted, sorted[j] = y PROVE InQueue(y)'
      BY <1>7, <3>3 DEF InQueue
    <3>4. QED
      BY <3>2, <3>3 DEF InQueue
  <2>2. InQueue(y)' => InQueue(y)
    <3>1. \A i \in DOMAIN pending' : \E j \in DOMAIN pending : pending'[i] = pending[j]
      BY <1>8
    <3>2. \A i \in DOMAIN sorted' : \/ sorted'[i] = pending[1]
                                   \/ \E j \in DOMAIN sorted : sorted'[i] = sorted[j]
      BY <1>3, <1>5 DEF x
    <3>3. QED
      BY <1>4, <3>1, <3>2 DEF InQueue
  <2>3. DueSection(y.of)' <=> DueSection(y.of)
    BY <1>2 DEF DueSection
  <2>4. QED
    BY <2>1, <2>2, <2>3 DEF Waits
<1>13. Wholes' /\ Genuine' /\ Ordered'
  BY <1>2, LinesStay DEF ScriptInv
<1>14. NoVrf'
  BY <1>1, <1>2 DEF NoVrf
<1>15. Tiers'
  <2>1. /\ \A n : ParentIsVlan(n)' <=> ParentIsVlan(n)
        /\ Sections[section]' = Sections[section] /\ Writing' = Writing
    BY <1>2 DEF ParentIsVlan, ParentOf, Writing, Sections
  <2> SUFFICES ASSUME Writing, Sections[section] = "vlan",
                      NEW i \in DOMAIN sorted', NEW j \in DOMAIN sorted',
                      i < j, ParentIsVlan(sorted'[i].n)
               PROVE  ParentIsVlan(sorted'[j].n)
    BY <2>1 DEF Tiers
  <2>2. /\ x.of = "vlan" /\ x.n \in Name /\ typeOf[x.n] = "vlan" /\ seen[x.n] # Absent
        /\ \A l \in DOMAIN sorted : /\ sorted[l].of = "vlan" /\ sorted[l].n \in Name
                                    /\ typeOf[sorted[l].n] = "vlan" /\ seen[sorted[l].n] # Absent
    <3>1. "vlan" \in Types
      BY DEF Types
    <3>2. QED
      BY <1>1, <1>4, <3>1 DEF Queued, Belongs, Listings, Good, x
  <2>3. \A l, m \in DOMAIN sorted : l < m /\ ParentIsVlan(sorted[l].n) => ParentIsVlan(sorted[m].n)
    BY <1>1 DEF Tiers
  <2>4. CASE i = k + 1
    <3>1. old(j) \in (k + 1)..Len(sorted) /\ sorted'[j] = sorted[old(j)]
      <4>1. j # k + 1 /\ j > k
        BY <1>4, <2>4
      <4>2. QED
        BY <1>4, <1>5, <4>1
    <3>2. Before(x, sorted[old(j)])
      BY <1>3, <3>1 DEF InsertAt
    <3>3. QED
      BY <2>2, <3>1, <3>2, BeforeNested
  <2>5. CASE j = k + 1
    <3>1. i <= k /\ i # k + 1 /\ k # 0
      BY <1>4, <2>5
    <3>2. old(i) \in DOMAIN sorted /\ old(i) <= k /\ sorted'[i] = sorted[old(i)] /\ k \in DOMAIN sorted
      BY <1>4, <1>5, <3>1
    <3>3. ParentIsVlan(sorted[k].n)
      <4>1. old(i) < k \/ old(i) = k
        BY <1>4, <3>2
      <4>2. QED
        BY <2>3, <3>2, <4>1
    <3>4. ~Before(x, sorted[k])
      BY <1>3, <3>1 DEF InsertAt
    <3>5. ParentIsVlan(x.n)
      BY <2>2, <3>2, <3>3, <3>4, AfterNested
    <3>6. QED
      BY <1>3, <2>5, <3>5
  <2>6. CASE i # k + 1 /\ j # k + 1
    BY <1>5, <1>6, <2>3, <2>6
  <2>7. QED
    BY <2>4, <2>5, <2>6
<1>16. QED
  BY <1>11, <1>12, <1>13, <1>14, <1>15 DEF ScriptInv

\* The lines of the first in the sorted part go to the end of the script.
LEMMA Emitted ==
  ASSUME IInv, Emit
  PROVE  LET x == sorted[1]
             ls == Lines(x)
             b == Len(script) IN
         /\ x \in Listed /\ Good(x) /\ pending = <<>> /\ 1 \in DOMAIN sorted
         /\ \A i \in DOMAIN sorted' : i + 1 \in DOMAIN sorted /\ sorted'[i] = sorted[i + 1]
         /\ \A i \in DOMAIN sorted : i # 1 => i - 1 \in DOMAIN sorted' /\ sorted'[i - 1] = sorted[i]
         /\ b \in Nat /\ Len(ls) \in Nat /\ Len(ls) >= 1 /\ DOMAIN ls = 1..Len(ls)
         /\ DOMAIN script = 1..b /\ DOMAIN script' = 1..(b + Len(ls))
         /\ \A i \in 1..b : script'[i] = script[i]
         /\ \A i \in 1..Len(ls) : script'[b + i] = ls[i]
<1> DEFINE x == sorted[1]
           ls == Lines(x)
<1>1. sorted \in Seq(Listed) /\ script \in Seq(Commands) /\ sorted # <<>> /\ pending = <<>>
  BY DEF IInv, TypeOK, Emit
<1>2. x \in Listed /\ 1 \in DOMAIN sorted /\ Head(sorted) = x
  BY <1>1
<1>3. Good(x)
  BY <1>2 DEF IInv, Listings
<1>4. /\ sorted' \in Seq(Listed) /\ Len(sorted') = Len(sorted) - 1
      /\ \A i \in 1..Len(sorted') : sorted'[i] = sorted[i + 1]
  <2>1. sorted' = Tail(sorted)
    BY DEF Emit
  <2>2. QED
    BY <1>1, <2>1
<1>5. /\ Len(sorted) \in Nat /\ DOMAIN sorted = 1..Len(sorted)
      /\ DOMAIN sorted' = 1..(Len(sorted) - 1)
  BY <1>1, <1>4
<1>6. /\ \A i \in DOMAIN sorted' : i + 1 \in DOMAIN sorted /\ sorted'[i] = sorted[i + 1]
      /\ \A i \in DOMAIN sorted : i # 1 => i - 1 \in DOMAIN sorted' /\ sorted'[i - 1] = sorted[i]
  <2>1. \A i \in DOMAIN sorted : i # 1 => i - 1 \in DOMAIN sorted' /\ (i - 1) + 1 = i
    BY <1>5
  <2>2. \A i \in DOMAIN sorted' : i + 1 \in DOMAIN sorted
    BY <1>5
  <2>3. QED
    BY <1>4, <1>5, <2>1, <2>2
<1>7. script' = script \o ls
  BY <1>2 DEF Emit
<1> HIDE DEF x, ls
<1>8. ls \in Seq(Commands) /\ ls # <<>>
  BY <1>2, <1>3, LinesRead DEF IInv, ls
<1>9. /\ script' \in Seq(Commands) /\ Len(script') = Len(script) + Len(ls)
      /\ \A i \in 1..Len(script) : script'[i] = script[i]
      /\ \A i \in 1..Len(ls) : script'[Len(script) + i] = ls[i]
  BY <1>1, <1>7, <1>8
<1>10. /\ Len(ls) \in Nat /\ Len(ls) >= 1 /\ DOMAIN ls = 1..Len(ls)
       /\ Len(script) \in Nat /\ DOMAIN script = 1..Len(script)
       /\ DOMAIN script' = 1..(Len(script) + Len(ls))
  BY <1>1, <1>8, <1>9
<1>11. QED
  BY <1>1, <1>2, <1>3, <1>6, <1>9, <1>10 DEF x, ls

\* In the section of the VLANs, which are nested is what it was.
LEMMA NestedSeen ==
  ASSUME TypeOK, \A m \in Name : SameButUp(seen[m], orig.sys[m]),
         NEW n \in Name, orig.sys[n] # Absent, typeOf[n] = "vlan"
  PROVE  ParentIsVlan(n) <=> VlanParents(n) # {}
<1>1. seen[n] # Absent /\ seen[n].own = orig.sys[n].own
  <2>1. seen[n] # Absent
    BY DEF SameButUp
  <2>2. seen[n] \in Interfaces /\ orig.sys[n] \in Interfaces
    BY <2>1, SystemType
  <2>3. QED
    BY <2>1, <2>2, SameFields
<1>2. ParentOf(n) = Held(orig.sys[n], "parent")
  BY <1>1 DEF ParentOf, Held
<1>3. \A p \in Name : seen[p] # Absent <=> orig.sys[p] # Absent
  BY DEF SameButUp
<1>4. QED
  BY <1>2, <1>3 DEF ParentIsVlan, VlanParents, IsVlan

LEMMA AboutInterface ==
  ASSUME TypeOK, NEW n \in Name PROVE About(Item(n)) = LinesAbout(n)
<1>1. Item(n).of = typeOf[n] /\ Item(n).n = n /\ typeOf[n] \in Types
  BY SystemType DEF Item
<1>2. SaidAs(Item(n)) = "interface"
  BY <1>1 DEF SaidAs
<1>3. QED
  BY <1>1, <1>2 DEF About, LinesAbout

\* What is printed waited until then, is printed whole, and no VLAN before its
\* parents.
LEMMA EmitScript == ASSUME IInv, ScriptInv, Emit PROVE ScriptInv'
<1>0. PICK x, ls, b : x = sorted[1] /\ ls = Lines(x) /\ b = Len(script)
  OBVIOUS
<1>1. /\ TypeOK /\ Phases /\ Listings /\ Scripted
      /\ Queued /\ Once /\ Wholes /\ Genuine /\ NoVrf /\ Tiers /\ Ordered
  BY DEF IInv, ScriptInv
<1>2. /\ pending' = pending /\ fetched' = fetched /\ seen' = seen /\ typeOf' = typeOf
      /\ section' = section /\ orig' = orig /\ entries' = entries
  BY DEF Emit, system
<1>3. /\ x \in Listed /\ Good(x) /\ pending = <<>> /\ 1 \in DOMAIN sorted
      /\ \A i \in DOMAIN sorted' : i + 1 \in DOMAIN sorted /\ sorted'[i] = sorted[i + 1]
      /\ \A i \in DOMAIN sorted : i # 1 => i - 1 \in DOMAIN sorted' /\ sorted'[i - 1] = sorted[i]
      /\ b \in Nat /\ Len(ls) \in Nat /\ Len(ls) >= 1 /\ DOMAIN ls = 1..Len(ls)
      /\ DOMAIN script = 1..b /\ DOMAIN script' = 1..(b + Len(ls))
      /\ \A i \in 1..b : script'[i] = script[i]
      /\ \A i \in 1..Len(ls) : script'[b + i] = ls[i]
  BY <1>0, Emitted
<1>4. Writing /\ fetched /\ section \in DOMAIN Sections
  BY <1>1, <1>3, WritingLive DEF Writing
<1>5. Belongs(x)
  BY <1>0, <1>1, <1>3 DEF Queued
<1>6. \A i \in DOMAIN ls : ls[i].of = SaidAs(x) /\ ls[i].n = x.n
  BY <1>0, <1>1, <1>3, LinesAreAbout
\* The lines after the step.
<1>7. \A i \in DOMAIN script' :
        \/ i \in 1..b /\ script'[i] = script[i]
        \/ i \in (b + 1)..(b + Len(ls)) /\ i - b \in DOMAIN ls /\ script'[i] = ls[i - b]
  <2> SUFFICES ASSUME NEW i \in DOMAIN script', i \notin 1..b
               PROVE  /\ i \in (b + 1)..(b + Len(ls)) /\ i - b \in DOMAIN ls
                      /\ script'[i] = ls[i - b]
    BY <1>3
  <2>1. i \in (b + 1)..(b + Len(ls)) /\ i - b \in 1..Len(ls) /\ b + (i - b) = i
    BY <1>3
  <2>2. QED
    BY <1>3, <2>1
<1>8. (b + 1)..(b + Len(ls)) \subseteq DOMAIN script' /\ 1..b \subseteq DOMAIN script'
  BY <1>3
<1>9. \A y : ~(SaidAs(y) = SaidAs(x) /\ y.n = x.n) => About(y)' = About(y)
  <2> SUFFICES ASSUME NEW y, ~(SaidAs(y) = SaidAs(x) /\ y.n = x.n)
               PROVE  About(y)' = About(y)
    OBVIOUS
  <2>1. ASSUME NEW i \in About(y)' PROVE i \in About(y)
    BY <1>3, <1>6, <1>7 DEF About
  <2>2. ASSUME NEW i \in About(y) PROVE i \in About(y)'
    BY <1>3, <1>8 DEF About
  <2>3. QED
    BY <2>1, <2>2
<1>10. About(x) = {} => About(x)' = (b + 1)..(b + Len(ls))
  <2> SUFFICES ASSUME About(x) = {}
               PROVE  \A i : i \in About(x)' <=> i \in (b + 1)..(b + Len(ls))
    OBVIOUS
  <2>1. ASSUME NEW i \in About(x)' PROVE i \in (b + 1)..(b + Len(ls))
    BY <1>3, <1>7 DEF About
  <2>2. ASSUME NEW i \in (b + 1)..(b + Len(ls)) PROVE i \in About(x)'
    <3>1. i \in DOMAIN script' /\ ~(i \in 1..b)
      BY <1>3, <1>8
    <3>2. QED
      BY <1>6, <1>7, <3>1 DEF About
  <2>3. QED
    BY <2>1, <2>2
<1>11. \A y \in Worth : y # x => About(y)' = About(y)
  <2> SUFFICES ASSUME NEW y \in Worth, y # x
               PROVE  ~(SaidAs(y) = SaidAs(x) /\ y.n = x.n)
    BY <1>9
  <2>1. CASE x \in Worth
    BY <1>1, <2>1, WorthKeys
  <2>2. CASE x \notin Worth
    <3>1. x.of = "vrf"
      BY <1>5, <2>2 DEF Belongs
    <3>2. SaidAs(x) = "vrf"
      BY <3>1 DEF SaidAs, Types
    <3>3. QED
      BY <1>1, <3>2, WorthNoVrf
  <2>3. QED
    BY <2>1, <2>2
<1>12. x \in Worth => About(x) = {} /\ About(x)' = (b + 1)..(b + Len(ls))
  <2>1. Waits(x)
    BY <1>0, <1>3 DEF Waits, InQueue
  <2>2. QED
    BY <1>1, <1>10, <2>1 DEF Once
\* What has not been printed yet is still waiting, and nothing else.
<1>13. /\ \A y : y # x => (InQueue(y)' <=> InQueue(y))
       /\ ~InQueue(x)' /\ ~DueSection(x.of)
       /\ \A t : DueSection(t)' <=> DueSection(t)
  <2>1. \A y : y # x => (InQueue(y)' <=> InQueue(y))
    BY <1>0, <1>2, <1>3 DEF InQueue
  <2>2. ~InQueue(x)'
    <3>1. \A i \in DOMAIN pending' : FALSE
      BY <1>2, <1>3
    <3>2. \A i \in DOMAIN sorted' : i + 1 # 1
      <4>1. sorted' \in Seq(Listed)
        BY <1>1 DEF TypeOK, Emit
      <4>2. QED
        BY <4>1
    <3>3. \A i \in DOMAIN sorted' : sorted'[i] # x
      BY <1>0, <1>1, <1>3, <3>2 DEF Queued, Distinct
    <3>4. QED
      BY <3>1, <3>3 DEF InQueue
  <2>3. ~DueSection(x.of)
    <3>1. \A s \in DOMAIN Sections : Sections[s] = x.of => s = section
      BY <1>4, <1>5, SectionsDiffer DEF Belongs
    <3>2. section \in Nat
      BY <1>1 DEF TypeOK
    <3>3. QED
      BY <1>4, <3>1, <3>2 DEF DueSection
  <2>4. \A t : DueSection(t)' <=> DueSection(t)
    BY <1>2 DEF DueSection
  <2>5. QED
    BY <2>1, <2>2, <2>3, <2>4
<1>14. Queued'
  <2>1. \A y : Belongs(y)' <=> Belongs(y)
    <3>1. Sections[section]' = Sections[section]
      BY <1>2 DEF Sections
    <3>2. QED
      BY <1>2, <3>1, WorthStays DEF Belongs
  <2>2. \A i \in DOMAIN sorted' : Belongs(sorted'[i])
    BY <1>1, <1>3 DEF Queued
  <2>3. \A i \in DOMAIN pending' : FALSE
    BY <1>2, <1>3
  <2>4. Distinct(sorted)'
    <3> SUFFICES ASSUME NEW i \in DOMAIN sorted', NEW j \in DOMAIN sorted',
                        sorted'[i] = sorted'[j]
                 PROVE  i = j
      BY DEF Distinct
    <3>1. i + 1 = j + 1
      BY <1>1, <1>3 DEF Queued, Distinct
    <3>2. i \in Nat /\ j \in Nat
      <4>1. sorted' \in Seq(Listed)
        BY <1>1 DEF TypeOK, Emit
      <4>2. QED
        BY <4>1
    <3>3. QED
      BY <3>1, <3>2
  <2>5. Distinct(pending)'
    BY <2>3 DEF Distinct
  <2>6. QED
    BY <1>1, <1>2, <2>1, <2>2, <2>3, <2>4, <2>5 DEF Queued
<1>15. Once'
  <2> SUFFICES ASSUME NEW y \in Worth PROVE Waits(y)' <=> About(y)' = {}
    BY <1>2, WorthStays DEF Once
  <2>1. CASE y = x
    <3>1. ~Waits(x)'
      BY <1>13 DEF Waits
    <3>2. b + 1 \in About(x)'
      BY <1>3, <1>12, <2>1
    <3>3. QED
      BY <2>1, <3>1, <3>2
  <2>2. CASE y # x
    BY <1>1, <1>11, <1>13, <2>2 DEF Once, Waits
  <2>3. QED
    BY <2>1, <2>2
<1>16. Wholes'
  <2> SUFFICES ASSUME NEW n \in Name, orig.sys[n] # Absent, About(Item(n))' # {}
               PROVE  Whole(Item(n), orig.sys[n])'
    BY <1>2, WorthStays DEF Wholes
  <2>0. PICK y, o : y = Item(n) /\ o = orig.sys[n]
    OBVIOUS
  <2>1. y \in Worth /\ Item(n)' = y /\ y.of = typeOf[n] /\ y.n = n /\ typeOf[n] \in Types
    BY <1>1, <1>2, <2>0, WorthStays, SystemType DEF Worth, Item
  <2>2. \A i \in DOMAIN script' : Shows(i)' = ShownBy(script'[i])
    BY DEF Shows, ShownBy
  <2>3. \A i \in DOMAIN script : Shows(i) = ShownBy(script[i])
    BY DEF Shows, ShownBy
  <2>4. Len(script') = b + Len(ls)
    <3>1. script' \in Seq(Commands)
      <4>1. script \in Seq(Commands) /\ ls \in Seq(Commands)
        BY <1>0, <1>1, <1>3, LinesRead DEF TypeOK
      <4>2. script' = script \o ls
        BY <1>0, <1>1 DEF Emit, TypeOK
      <4>3. QED
        BY <4>1, <4>2
    <3>2. QED
      BY <1>3, <3>1
  <2>5. CASE y = x
    <3>0. PICK r : r = seen[n]
      OBVIOUS
    <3>1. x.of \in Types /\ x.n = n /\ r # Absent /\ o # Absent /\ SameButUp(r, o)
      BY <1>3, <2>0, <2>1, <2>5, <3>0 DEF Good
    <3>2. r \in Interfaces /\ o \in Interfaces
      BY <1>1, <2>0, <3>0, <3>1, SystemType
    <3>3. r.addrs = o.addrs
      BY <3>1, <3>2, SameFields
    <3>4. ls = [i \in 1..LinesOf(r) |-> InterfaceLine(n, x.of, r, i)]
      BY <1>0, <3>0, <3>1 DEF Lines, LinesOf
    <3>5. LinesOf(r) = LinesOf(o)
      BY <3>3 DEF LinesOf
    <3>6. LinesOf(r) \in Nat /\ DOMAIN ls = 1..LinesOf(r)
      <4>1. r.addrs \in Seq(Addr)
        BY <3>2 DEF Interfaces
      <4>2. QED
        BY <3>4, <4>1 DEF LinesOf
    <3>7. Len(ls) = LinesOf(o)
      BY <1>3, <3>5, <3>6
    <3>8. \A i \in 1..LinesOf(o) : Shows(b + i)' = {o.addrs[j] : j \in DOMAIN o.addrs \cap {i}}
      <4> SUFFICES ASSUME NEW i \in 1..LinesOf(o)
                   PROVE  Shows(b + i)' = {o.addrs[j] : j \in DOMAIN o.addrs \cap {i}}
        OBVIOUS
      <4>1. script'[b + i] = InterfaceLine(n, x.of, r, i) /\ b + i \in DOMAIN script'
        <5>1. i \in 1..Len(ls) /\ i \in 1..LinesOf(r)
          BY <3>5, <3>7
        <5>2. script'[b + i] = ls[i] /\ b + i \in 1..(b + Len(ls))
          BY <1>3, <5>1
        <5>3. QED
          BY <1>3, <3>4, <5>1, <5>2
      <4>2. ShownBy(InterfaceLine(n, x.of, r, i)) = {r.addrs[j] : j \in DOMAIN r.addrs \cap {i}}
        BY <3>2, LineShows
      <4>3. QED
        BY <2>2, <3>3, <4>1, <4>2
    <3>9. About(y)' = (b + 1)..(b + LinesOf(o))
      BY <1>12, <2>1, <2>5, <3>7
    <3>10. b \in 0..Len(script')
      BY <1>3, <2>4
    <3>11. QED
      <4>1. Whole(y, o)'
        BY <3>8, <3>9, <3>10 DEF Whole
      <4>2. QED
        BY <1>2, <2>0, <2>1, <4>1
  <2>6. CASE y # x
    <3>1. About(y)' = About(y)
      BY <1>11, <2>1, <2>6
    <3>2. Whole(y, o)
      <4>1. About(Item(n)) # {}
        BY <2>0, <2>1, <3>1
      <4>2. QED
        BY <1>1, <2>0, <4>1 DEF Wholes
    <3>3. PICK c \in 0..Len(script) :
            /\ About(y) = (c + 1)..(c + LinesOf(o))
            /\ \A i \in 1..LinesOf(o) :
                 Shows(c + i) = {o.addrs[j] : j \in DOMAIN o.addrs \cap {i}}
      BY <3>2 DEF Whole
    <3>4. c \in 0..Len(script')
      BY <1>0, <1>3, <2>4, <3>3
    <3>5. \A i \in 1..LinesOf(o) : Shows(c + i)' = Shows(c + i)
      <4> SUFFICES ASSUME NEW i \in 1..LinesOf(o) PROVE Shows(c + i)' = Shows(c + i)
        OBVIOUS
      <4>1. LinesOf(o) \in Nat
        <5>1. o.addrs \in Seq(Addr)
          BY <1>1, <2>0, SystemType DEF Interfaces
        <5>2. QED
          BY <5>1 DEF LinesOf
      <4>2. c + i \in About(y)
        BY <3>3, <4>1
      <4>3. c + i \in DOMAIN script /\ c + i \in DOMAIN script'
        BY <1>3, <1>8, <4>2 DEF About
      <4>4. QED
        BY <1>3, <2>2, <2>3, <4>3
    <3>6. QED
      <4>1. Whole(y, o)'
        BY <3>1, <3>3, <3>4, <3>5 DEF Whole
      <4>2. QED
        BY <1>2, <2>0, <2>1, <4>1
  <2>7. QED
    BY <2>5, <2>6
<1>17. Genuine'
  <2> SUFFICES ASSUME NEW i \in DOMAIN script', script'[i].of \in Targets \ {"vrf"}
               PROVE  [of |-> script'[i].of, n |-> script'[i].n, fib |-> 0, shown |-> TRUE] \in orig.entries
    BY <1>2 DEF Genuine
  <2>1. CASE i \in 1..b /\ script'[i] = script[i]
    BY <1>1, <1>3, <2>1 DEF Genuine
  <2>2. CASE i - b \in DOMAIN ls /\ script'[i] = ls[i - b]
    <3>1. script'[i].of = SaidAs(x) /\ script'[i].n = x.n
      BY <1>6, <2>2
    <3>2. x.of \notin Types
      BY <3>1, TypesTargets DEF SaidAs
    <3>3. script'[i].of = x.of
      BY <3>1, <3>2 DEF SaidAs
    <3>4. x \in Worth
      BY <1>5, <3>3 DEF Belongs
    <3>5. x \in orig.entries /\ x = [of |-> x.of, n |-> x.n, fib |-> 0, shown |-> TRUE]
      BY <1>1, <3>3, <3>4, WorthShape
    <3>6. QED
      BY <3>1, <3>3, <3>5
  <2>3. QED
    BY <1>7, <2>1, <2>2
<1>18. NoVrf'
  BY <1>1, <1>2 DEF NoVrf
<1>19. Tiers'
  <2>1. /\ \A n : ParentIsVlan(n)' <=> ParentIsVlan(n)
        /\ Sections[section]' = Sections[section] /\ Writing' = Writing
    BY <1>2 DEF ParentIsVlan, ParentOf, Writing, Sections
  <2> SUFFICES ASSUME Writing, Sections[section] = "vlan",
                      NEW i \in DOMAIN sorted', NEW j \in DOMAIN sorted',
                      i < j, ParentIsVlan(sorted'[i].n)
               PROVE  ParentIsVlan(sorted'[j].n)
    BY <2>1 DEF Tiers
  <2>2. i \in Nat /\ j \in Nat
    <3>1. sorted' \in Seq(Listed)
      BY <1>1 DEF TypeOK, Emit
    <3>2. QED
      BY <3>1
  <2>3. i + 1 < j + 1
    BY <2>2
  <2>4. QED
    BY <1>1, <1>3, <2>3 DEF Tiers
<1>20. Ordered'
  <2> SUFFICES ASSUME Shallow, NEW n \in Name, IsVlan(n), NEW p \in VlanParents(n)
               PROVE  /\ LinesAbout(n)' # {} => LinesAbout(p)' # {}
                      /\ \A i \in LinesAbout(n)', j \in LinesAbout(p)' : j < i
    BY <1>2, WorthStays DEF Ordered
  <2>1. p \in Name /\ IsVlan(p) /\ VlanParents(p) = {} /\ p # n
    BY DEF Shallow, VlanParents
  <2>2. /\ Item(n) \in Worth /\ Item(p) \in Worth /\ Item(n) # Item(p)
        /\ Item(n)' = Item(n) /\ Item(p)' = Item(p)
        /\ Item(n).of = "vlan" /\ Item(p).of = "vlan" /\ Item(n).n = n /\ Item(p).n = p
    BY <1>2, <2>1, WorthStays DEF Worth, Item, IsVlan
  <2>3. /\ About(Item(n)) = LinesAbout(n) /\ About(Item(p)) = LinesAbout(p)
    BY <1>1, <2>1, AboutInterface
  <2>4. /\ About(Item(n))' = LinesAbout(n)' /\ About(Item(p))' = LinesAbout(p)'
    <3>1. SaidAs(Item(n)) = "interface" /\ SaidAs(Item(p)) = "interface"
      BY <2>2 DEF SaidAs, Types
    <3>2. QED
      BY <2>2, <3>1 DEF About, LinesAbout
  <2>5. /\ LinesAbout(n) # {} => LinesAbout(p) # {}
        /\ \A i \in LinesAbout(n), j \in LinesAbout(p) : j < i
    BY <1>1 DEF Ordered
  <2>6. CASE x = Item(n)
    <3>1. LinesAbout(p)' = LinesAbout(p)
      BY <1>11, <2>2, <2>3, <2>4, <2>6
    <3>2. LinesAbout(n)' = (b + 1)..(b + Len(ls))
      BY <1>12, <2>2, <2>4, <2>6
    <3>3. ~Waits(Item(p))
      <4>1. ~DueSection(Item(p).of)
        BY <1>13, <2>2, <2>6
      <4>2. ASSUME NEW j \in DOMAIN sorted, sorted[j] = Item(p) PROVE FALSE
        <5>1. j # 1 /\ sorted[1].n = n /\ sorted[j].n = p
          BY <1>0, <2>2, <2>6, <4>2
        <5>2. 1 < j
          <6>1. sorted \in Seq(Listed)
            BY <1>1 DEF TypeOK
          <6>2. QED
            BY <5>1, <6>1
        <5>3. \A m \in Name : SameButUp(seen[m], orig.sys[m])
          BY <1>1, <1>4 DEF Queued
        <5>4. ParentIsVlan(n)
          BY <1>1, <5>3, NestedSeen DEF IsVlan
        <5>5. Sections[section] = "vlan"
          BY <1>5, <2>2, <2>6 DEF Belongs
        <5>6. ParentIsVlan(p)
          BY <1>1, <1>3, <1>4, <5>1, <5>2, <5>4, <5>5 DEF Tiers
        <5>7. QED
          BY <1>1, <2>1, <5>3, <5>6, NestedSeen DEF IsVlan
      <4>3. \A j \in DOMAIN pending : FALSE
        BY <1>3
      <4>4. QED
        BY <4>1, <4>2, <4>3 DEF Waits, InQueue
    <3>4. LinesAbout(p) # {}
      BY <1>1, <2>2, <2>3, <3>3 DEF Once
    <3>5. LinesAbout(p) \subseteq 1..b
      BY <1>3 DEF LinesAbout
    <3>6. QED
      BY <1>3, <3>1, <3>2, <3>4, <3>5
  <2>7. CASE x = Item(p)
    <3>1. LinesAbout(p) = {}
      BY <1>12, <2>2, <2>3, <2>7
    <3>2. LinesAbout(n)' = {}
      BY <1>11, <2>2, <2>3, <2>4, <2>5, <2>7, <3>1
    <3>3. QED
      BY <3>2
  <2>8. CASE x # Item(n) /\ x # Item(p)
    <3>1. LinesAbout(p)' = LinesAbout(p) /\ LinesAbout(n)' = LinesAbout(n)
      BY <1>11, <2>2, <2>3, <2>4, <2>8
    <3>2. QED
      BY <2>5, <3>1
  <2>9. QED
    BY <2>6, <2>7, <2>8
<1>21. QED
  BY <1>14, <1>15, <1>16, <1>17, <1>18, <1>19, <1>20 DEF ScriptInv

LEMMA ScriptInvHolds == Spec => []ScriptInv
<1>1. Init => ScriptInv
  BY InitScript
<1>2. IInv /\ ScriptInv /\ [Next]_vars => ScriptInv'
  <2> SUFFICES ASSUME IInv, ScriptInv, [Next]_vars PROVE ScriptInv'
    OBVIOUS
  <2>1. ASSUME NEW c \in Typed, Type(c) PROVE ScriptInv'
    <3>1. UNCHANGED <<typeOf, orig, generator>>
      <4>1. phase = "typing" /\ UNCHANGED <<typeOf, orig, generator>>
        BY <2>1 DEF Type
      <4>2. QED
        BY <4>1
    <3>2. Execute(c)
      BY <2>1 DEF Type
    <3>3. QED
      BY <3>1, <3>2, ExecuteScript
  <2>2. CASE Run
    <3>1. Execute(script[next]) /\ UNCHANGED <<typeOf, orig, generator>>
      BY <2>2 DEF Run
    <3>2. QED
      BY <3>1, ExecuteScript
  <2>3. CASE Again \/ UNCHANGED vars
    <3>1. UNCHANGED <<typeOf, orig, generator>> /\ entries' = entries
      BY <2>3 DEF Again, vars, system
    <3>2. NoVrf'
      BY <3>1 DEF ScriptInv, NoVrf
    <3>3. QED
      BY <3>1, <3>2, QuietScript
  <2>4. QED
    BY <2>1, <2>2, <2>3, GenerateScript, FetchScript, ArrangeScript, EmitScript,
       NextSectionScript, RebootScript DEF Next
<1>3. QED
  BY <1>1, <1>2, Invariance, PTL DEF Spec

\* When `net -g` has finished, everything that was there has been printed.
LEMMA NothingWaits ==
  ASSUME IInv, ScriptInv, Complete, NEW x \in Worth
  PROVE  About(x) # {}
<1>1. TypeOK /\ Phases /\ Once
  BY DEF IInv, ScriptInv
<1>2. section \in Nat /\ section > 22
  BY <1>1, SectionsDomain DEF TypeOK, Complete
<1>3. ~fetched /\ pending = <<>> /\ sorted = <<>>
  <2>1. ~Writing
    BY <1>2, SectionsDomain DEF Writing
  <2>2. QED
    BY <1>1, <2>1 DEF Phases
<1>4. ~Waits(x)
  BY <1>2, <1>3, SectionsDomain DEF Waits, InQueue, DueSection
<1>5. QED
  BY <1>1, <1>4 DEF Once

\* `net -g`, however its sections list and whatever runs meanwhile: each interface
\* that was there has one line for each of its addresses, each entry of FIB 0 worth
\* it has one, and there is no other: none for a route of another FIB only.
THEOREM ScriptIsComplete == Spec => []ScriptComplete
<1>1. IInv /\ ScriptInv => ScriptComplete
  <2> SUFFICES ASSUME IInv, ScriptInv, Complete
               PROVE  /\ \A n \in Name :
                           LET o == orig.sys[n] IN
                           IF o = Absent THEN LinesAbout(n) = {}
                           ELSE /\ UNION {Shows(i) : i \in LinesAbout(n)}
                                     = {o.addrs[j] : j \in DOMAIN o.addrs}
                                /\ Cardinality(LinesAbout(n))
                                     = IF o.addrs = <<>> THEN 1 ELSE Len(o.addrs)
                      /\ {[of |-> script[i].of, n |-> script[i].n, fib |-> 0, shown |-> TRUE] :
                            i \in {j \in DOMAIN script : script[j].of \in Targets \ {"vrf"}}}
                           = {e \in orig.entries : e.shown /\ e.fib = 0}
    BY DEF ScriptComplete
  <2>1. TypeOK /\ Scripted /\ Wholes /\ Genuine /\ NoVrf
    BY DEF IInv, ScriptInv
  <2>2. ASSUME NEW n \in Name, orig.sys[n] = Absent PROVE LinesAbout(n) = {}
    BY <2>1, <2>2, TypesTargets DEF LinesAbout, Scripted, Reads
  <2>3. ASSUME NEW n \in Name, orig.sys[n] # Absent
        PROVE  /\ UNION {Shows(i) : i \in LinesAbout(n)}
                    = {orig.sys[n].addrs[j] : j \in DOMAIN orig.sys[n].addrs}
               /\ Cardinality(LinesAbout(n)) = LinesOf(orig.sys[n])
    <3>0. PICK o : o = orig.sys[n]
      OBVIOUS
    <3>1. Item(n) \in Worth
      BY <2>3 DEF Worth
    <3>2. LinesAbout(n) # {} /\ About(Item(n)) = LinesAbout(n)
      BY <2>1, <3>1, NothingWaits, AboutInterface
    <3>3. Whole(Item(n), o)
      BY <2>1, <2>3, <3>0, <3>2 DEF Wholes
    <3>4. PICK b \in 0..Len(script) :
            /\ LinesAbout(n) = (b + 1)..(b + LinesOf(o))
            /\ \A i \in 1..LinesOf(o) :
                 Shows(b + i) = {o.addrs[j] : j \in DOMAIN o.addrs \cap {i}}
      BY <3>2, <3>3 DEF Whole
    <3>5. b \in Nat
      <4>1. script \in Seq(Commands)
        BY <2>1 DEF TypeOK
      <4>2. QED
        BY <4>1
    <3>6. o.addrs \in Seq(Addr)
      BY <2>1, <2>3, <3>0, SystemType DEF Interfaces
    <3>7. /\ LinesOf(o) \in Nat /\ LinesOf(o) >= 1
          /\ DOMAIN o.addrs \subseteq 1..LinesOf(o)
      BY <3>6 DEF LinesOf
    <3>8. Cardinality(LinesAbout(n)) = LinesOf(o)
      <4>1. PICK l \in Int, h \in Int :
              l = b + 1 /\ h = b + LinesOf(o) /\ l <= h /\ h - l + 1 = LinesOf(o)
        BY <3>5, <3>7
      <4>2. Cardinality(l..h) = h - l + 1
        BY <4>1, FS_Interval
      <4>3. LinesAbout(n) = l..h
        BY <3>4, <4>1
      <4>4. QED
        BY <4>1, <4>2, <4>3
    <3>9. \A v : v \in UNION {Shows(i) : i \in LinesAbout(n)}
                   <=> v \in {o.addrs[j] : j \in DOMAIN o.addrs}
      <4>1. ASSUME NEW i \in LinesAbout(n), NEW v \in Shows(i)
            PROVE  v \in {o.addrs[j] : j \in DOMAIN o.addrs}
        <5>1. i - b \in 1..LinesOf(o) /\ b + (i - b) = i
          BY <3>4, <3>5, <3>7
        <5>2. Shows(i) = {o.addrs[j] : j \in DOMAIN o.addrs \cap {i - b}}
          BY <3>4, <5>1
        <5>3. QED
          BY <4>1, <5>2
      <4>2. ASSUME NEW j \in DOMAIN o.addrs
            PROVE  \E i \in LinesAbout(n) : o.addrs[j] \in Shows(i)
        <5>1. b + j \in LinesAbout(n) /\ j \in 1..LinesOf(o)
          BY <3>4, <3>5, <3>7
        <5>2. Shows(b + j) = {o.addrs[l] : l \in DOMAIN o.addrs \cap {j}}
          BY <3>4, <5>1
        <5>3. QED
          BY <5>1, <5>2
      <4>3. QED
        BY <4>1, <4>2
    <3>10. QED
      BY <3>0, <3>8, <3>9
  <2>4. \A e : e \in {[of |-> script[i].of, n |-> script[i].n, fib |-> 0, shown |-> TRUE] :
                        i \in {j \in DOMAIN script : script[j].of \in Targets \ {"vrf"}}}
               <=> e \in {f \in orig.entries : f.shown /\ f.fib = 0}
    <3>1. ASSUME NEW i \in DOMAIN script, script[i].of \in Targets \ {"vrf"}
          PROVE  [of |-> script[i].of, n |-> script[i].n, fib |-> 0, shown |-> TRUE]
                   \in {f \in orig.entries : f.shown /\ f.fib = 0}
      BY <2>1, <3>1 DEF Genuine
    <3>2. ASSUME NEW e \in orig.entries, e.shown, e.fib = 0
          PROVE  \E i \in DOMAIN script :
                   /\ script[i].of \in Targets \ {"vrf"}
                   /\ e = [of |-> script[i].of, n |-> script[i].n, fib |-> 0, shown |-> TRUE]
      <4>1. e \in Worth
        BY <3>2 DEF Worth
      <4>2. e.of \in Targets
        BY <2>1 DEF TypeOK, Entries
      <4>3. e.of # "vrf" /\ e.of \notin Types /\ e = [of |-> e.of, n |-> e.n, fib |-> 0, shown |-> TRUE]
        BY <2>1, <4>1, <4>2, WorthNoVrf, WorthShape, TypesTargets
      <4>4. PICK i \in About(e) : TRUE
        BY <4>1, NothingWaits
      <4>5. i \in DOMAIN script /\ script[i].of = e.of /\ script[i].n = e.n
        BY <4>3 DEF About, SaidAs
      <4>6. QED
        BY <4>2, <4>3, <4>5
    <3>3. QED
      BY <3>1, <3>2
  <2>5. QED
    <3>1. \A n \in Name : orig.sys[n] # Absent =>
            Cardinality(LinesAbout(n)) = IF orig.sys[n].addrs = <<>> THEN 1 ELSE Len(orig.sys[n].addrs)
      BY <2>3 DEF LinesOf
    <3>2. {[of |-> script[i].of, n |-> script[i].n, fib |-> 0, shown |-> TRUE] :
             i \in {j \in DOMAIN script : script[j].of \in Targets \ {"vrf"}}}
            = {e \in orig.entries : e.shown /\ e.fib = 0}
      BY <2>4
    <3>3. QED
      BY <2>2, <2>3, <3>1, <3>2
<1>2. QED
  BY <1>1, Invariance, ScriptInvHolds, PTL

\* generateVLANs prints a VLAN after the VLANs it is in, whatever the order of the
\* listing, when they go two deep at most.
THEOREM ParentsComeFirst == Spec => []ParentsFirst
<1>1. ScriptInv => ParentsFirst
  BY DEF ScriptInv, Ordered, ParentsFirst
<1>2. QED
  BY <1>1, ScriptInvHolds, PTL

=============================================================================
