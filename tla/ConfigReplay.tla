---------------------------- MODULE ConfigReplay ----------------------------
(***************************************************************************)
(* `net -g`: the configuration of the running system written as commands,  *)
(* and those commands run again: through a pipe while they are still being *)
(* written (`net -g | net`), or from a file after a restart of the system, *)
(* as often as one likes.                                                  *)
(*                                                                         *)
(* A command is one step and its system calls succeed, but for setting a   *)
(* FIB the kernel does not have: InterfaceManager is about the rest.       *)
(* Values that nothing tells apart (status, type names) are Word.          *)
(***************************************************************************)
EXTENDS CommandLanguage, FiniteSets

CONSTANTS
  Name,               \* interface names
  TypesOf,            \* the types a name may have
  Value,              \* values of clauses, but for numbers
  Addr, Group, Word,  \* addresses, groups, any other word
  Mtu, DefaultMtu,
  BootFibs, MaxFibs,  \* net.fibs after a restart, and the most it may be
  Cloneable,          \* the types SIOCIFCREATE can make
  Typed,              \* the commands that may be typed
  MaxTyped,           \* bound on how many are
  Learned,            \* the entries that nobody configured
  Absent              \* no such interface

Fib == 0..MaxFibs
Clauses == [kw : Keywords, val : SUBSET (Value \cup Nat)]
Commands == [of : Targets \cup {"interface"}, n : Value \cup Nat,
             as : Types \cup {"unknown"}, clauses : Seq(Clauses)]
Settings == [kw : Keywords, val : Value \cup Nat]
Interfaces == [up : BOOLEAN, mtu : Mtu, vrf : Fib, addrs : Seq(Addr),
               groups : Seq(Group), own : SUBSET Settings]
Entries == [of : Targets, n : Value \cup Nat, fib : Fib, shown : BOOLEAN]

ASSUME Shape ==
  /\ TypesOf \in [Name -> SUBSET Types]
  /\ Name \cup Addr \cup Group \cup {Word} \subseteq Value
  /\ Mtu \subseteq Nat /\ DefaultMtu \in Mtu
  /\ MaxTyped \in Nat
  /\ BootFibs \in Nat \ {0} /\ MaxFibs \in Nat /\ BootFibs <= MaxFibs
  /\ Cloneable \subseteq Types \ {"ethernet"}
  /\ Learned \subseteq Entries /\ \A e \in Learned : ~e.shown
  /\ Absent \notin Interfaces

\* What may be typed: an interface is named, and what is given with a generic
\* keyword fits it.
ASSUME TypedShape ==
  /\ Typed \subseteq Commands
  /\ \A c \in Typed :
       /\ c.of = "interface" => c.n \in Name
       /\ c.of # "interface" => c.n \in Value
       /\ Given(c, "inet") \subseteq Addr /\ Given(c, "group") \subseteq Group
       /\ Given(c, "mtu") \subseteq Mtu /\ Given(c, "vrf") \subseteq Nat
       /\ \A k \in {"inet", "group", "mtu", "vrf"} :
            \A a, b \in Given(c, k) : a = b

Fresh == [up |-> FALSE, mtu |-> DefaultMtu, vrf |-> 0, addrs |-> <<>>,
          groups |-> <<>>, own |-> {}]

\* ConfigurationGenerator::generateConfiguration
Sections == <<"vrf", "loopback", "ethernet", "bridge", "lagg", "vlan", "tun",
              "gif", "ovpn", "ipsec", "gre", "vxlan", "wlan", "carp", "tap",
              "pflog", "pfsync", "wg", "stf", "route", "arp", "ndp">>

VARIABLES
  typeOf,    \* the type of each name; never changes
  sys,       \* the interfaces of the kernel
  fibs,      \* net.fibs
  entries,   \* routes, ARP and NDP entries
  typed,     \* how many commands were typed
  phase,     \* "typing", "live", or "rebooted"
  section,   \* the section `net -g` is writing; 0 before it began
  fetched,   \* the section's listing has been taken
  seen,      \* the system as that listing found it
  pending,   \* the listing, as far as it is not yet sorted
  sorted,    \* the rest of it, sorted and not yet printed
  script,    \* the commands printed
  next,      \* the command of the script to run next
  orig       \* the system when `net -g` began; read by the properties only

system == <<sys, fibs, entries>>
generator == <<section, fetched, seen, pending, sorted, script>>
vars == <<typeOf, system, typed, phase, generator, next, orig>>

Present(n) == sys[n] # Absent

-----------------------------------------------------------------------------
(* set                                                                     *)

\* The handler of the type given, else of the type found.
Handled(c) == typeOf[c.n] # "ethernet" /\ (c.as # "unknown" \/ Present(c.n))

\* The handler prints its usage, or a save throws before it did anything.
Refused(c) ==
  \/ Handled(c) /\ ~(Needs(typeOf[c.n]) \subseteq GivenKeys(c))
  \/ ~Present(c.n) /\ typeOf[c.n] \notin Cloneable

\* These saves only create the interface, without the generic settings.
OnlyCreated(c) == Handled(c) /\ ~Present(c.n) /\ BackendOf(typeOf[c.n]).late

\* An ipsec interface gets its endpoints both or not at all.
Kept(t, c) ==
  {k \in BackendOf(t).keeps \cap GivenKeys(c) :
     t = "ipsec" /\ k \in Endpoints => Endpoints \subseteq GivenKeys(c)}

Lists == {"member", "members"}

WithOwn(r, t, c) ==
  [r EXCEPT !.own = {s \in @ : s.kw \in Lists \/ s.kw \notin Kept(t, c)} \cup
     UNION {{[kw |-> k, val |-> v] : v \in Given(c, k)} : k \in Kept(t, c)}]

\* s with the elements of a set of at most one added, unless they are there.
Added(s, S) ==
  IF S \subseteq {s[i] : i \in DOMAIN s} THEN s
  ELSE Append(s, CHOOSE x \in S : TRUE)

Or(S, v) == IF S = {} THEN v ELSE CHOOSE x \in S : TRUE

\* Mutant: an MTU not given is reset.
WithLinkReset(r, c) ==
  [r EXCEPT !.addrs = Added(@, Given(c, "inet")),
            !.mtu = Or(Given(c, "mtu"), DefaultMtu), !.up = TRUE]
\* SaveInterface, up to the FIB: addresses are added, an MTU is set if given,
\* and the interface is brought up whatever the status given.
WithLink(r, c) ==
  [r EXCEPT !.addrs = Added(@, Given(c, "inet")), !.mtu = Or(Given(c, "mtu"), @),
            !.up = TRUE]

\* The FIB, unless it is 0, and the groups: the last one given.
WithFib(r, c) ==
  [r EXCEPT !.vrf = Or(Given(c, "vrf") \ {0}, @),
            !.groups = Added(@, Given(c, "group"))]

Found(n) == IF Present(n) THEN sys[n] ELSE Fresh
\* Mutant: the kernel would take FIBs beyond net.fibs.
FibRefusedNever(c) == FALSE
FibRefused(c) == \E v \in Given(c, "vrf") : v >= fibs

\* The interface as the command leaves it.
Saved(c) ==
  LET n == c.n
      link == WithLink(Found(n), c) IN
  IF OnlyCreated(c) THEN WithOwn(Fresh, typeOf[n], c)
  ELSE IF FibRefused(c) THEN link
  ELSE IF Handled(c) THEN WithOwn(WithFib(link, c), typeOf[n], c)
  ELSE WithFib(link, c)

SetInterface(c) ==
  /\ c.of = "interface"
  /\ sys' = IF Refused(c) THEN sys ELSE [sys EXCEPT ![c.n] = Saved(c)]
  /\ UNCHANGED <<fibs, entries>>

\* A route or a neighbour needs what its target needs, or nothing is set; only
\* published ARP entries are exported.  A route is put into the FIB given; one the
\* kernel does not have is not, and nobody looks: the process is in FIB 0.  A VRF
\* is never set: CreateVrf is empty.
FibOf(c) == Or(Given(c, "vrf") \cap 0..(fibs - 1), 0)

SetEntry(c) ==
  /\ c.of \in Targets
  /\ entries' =
       IF c.of = "vrf" \/ ~(Needs(c.of) \subseteq GivenKeys(c)) THEN entries
       ELSE entries \cup {[of |-> c.of, n |-> d, fib |-> FibOf(c),
                           shown |-> (c.of = "arp" => "pub" \in GivenKeys(c))] :
                             d \in Given(c, IF c.of = "route" THEN "dest" ELSE "ip")}
  /\ UNCHANGED <<sys, fibs>>

Execute(c) == SetInterface(c) \/ SetEntry(c)

\* The administrator builds the configuration.
Type(c) ==
  /\ phase = "typing" /\ typed < MaxTyped
  /\ c.of = "interface" => c.as \in {"unknown", typeOf[c.n]}
  /\ Execute(c)
  /\ typed' = typed + 1
  /\ UNCHANGED <<typeOf, phase, generator, next, orig>>

-----------------------------------------------------------------------------
(* Printing: InterfaceToken::toString and the printers of the types        *)

Held(r, k) == {s.val : s \in {x \in r.own : x.kw = k}}

\* The type-specific settings, as far as the backend reads them back.
OwnClauses(t, r) ==
  [i \in DOMAIN dispatch(t).prints |->
     LET k == dispatch(t).prints[i] IN
     Clause(PrintedAs(k), IF k \in BackendOf(t).loads THEN Held(r, k) ELSE {})]

GroupClauses(r) == [i \in DOMAIN r.groups |-> Clause("group", {r.groups[i]})]

\* Mutant: the MTU is left out.
GenericNoMtu(t, r, a) ==
  <<Clause("type", IF t = "ethernet" THEN {} ELSE {Word}), Clause("vrf", {r.vrf}),
    Clause("mtu", {}), Clause("address", a), Clause("status", {Word})>>
\* Ethernet has no type word, for it has no handler.
GenericClauses(t, r, a) ==
  <<Clause("type", IF t = "ethernet" THEN {} ELSE {Word}), Clause("vrf", {r.vrf}),
    Clause("mtu", {r.mtu}), Clause("address", a), Clause("status", {Word})>>

\* `interface name n ...`, with its i-th address; the lines of the aliases are
\* those of a plain InterfaceConfig.
InterfaceLine(n, t, r, i) ==
  [of |-> "interface", n |-> n, as |-> "unknown",
   clauses |->
     GenericClauses(t, r, {r.addrs[j] : j \in DOMAIN r.addrs \cap {i}})
       \o GroupClauses(r)
       \o (IF i = 1 THEN OwnClauses(t, r) ELSE <<>>)]

EntryLine(e) ==
  [of |-> e.of, n |-> e.n, as |-> "unknown",
   clauses |-> [i \in DOMAIN dispatch(e.of).prints |->
                  LET k == dispatch(e.of).prints[i] IN
                  Clause(k, {IF k \in {"dest", "entry", "fibnum"} THEN e.n ELSE Word})]]

\* What a section lists; GetRoutes without a VRF those of FIB 0.
Items(s) ==
  IF s \in Types
    THEN {[of |-> s, n |-> m, fib |-> 0, shown |-> TRUE] :
            m \in {n \in Name : typeOf[n] = s /\ Present(n)}}
  ELSE IF s = "vrf" THEN {[of |-> s, n |-> fibs, fib |-> 0, shown |-> TRUE]}
  ELSE {e \in entries : e.of = s /\ e.shown /\ e.fib = 0}

\* Mutant: the aliases are left out.
LinesPrimary(x) ==
  IF x.of \in Types THEN <<InterfaceLine(x.n, x.of, seen[x.n], 1)>> ELSE <<EntryLine(x)>>
Lines(x) ==
  IF x.of \in Types
    THEN LET r == seen[x.n] IN
         [i \in 1..(IF r.addrs = <<>> THEN 1 ELSE Len(r.addrs)) |->
            InterfaceLine(x.n, x.of, r, i)]
  ELSE <<EntryLine(x)>>

-----------------------------------------------------------------------------
(* generateVLANs: std::stable_sort with this comparison, by which a VLAN   *)
(* comes after its parent; the other sections print in the order listed.   *)

ParentOf(n) == Held(seen[n], "parent")
ParentIsVlan(n) ==
  \E p \in ParentOf(n) \cap Name : typeOf[p] = "vlan" /\ seen[p] # Absent

\* Mutant: the order listed is kept.
BeforeNever(x, y) == FALSE
Before(x, y) ==
  /\ x.of = "vlan"
  /\ \/ x.n \in ParentOf(y.n)
     \/ y.n \notin ParentOf(x.n) /\ ParentIsVlan(y.n) /\ ~ParentIsVlan(x.n)

\* Insertion into s, as std::stable_sort does for up to 128 elements: x goes
\* right after the last element it need not precede.
InsertAt(s, x, k) ==
  /\ k # 0 => ~Before(x, s[k])
  /\ \A j \in (k + 1)..Len(s) : Before(x, s[j])

-----------------------------------------------------------------------------
(* net -g                                                                  *)

Generate ==
  /\ phase = "typing"
  /\ phase' = "live" /\ section' = 1
  /\ orig' = [sys |-> sys, entries |-> entries]
  /\ UNCHANGED <<typeOf, system, typed, fetched, seen, pending, sorted, script, next>>

Writing == section \in DOMAIN Sections

\* A section lists the system anew, in the order of a hash map; a listing is
\* finite.
Fetch ==
  /\ Writing /\ ~fetched
  /\ fetched' = TRUE /\ seen' = sys
  /\ LET S == Items(Sections[section]) IN
       IsFiniteSet(S) /\ \E s \in [1..Cardinality(S) -> S] :
         S = {s[i] : i \in DOMAIN s} /\ pending' = s
  /\ UNCHANGED <<typeOf, system, typed, phase, section, sorted, script, next, orig>>

Arrange ==
  /\ pending # <<>>
  /\ \E k \in 0..Len(sorted) :
       /\ InsertAt(sorted, Head(pending), k)
       /\ sorted' = SubSeq(sorted, 1, k) \o <<Head(pending)>>
                      \o SubSeq(sorted, k + 1, Len(sorted))
  /\ pending' = Tail(pending)
  /\ UNCHANGED <<typeOf, system, typed, phase, section, fetched, seen, script, next, orig>>

Emit ==
  /\ pending = <<>> /\ sorted # <<>>
  /\ script' = script \o Lines(Head(sorted))
  /\ sorted' = Tail(sorted)
  /\ UNCHANGED <<typeOf, system, typed, phase, section, fetched, seen, pending, next, orig>>

NextSection ==
  /\ Writing /\ fetched /\ pending = <<>> /\ sorted = <<>>
  /\ section' = section + 1 /\ fetched' = FALSE
  /\ UNCHANGED <<typeOf, system, typed, phase, seen, pending, sorted, script, next, orig>>

-----------------------------------------------------------------------------
(* Running the commands                                                    *)

\* main reads line by line; one that fails does not stop those after it.
Run ==
  /\ next <= Len(script)
  /\ Execute(script[next])
  /\ next' = next + 1
  /\ UNCHANGED <<typeOf, typed, phase, generator, orig>>

Complete == section > Len(Sections)

\* The file is run once more.
Again ==
  /\ Complete /\ next > Len(script) /\ next # 1
  /\ next' = 1
  /\ UNCHANGED <<typeOf, system, typed, phase, generator, orig>>

Boot(n) == IF typeOf[n] = "ethernet" THEN Fresh ELSE Absent

\* The system restarts; then, or when it restarts in the middle of that, the
\* file is run.
Reboot ==
  /\ Complete
  /\ phase' = "rebooted"
  /\ sys' = [n \in Name |-> Boot(n)]
  /\ fibs' = BootFibs
  /\ entries' = Learned
  /\ next' = 1
  /\ UNCHANGED <<typeOf, typed, generator, orig>>

\* Other tools may have made the interfaces that net cannot make.
Init ==
  /\ typeOf \in [Name -> Types] /\ \A n \in Name : typeOf[n] \in TypesOf[n]
  /\ sys \in [Name -> {Fresh, Absent}]
  /\ \A n \in Name : \/ typeOf[n] \notin Cloneable \cup {"ethernet"}
                      \/ sys[n] = Boot(n)
  /\ fibs \in {BootFibs, MaxFibs}
  /\ entries = Learned
  /\ typed = 0 /\ phase = "typing" /\ section = 0 /\ fetched = FALSE
  /\ seen = [n \in Name |-> Absent]
  /\ pending = <<>> /\ sorted = <<>> /\ script = <<>> /\ next = 1
  /\ orig = [sys |-> [n \in Name |-> Absent], entries |-> {}]

Next ==
  \/ \E c \in Typed : Type(c)
  \/ Generate \/ Fetch \/ Arrange \/ Emit \/ NextSection
  \/ Run \/ Again \/ Reboot

Spec == Init /\ [][Next]_vars

-----------------------------------------------------------------------------
(* Properties                                                              *)

Listed == [of : Types \cup Targets, n : Value \cup Nat, fib : Fib, shown : BOOLEAN]

\* The type invariant; no interface is in a FIB the kernel does not have.
TypeOK ==
  /\ typeOf \in [Name -> Types]
  /\ sys \in [Name -> Interfaces \cup {Absent}]
  /\ \A n \in Name : Present(n) => sys[n].vrf < fibs
  /\ fibs \in BootFibs..MaxFibs /\ entries \subseteq Entries
  /\ typed \in 0..MaxTyped /\ phase \in {"typing", "live", "rebooted"}
  /\ section \in 0..(Len(Sections) + 1) /\ fetched \in BOOLEAN
  /\ seen \in [Name -> Interfaces \cup {Absent}]
  /\ pending \in Seq(Listed) /\ sorted \in Seq(Listed)
  /\ script \in Seq(Commands) /\ next \in 1..(Len(script) + 1)
  /\ orig \in [sys : [Name -> Interfaces \cup {Absent}], entries : SUBSET Entries]

\* r with the administrative state of q.
SameButUp(r, q) ==
  \/ r = q
  \/ r # Absent /\ q # Absent /\ r.up /\ [r EXCEPT !.up = q.up] = q

\* Running the commands of `net -g` on the system they describe, while they are
\* still being written and however often, changes nothing but that interfaces
\* that were down come up (SaveInterface sets IFF_UP, whatever the status).
LiveReplayOnlyBringsUp ==
  phase = "live" =>
    /\ entries = orig.entries
    /\ \A n \in Name : SameButUp(sys[n], orig.sys[n])

\* What is left of an interface: of a cloned one its existence; of Ethernet the
\* MTU and the FIB, if the kernel still has it, and the last group, if the line
\* did not end before it at an address.
Restored(n) ==
  LET o == orig.sys[n]
      eth == typeOf[n] = "ethernet"
      k == o.vrf < BootFibs IN
  IF o = Absent \/ (~eth /\ typeOf[n] \notin Cloneable) THEN Boot(n)
  ELSE IF ~eth THEN [Fresh EXCEPT !.up = TRUE]
  ELSE [Fresh EXCEPT !.up = TRUE, !.mtu = o.mtu, !.vrf = IF k THEN o.vrf ELSE 0,
          !.groups = IF k /\ o.addrs = <<>> /\ o.groups # <<>>
                       THEN <<o.groups[Len(o.groups)]>> ELSE <<>>]

\* After a restart and a full run of the file, once or more often, the system is
\* exactly that: nothing is restored wrongly, nothing is there that was not.
RestoredExactly ==
  phase = "rebooted" =>
    /\ entries = Learned
    /\ \A n \in Name : sys[n] \in {Boot(n), Restored(n)}
    /\ next > Len(script) => \A n \in Name : sys[n] = Restored(n)

LinesAbout(n) == {i \in DOMAIN script : script[i].of = "interface" /\ script[i].n = n}

\* The addresses a line shows.
Shows(i) ==
  UNION {script[i].clauses[j].val : j \in {l \in DOMAIN script[i].clauses :
                                            script[i].clauses[l].kw = "address"}}

\* `net -g` prints every interface, once for each of its addresses, and every
\* entry worth it of FIB 0, though each section lists the system anew and the
\* commands already printed may be running meanwhile.  The routes of the other
\* FIBs it leaves out: no line is about a route that only they have.
ScriptComplete ==
  Complete =>
    /\ \A n \in Name :
         LET o == orig.sys[n] IN
         IF o = Absent THEN LinesAbout(n) = {}
         ELSE /\ UNION {Shows(i) : i \in LinesAbout(n)} = {o.addrs[j] : j \in DOMAIN o.addrs}
              /\ Cardinality(LinesAbout(n)) = IF o.addrs = <<>> THEN 1 ELSE Len(o.addrs)
    /\ {[of |-> script[i].of, n |-> script[i].n, fib |-> 0, shown |-> TRUE] :
          i \in {j \in DOMAIN script : script[j].of \in Targets \ {"vrf"}}}
         = {e \in orig.entries : e.shown /\ e.fib = 0}

IsVlan(n) == typeOf[n] = "vlan" /\ orig.sys[n] # Absent
VlanParents(n) ==
  {p \in Name : IsVlan(p) /\ p \in Held(orig.sys[n], "parent")}

\* VLANs in VLANs go two deep at most.
Shallow == \A n \in Name : IsVlan(n) => \A p \in VlanParents(n) : VlanParents(p) = {}

\* "Sort so that any VLAN whose parent is also in the list is emitted after its
\* parent" (GenerateVlanCommands.cpp:22); deeper than that the comparison is no
\* weak ordering and the sort leaves some VLANs before their parents.
ParentsFirst ==
  Shallow =>
    \A n \in Name : IsVlan(n) =>
      \A p \in VlanParents(n) : \A i \in LinesAbout(n), j \in LinesAbout(p) : j < i

\* README.md:307: `net -g` "generates a complete set of CLI commands that
\* reproduce the current network configuration", to persist it across reboots.
ReplayReproduces ==
  phase = "rebooted" /\ next > Len(script) =>
    sys = orig.sys /\ entries = orig.entries

=============================================================================
