-------------------------- MODULE InterfaceManager --------------------------
(***************************************************************************)
(* `set interface` and `delete interface` of the FreeBSD build: the        *)
(* commands of InterfaceToken, the save of each interface type and the     *)
(* system calls of SystemConfigurationManager.  Several processes (two     *)
(* `net` commands, or `net` and `netd`) work on one kernel; a step is one  *)
(* system call, and between two of them anything else may happen.          *)
(*                                                                         *)
(* An optional value is a set of at most one element.  Of a prefix length  *)
(* and of the lifetimes of an IPv6 address it is kept whether they are the *)
(* address's own; the order of addresses is abstracted, but for which one  *)
(* is first.  MTU, FIB and description stand for the scalars that are      *)
(* given, restored when not zero, and restored with a warning only (the    *)
(* capabilities and the metric are saved as the description is).           *)
(***************************************************************************)
EXTENDS Naturals, FiniteSets

CONSTANTS Proc,        \* processes running a command
          Iface,       \* interface names
          KindOf,      \* the kinds a name may be of
          Addr, V4,    \* addresses, and which of them are IPv4
          Group, Fib, Mtu, Descr,
          Item, V6End, \* driver settings, and which are IPv6 endpoints
          Param,       \* those of a bridge that are no member
          Dropped,     \* those the save of a bridge, lagg or tunnel drops
          Start,       \* attributes an interface may have at the start
          SetCmd, DelCmd   \* the commands that may be given

(***************************************************************************)
(* Kinds of interface by the way their configuration is saved.  "clone"    *)
(* stands for loopback, tap, vxlan, stf, pflog, pfsync and wireguard,      *)
(* "tunnel" for gif, tun and ovpn, "ethernet" for a type with no handler.  *)
(***************************************************************************)
Kinds == {"ethernet", "clone", "bridge", "gre", "carp", "lagg", "vlan", "tunnel"}

\* Whose save applies the generic settings only to an existing interface.
CreateOrSave == {"lagg", "vlan", "tunnel"}

\* Whose save gives driver settings to the kernel one by one, all at once, or
\* not at all (the settings of vxlan and wireguard go nowhere).
ItemByItem == {"bridge", "lagg", "gre"}
AllAtOnce == {"vlan", "tunnel", "carp"}

\* Whose save passes some settings over in silence: `stp off` of a bridge, and
\* `stp on` without a member; `protocol none` of a lagg; `tunnel-vrf`.
Dropping == {"bridge", "lagg", "tunnel"}

Optional(S) == {x \in SUBSET S : \A a, b \in x : a = b}

\* bare: the addresses whose prefix length is that of their class (IPv4) or
\* whose lifetimes are endless (IPv6), whatever they once were.
Attributes == [addrs : SUBSET Addr, bare : SUBSET Addr, up : BOOLEAN, mtu : Mtu,
               fib : Fib, groups : SUBSET Group, descr : Descr,
               items : SUBSET Item]

\* typo: an address was given and is none. Without a type on the line the
\* parser takes no driver settings.
SetCommands ==
  {c \in [n : Iface, typed : BOOLEAN, addr : Optional(Addr), typo : BOOLEAN,
          group : Optional(Group), mtu : Optional(Mtu), vrf : Optional(Fib),
          status : Optional(BOOLEAN), descr : Optional(Descr),
          items : SUBSET Item] :
     (c.typo => c.addr = {}) /\ (~c.typed => c.items = {})}

DelCommands == [n : Iface, what : {"group", "addresses", "family", "iface"},
                of : SUBSET (Addr \cup Group)]

\* NoDescr and the zeros: what a new interface has.
CONSTANTS NoDescr, DefaultMtu

ASSUME Shape ==
  /\ KindOf \in [Iface -> SUBSET Kinds]
  /\ V4 \subseteq Addr /\ Addr \cap Group = {}
  /\ V6End \subseteq Item /\ Param \subseteq Item /\ Dropped \subseteq Item
  /\ 0 \in Fib /\ NoDescr \in Descr /\ DefaultMtu \in Mtu
  /\ Start \subseteq Attributes
  /\ SetCmd \subseteq SetCommands /\ DelCmd \subseteq DelCommands
  /\ SetCmd \cup DelCmd # {}

Fresh == [addrs |-> {}, bare |-> {}, up |-> FALSE, mtu |-> DefaultMtu, fib |-> 0,
          groups |-> {}, descr |-> NoDescr, items |-> {}]

VARIABLES
  kind,       \* what the kernel makes of each name; never changes
  present,    \* the interfaces the kernel has
  attr,       \* their attributes
  pc,         \* where each process is
  cmd,        \* the command it runs (the token)
  ic,         \* the InterfaceConfig it is saving, less what is done
  left,       \* addresses a delete has still to remove
  \* History, read by the properties only:
  before,     \* {the interface as it was when the command began}, or {} once
              \* another process has changed it
  warned,     \* a call failed and was only warned about, or the address was none
  fell,       \* an alias was set by the fallback, which takes no prefix length
  made,       \* interfaces the command has cloned
  gone        \* <<interface, address or group>> that a delete removed for good

kernel == <<present, attr>>
work == <<pc, cmd, ic, left>>
history == <<before, warned, fell, made, gone>>
vars == <<kind, kernel, work, history>>

SetPc == {"exists", "list", "meta", "typeLookup", "typeCreate",
          "lookup", "create", "first", "addrs", "mtu", "flagsGet", "flagsSet",
          "fib", "groups", "groupAdd", "descr", "driver", "driverSet", "report"}
DelPc == {"dexists", "dgroup", "dlist", "daddr", "destroy", "dreport"}

Busy(p) == pc[p] # "idle"
Name(p) == cmd[p].n
K(p) == kind[Name(p)]
SetUnderWay(n) == \E q \in Proc : pc[q] \in SetPc /\ Name(q) = n

NoConfig == [first |-> {}, addrs |-> {}, bare |-> {}, groups |-> {}, mtu |-> {},
             vrf |-> {}, descr |-> {}, items |-> {}, known |-> FALSE]
NoCmd == CHOOSE c \in SetCmd \cup DelCmd : TRUE

\* first is the address if it is IPv4, addrs the aliases (and an IPv6 address,
\* which is saved as they are), bare those with no prefix length of their own.
Configs == [first : Optional(V4), addrs : SUBSET Addr, bare : SUBSET Addr,
            groups : SUBSET Group, mtu : Optional(Mtu), vrf : Optional(Fib),
            descr : Optional(Descr), items : SUBSET Item, known : BOOLEAN]

-----------------------------------------------------------------------------
(* The kernel                                                              *)

\* For every process at work on n but p, n has changed under its feet.
Touched(p, n) ==
  [q \in Proc |-> IF q # p /\ Busy(q) /\ Name(q) = n THEN {} ELSE before[q]]

\* p changes the attributes of n.
Write(p, n, r) ==
  /\ n \in present
  /\ attr' = [attr EXCEPT ![n] = r]
  /\ before' = Touched(p, n)
  /\ UNCHANGED present

\* SIOCIFCREATE: the kernel makes n, unless it exists or is no clone.
Clone(p, n) ==
  /\ n \notin present /\ kind[n] # "ethernet"
  /\ present' = present \cup {n}
  /\ attr' = [attr EXCEPT ![n] = Fresh]
  /\ before' = Touched(p, n)
  /\ made' = [made EXCEPT ![p] = @ \cup {n}]

Goto(p, l) == pc' = [pc EXCEPT ![p] = l]

\* The command of p is over; its variables no longer matter.
End(p) ==
  /\ Goto(p, "idle")
  /\ cmd' = [cmd EXCEPT ![p] = NoCmd]
  /\ ic' = [ic EXCEPT ![p] = NoConfig]
  /\ left' = [left EXCEPT ![p] = {}]
  /\ before' = [before EXCEPT ![p] = {}]
  /\ warned' = [warned EXCEPT ![p] = FALSE]
  /\ fell' = [fell EXCEPT ![p] = FALSE]
  /\ made' = [made EXCEPT ![p] = {}]

\* A call fails and the code throws: executeSet prints "failed to
\* create/update" and what was applied stays.
Throw(p) == End(p) /\ UNCHANGED <<kernel, gone>>

-----------------------------------------------------------------------------
(* The stages of SaveInterface: which call follows.                        *)

ToDriver(c) == IF c.items # {} THEN "driver" ELSE "report"
ToDescr(c) == IF c.descr # {} THEN "descr" ELSE ToDriver(c)
\* Mutant: groups are left out.
ToGroupsNever(c) == ToDescr(c)
ToGroups(c) == IF c.groups # {} THEN "groups" ELSE ToDescr(c)
ToFib(c) == IF c.vrf \ {0} # {} THEN "fib" ELSE ToGroups(c)
ToMtu(c) == IF c.mtu # {} THEN "mtu" ELSE "flagsGet"
ToAddrs(c) == IF c.addrs # {} THEN "addrs" ELSE ToMtu(c)
ToFirst(c) == IF c.first # {} THEN "first" ELSE ToAddrs(c)

-----------------------------------------------------------------------------
(* set interface: InterfaceToken::executeSet                               *)

BeginSet(p, c) ==
  /\ pc[p] = "idle"
  /\ Goto(p, "exists")
  /\ cmd' = [cmd EXCEPT ![p] = c]
  /\ before' = [before EXCEPT ![p] = {attr[c.n]}]
  /\ gone' = gone \ ({c.n} \X (c.addr \cup c.group))
  /\ warned' = [warned EXCEPT ![p] = c.typo]
  /\ UNCHANGED <<kernel, ic, left, fell, made>>

\* A set's type: the token's, else that of the interface it found.
HandledAs(p, base) == K(p) # "ethernet" /\ (cmd[p].typed \/ base.known)
Handled(p) == HandledAs(p, ic[p])

\* The driver settings of a command that its save knows of.
Settings(p) == cmd[p].items \ (IF K(p) \in Dropping THEN Dropped ELSE {})

\* Driver settings are those of the command; groups are added, and an address is
\* unless it is none. It is an alias if there is an address, and also where
\* executeSet adds it a second time: no handler, and an existing interface.
Merged(p, base, exists) ==
  LET c == cmd[p]
      first == IF base.first \cup base.addrs = {} THEN c.addr \cap V4 ELSE base.first
      again == exists /\ ~HandledAs(p, base)
  IN [base EXCEPT
        !.first = first,
        !.addrs = @ \cup (IF again THEN c.addr ELSE c.addr \ (first \ base.first)),
        !.bare = @ \ c.addr,
        !.groups = @ \cup c.group, !.mtu = c.mtu,
        !.items = IF HandledAs(p, base) /\ K(p) \in ItemByItem \cup AllAtOnce
                    THEN Settings(p) ELSE {}]

\* The value the command gives, else the one found.
Or(given, found) == IF given = {} THEN found ELSE given

\* Mutants: a VRF given is added to the one found; an address that does not parse
\* is saved as what happens to be in the buffer.
AskedVrfs(p, base, exists) ==
  [Merged(p, base, exists) EXCEPT !.vrf = @ \cup cmd[p].vrf,
     !.descr = Or(cmd[p].descr, @)]
AskedUnparsed(p, base, exists) ==
  [Merged(p, base, exists) EXCEPT !.addrs = IF cmd[p].typo THEN Addr ELSE @,
     !.vrf = Or(cmd[p].vrf, @), !.descr = Or(cmd[p].descr, @)]

\* What is to be saved: the interface as found, changed as the command says.
\* The MTU is saved only if it was given.  The status only changes base.flags,
\* which no save reads: it is in no configuration.
Asked(p, base, exists) ==
  [Merged(p, base, exists) EXCEPT !.vrf = Or(cmd[p].vrf, @),
     !.descr = Or(cmd[p].descr, @)]

\* What setLaggInterface, setVlanInterface and the tunnels' saves insist on, and
\* what a set without a handler insists on for an interface that exists.
Complete(p, base, exists) ==
  /\ HandledAs(p, base) /\ K(p) \in CreateOrSave => Settings(p) # {}
  /\ ~HandledAs(p, base) /\ exists => ~cmd[p].typo

\* base is completed and the handler of the type, or base.save, is called;
\* without its settings the handler prints the usage, or the save throws.
Dispatch(p, base, exists) ==
  \/ /\ Complete(p, base, exists)
     /\ ic' = [ic EXCEPT ![p] = Asked(p, base, exists)]
     /\ Goto(p, IF HandledAs(p, base) THEN "typeLookup" ELSE "lookup")
     /\ UNCHANGED <<kernel, cmd, left, history>>
  \/ ~Complete(p, base, exists) /\ Throw(p)

\* bool exists = InterfaceConfig::exists(*mgr, name_);
Exists(p) ==
  /\ pc[p] = "exists"
  /\ \/ /\ Name(p) \in present
        /\ Goto(p, "list")
        /\ UNCHANGED <<kernel, cmd, ic, left, history>>
     \/ Name(p) \notin present /\ Dispatch(p, NoConfig, FALSE)

\* GetInterface: getifaddrs lists the addresses, the first as the address and
\* the others as aliases; nullopt if n is gone by now.
List(p) ==
  LET r == attr[Name(p)] IN
  /\ pc[p] = "list"
  /\ \/ /\ Name(p) \in present
        /\ \E f \in Optional(r.addrs) :
             /\ f = {} => r.addrs = {}
             /\ ic' = [ic EXCEPT ![p] =
                         [@ EXCEPT !.first = f \cap V4, !.addrs = r.addrs \ (f \cap V4),
                                   !.bare = r.bare, !.known = TRUE]]
        /\ Goto(p, "meta")
        /\ UNCHANGED <<kernel, cmd, left, history>>
     \/ Name(p) \notin present /\ Dispatch(p, NoConfig, TRUE)

\* populateInterfaceMetadata: then the other attributes, with calls of their
\* own, which give nothing if n is gone by now.
Meta(p) ==
  LET r == attr[Name(p)] IN
  /\ pc[p] = "meta"
  /\ Dispatch(p, IF Name(p) \notin present THEN ic[p]
                 ELSE [ic[p] EXCEPT !.groups = r.groups, !.vrf = {r.fib},
                                    !.descr = {r.descr} \ {NoDescr}],
              TRUE)

-----------------------------------------------------------------------------
(* The save of a type, up to SaveInterface.  Checks of existence that      *)
(* follow each other are one.                                              *)

TypeLookup(p) ==
  /\ pc[p] = "typeLookup"
  /\ Goto(p, IF Name(p) \in present THEN "lookup" ELSE "typeCreate")
  /\ UNCHANGED <<kernel, cmd, ic, left, history>>

\* After creating, lagg, vlan and the tunnels go straight to their driver.
AfterCreate(p) ==
  IF K(p) \in CreateOrSave THEN ToDriver(ic[p]) ELSE "lookup"

\* CreateBridge asks for "bridge" and the kernel picks a free name.
CloneNames(p) ==
  IF K(p) = "bridge" THEN {m \in Iface : kind[m] = "bridge"} ELSE {Name(p)}

TypeCreate(p) ==
  /\ pc[p] = "typeCreate"
  /\ \/ /\ \E m \in CloneNames(p) : Clone(p, m)
        /\ Goto(p, AfterCreate(p))
        /\ UNCHANGED <<cmd, ic, left, warned, fell, gone>>
     \/ Throw(p)

-----------------------------------------------------------------------------
(* SaveInterface                                                           *)

Lookup(p) ==
  /\ pc[p] = "lookup"
  /\ Goto(p, IF Name(p) \in present THEN ToFirst(ic[p]) ELSE "create")
  /\ UNCHANGED <<kernel, cmd, ic, left, history>>

Create(p) ==
  /\ pc[p] = "create"
  /\ \/ /\ Clone(p, Name(p))
        /\ Goto(p, ToFirst(ic[p]))
        /\ UNCHANGED <<cmd, ic, left, warned, fell, gone>>
     \/ Throw(p)

\* An address set on r, with or without a prefix length of its own.
WithAddr(r, a, bare) ==
  [r EXCEPT !.addrs = @ \cup {a}, !.bare = IF bare THEN @ \cup {a} ELSE @ \ {a}]

\* SIOCSIFADDR takes the address and no mask.  A failure is a warning.
First(p) ==
  /\ pc[p] = "first"
  /\ Goto(p, ToAddrs(ic[p]))
  /\ \/ /\ \E a \in ic[p].first : Write(p, Name(p), WithAddr(attr[Name(p)], a, TRUE))
        /\ UNCHANGED warned
     \/ /\ warned' = [warned EXCEPT ![p] = TRUE]
        /\ UNCHANGED <<kernel, before>>
  /\ UNCHANGED <<cmd, ic, left, fell, made, gone>>

\* Mutants: an alias, too, is set without its mask; the loop does not advance.
AddrsMaskless(p) ==
  LET n == Name(p) IN
  /\ pc[p] = "addrs"
  /\ \E a \in ic[p].addrs :
       LET c == [ic[p] EXCEPT !.addrs = @ \ {a}] IN
       /\ ic' = [ic EXCEPT ![p] = c]
       /\ Goto(p, ToAddrs(c))
       /\ Write(p, n, WithAddr(attr[n], a, TRUE))
  /\ UNCHANGED <<cmd, left, warned, fell, made, gone>>
AddrsStuck(p) ==
  /\ pc[p] = "addrs"
  /\ warned' = [warned EXCEPT ![p] = ~@]
  /\ UNCHANGED <<kernel, work, before, fell, made, gone>>

\* SIOCAIFADDR takes the mask as well, and if it fails SIOCSIFADDR is tried;
\* SIOCAIFADDR_IN6 is given endless lifetimes. IPv4 addresses come first.
Addrs(p) ==
  LET n == Name(p) IN
  /\ pc[p] = "addrs"
  /\ \E a \in ic[p].addrs :
       LET c == [ic[p] EXCEPT !.addrs = @ \ {a}] IN
       /\ a \in V4 \/ ic[p].addrs \cap V4 = {}
       /\ ic' = [ic EXCEPT ![p] = c]
       /\ Goto(p, ToAddrs(c))
       /\ \/ /\ Write(p, n, WithAddr(attr[n], a, a \notin V4 \/ a \in ic[p].bare))
             /\ UNCHANGED <<warned, fell>>
          \/ /\ a \in V4 /\ Write(p, n, WithAddr(attr[n], a, TRUE))
             /\ fell' = [fell EXCEPT ![p] = TRUE]
             /\ UNCHANGED warned
          \/ /\ warned' = [warned EXCEPT ![p] = TRUE]
             /\ UNCHANGED <<kernel, before, fell>>
  /\ UNCHANGED <<cmd, left, made, gone>>

\* A call that must succeed, giving n the attributes r; l follows, with c still
\* to be saved.
Must(p, n, r, l, c) ==
  \/ /\ Write(p, n, r)
     /\ Goto(p, l)
     /\ ic' = [ic EXCEPT ![p] = c]
     /\ UNCHANGED <<cmd, left, warned, fell, made, gone>>
  \/ Throw(p)

SetMtu(p) ==
  LET n == Name(p) IN
  /\ pc[p] = "mtu"
  /\ \E v \in ic[p].mtu : Must(p, n, [attr[n] EXCEPT !.mtu = v], "flagsGet",
                              [ic[p] EXCEPT !.mtu = {}])

\* SIOCGIFFLAGS fails if there is no such interface, and then nothing is said.
FlagsGet(p) ==
  /\ pc[p] = "flagsGet"
  /\ Goto(p, IF Name(p) \in present THEN "flagsSet" ELSE ToFib(ic[p]))
  /\ UNCHANGED <<kernel, cmd, ic, left, history>>

\* Always up, whatever the status asked for.
FlagsSet(p) ==
  LET n == Name(p) IN
  /\ pc[p] = "flagsSet"
  /\ Must(p, n, [attr[n] EXCEPT !.up = TRUE], ToFib(ic[p]), ic[p])

SetFib(p) ==
  LET n == Name(p) IN
  /\ pc[p] = "fib"
  /\ \E f \in ic[p].vrf : Must(p, n, [attr[n] EXCEPT !.fib = f], ToGroups(ic[p]),
                              [ic[p] EXCEPT !.vrf = {}])

\* query_interface_groups: only the new ones are added (none are known of an
\* interface that is gone).
Groups(p) ==
  LET n == Name(p)
      new == ic[p].groups \ (IF n \in present THEN attr[n].groups ELSE {}) IN
  /\ pc[p] = "groups"
  /\ ic' = [ic EXCEPT ![p].groups = new]
  /\ Goto(p, IF new # {} THEN "groupAdd" ELSE ToDescr(ic[p]))
  /\ UNCHANGED <<kernel, cmd, left, history>>

GroupAdd(p) ==
  LET n == Name(p) IN
  /\ pc[p] = "groupAdd"
  /\ \/ \E g \in ic[p].groups :
          LET rest == ic[p].groups \ {g} IN
          /\ Write(p, n, [attr[n] EXCEPT !.groups = @ \cup {g}])
          /\ ic' = [ic EXCEPT ![p].groups = rest]
          /\ Goto(p, IF rest # {} THEN "groupAdd" ELSE ToDescr(ic[p]))
          /\ UNCHANGED <<cmd, left, warned, fell, made, gone>>
     \/ Throw(p)

SetDescr(p) ==
  LET n == Name(p) IN
  /\ pc[p] = "descr"
  /\ Goto(p, ToDriver(ic[p]))
  /\ ic' = [ic EXCEPT ![p].descr = {}]
  /\ \/ /\ \E d \in ic[p].descr : Write(p, n, [attr[n] EXCEPT !.descr = d])
        /\ UNCHANGED warned
     \/ /\ warned' = [warned EXCEPT ![p] = TRUE]
        /\ UNCHANGED <<kernel, before>>
  /\ UNCHANGED <<cmd, left, fell, made, gone>>

-----------------------------------------------------------------------------
(* The driver settings of each type                                        *)

\* Those of a bridge that only warn when they fail, after its members.
Soft(p) == IF K(p) = "bridge" THEN Param ELSE {}

\* Mutant: only one port is added.
DriverItemFirst(p) ==
  LET n == Name(p) IN
  /\ pc[p] = "driver" /\ K(p) \in ItemByItem
  /\ \/ /\ \E i \in ic[p].items :
             Write(p, n, [attr[n] EXCEPT !.items = @ \cup {i}])
        /\ Goto(p, "report")
        /\ UNCHANGED <<cmd, ic, left, warned, fell, made, gone>>
     \/ Throw(p)

\* A port, a bridge member or a GRE parameter.  The kernel refuses a port it
\* has.  (The protocol a lagg is given first is counted with its ports.)
DriverItem(p) ==
  LET n == Name(p) IN
  /\ pc[p] = "driver" /\ K(p) \in ItemByItem /\ ~(ic[p].items \subseteq Soft(p))
  /\ \/ \E i \in ic[p].items \ Soft(p) :
          LET rest == ic[p].items \ {i} IN
          /\ i \notin attr[n].items \/ K(p) = "gre"
          /\ Write(p, n, [attr[n] EXCEPT !.items = @ \cup {i}])
          /\ ic' = [ic EXCEPT ![p].items = rest]
          /\ Goto(p, IF rest # {} THEN "driver" ELSE "report")
          /\ UNCHANGED <<cmd, left, warned, fell, made, gone>>
     \/ Throw(p)

\* The parameters of a bridge and the STP flag of its members: bridgeParamIoctl
\* and bridgeMemberIoctl only warn.
DriverParam(p) ==
  LET n == Name(p) IN
  /\ pc[p] = "driver" /\ K(p) = "bridge"
  /\ ic[p].items # {} /\ ic[p].items \subseteq Param
  /\ \E i \in ic[p].items :
       LET rest == ic[p].items \ {i} IN
       /\ ic' = [ic EXCEPT ![p].items = rest]
       /\ Goto(p, IF rest # {} THEN "driver" ELSE "report")
       /\ \/ /\ Write(p, n, [attr[n] EXCEPT !.items = @ \cup {i}])
             /\ UNCHANGED warned
          \/ /\ warned' = [warned EXCEPT ![p] = TRUE]
             /\ UNCHANGED <<kernel, before>>
  /\ UNCHANGED <<cmd, left, fell, made, gone>>

\* SIOCGVH: what is not given of a carp stays as it is, unless it cannot be read.
DriverRead(p) ==
  /\ pc[p] = "driver" /\ K(p) = "carp"
  /\ \E found \in {{}, attr[Name(p)].items} :
       ic' = [ic EXCEPT ![p].items = @ \cup found]
  /\ Goto(p, "driverSet")
  /\ UNCHANGED <<kernel, cmd, left, history>>

\* SIOCSETVLAN, SIOCSVH, or SIOCSIFPHYADDR when both endpoints are IPv4.
DriverAll(p) ==
  LET n == Name(p) IN
  /\ K(p) \in AllAtOnce /\ pc[p] = IF K(p) = "carp" THEN "driverSet" ELSE "driver"
  /\ K(p) = "tunnel" => ic[p].items \cap V6End = {}
  /\ Must(p, n, [attr[n] EXCEPT !.items = ic[p].items], "report",
          [ic[p] EXCEPT !.items = {}])

\* IPv6 endpoints get a warning, endpoints of two families an exception.
DriverTunnel6(p) ==
  /\ pc[p] = "driver" /\ K(p) = "tunnel"
  /\ ic[p].items \cap V6End # {}
  /\ \/ /\ ic[p].items \subseteq V6End
        /\ Goto(p, "report")
        /\ warned' = [warned EXCEPT ![p] = TRUE]
        /\ UNCHANGED <<kernel, cmd, ic, left, before, fell, made, gone>>
     \/ ~(ic[p].items \subseteq V6End) /\ Throw(p)

\* "set interface: created" or "updated".
Report(p) == pc[p] = "report" /\ End(p) /\ UNCHANGED <<kernel, gone>>

-----------------------------------------------------------------------------
(* delete interface: InterfaceToken::executeDelete                         *)

BeginDelete(p, c) ==
  /\ pc[p] = "idle"
  /\ Goto(p, "dexists")
  /\ cmd' = [cmd EXCEPT ![p] = c]
  /\ before' = [before EXCEPT ![p] = {attr[c.n]}]
  /\ UNCHANGED <<kernel, ic, left, warned, fell, made, gone>>

DExists(p) ==
  /\ pc[p] = "dexists"
  /\ IF Name(p) \notin present
       THEN Throw(p)
       ELSE /\ left' = [left EXCEPT ![p] =
                          IF cmd[p].what = "addresses" THEN cmd[p].of ELSE {}]
            /\ Goto(p, CASE cmd[p].what = "group" -> "dgroup"
                         [] cmd[p].what = "addresses" -> "daddr"
                         [] cmd[p].what = "family" -> "dlist"
                         [] OTHER -> "destroy")
            /\ UNCHANGED <<kernel, cmd, ic, history>>

\* p removes facts of n: for good, unless a set of n may be about to add them.
Remove(p, n, facts, r) ==
  /\ Write(p, n, r)
  /\ gone' = IF SetUnderWay(n) THEN gone ELSE gone \cup ({n} \X facts)

DGroup(p) ==
  LET n == Name(p) IN
  /\ pc[p] = "dgroup"
  /\ \/ /\ cmd[p].of \subseteq attr[n].groups
        /\ Remove(p, n, cmd[p].of, [attr[n] EXCEPT !.groups = @ \ cmd[p].of])
        /\ Goto(p, "dreport")
        /\ UNCHANGED <<cmd, ic, left, warned, fell, made>>
     \/ Throw(p)

\* Mutant: the addresses of the other family are listed.
DListOther(p) ==
  LET n == Name(p) IN
  /\ pc[p] = "dlist"
  /\ left' = [left EXCEPT ![p] =
                IF n \in present THEN attr[n].addrs \ cmd[p].of ELSE {}]
  /\ Goto(p, IF left'[p] # {} THEN "daddr" ELSE "dreport")
  /\ UNCHANGED <<kernel, cmd, ic, history>>

\* GetInterfaceAddresses
DList(p) ==
  LET n == Name(p) IN
  /\ pc[p] = "dlist"
  /\ left' = [left EXCEPT ![p] =
                IF n \in present THEN attr[n].addrs \cap cmd[p].of ELSE {}]
  /\ Goto(p, IF left'[p] # {} THEN "daddr" ELSE "dreport")
  /\ UNCHANGED <<kernel, cmd, ic, history>>

\* RemoveInterfaceAddress: IPv6 is "not implemented"; whatever is thrown is
\* caught for each address.
DAddr(p) ==
  LET n == Name(p) IN
  /\ pc[p] = "daddr"
  /\ \E a \in left[p] :
       /\ left' = [left EXCEPT ![p] = @ \ {a}]
       /\ Goto(p, IF left'[p] # {} THEN "daddr" ELSE "dreport")
       /\ \/ /\ a \in V4 \cap attr[n].addrs
             /\ Remove(p, n, {a}, [attr[n] EXCEPT !.addrs = @ \ {a}, !.bare = @ \ {a}])
             /\ UNCHANGED warned
          \/ /\ warned' = [warned EXCEPT ![p] = a \in V4 \/ warned[p]]
             /\ UNCHANGED <<kernel, before, gone>>
  /\ UNCHANGED <<cmd, ic, fell, made>>

\* SIOCIFDESTROY: addresses and groups go with the interface.
Destroy(p) ==
  LET n == Name(p) IN
  /\ pc[p] = "destroy"
  /\ \/ /\ n \in present /\ kind[n] # "ethernet"
        /\ present' = present \ {n}
        /\ attr' = [attr EXCEPT ![n] = Fresh]
        /\ before' = Touched(p, n)
        /\ gone' = IF SetUnderWay(n) THEN gone
                   ELSE gone \cup ({n} \X (attr[n].addrs \cup attr[n].groups))
        /\ Goto(p, "dreport")
        /\ UNCHANGED <<cmd, ic, left, warned, fell, made>>
     \/ Throw(p)

DReport(p) == pc[p] = "dreport" /\ End(p) /\ UNCHANGED <<kernel, gone>>

-----------------------------------------------------------------------------
Init ==
  /\ kind \in [Iface -> Kinds] /\ \A n \in Iface : kind[n] \in KindOf[n]
  /\ present \in SUBSET Iface /\ {n \in Iface : kind[n] = "ethernet"} \subseteq present
  /\ attr \in [Iface -> Start \cup {Fresh}]
  /\ \A n \in Iface \ present : attr[n] = Fresh
  /\ pc = [p \in Proc |-> "idle"]
  /\ cmd = [p \in Proc |-> NoCmd]
  /\ ic = [p \in Proc |-> NoConfig]
  /\ left = [p \in Proc |-> {}]
  /\ before = [p \in Proc |-> {}]
  /\ warned = [p \in Proc |-> FALSE]
  /\ fell = [p \in Proc |-> FALSE]
  /\ made = [p \in Proc |-> {}]
  /\ gone = {}

SetStep(p) ==
  \/ Exists(p) \/ List(p) \/ Meta(p)
  \/ TypeLookup(p) \/ TypeCreate(p) \/ Lookup(p) \/ Create(p)
  \/ First(p) \/ Addrs(p) \/ SetMtu(p) \/ FlagsGet(p) \/ FlagsSet(p) \/ SetFib(p)
  \/ Groups(p) \/ GroupAdd(p) \/ SetDescr(p)
  \/ DriverItem(p) \/ DriverParam(p) \/ DriverRead(p) \/ DriverAll(p)
  \/ DriverTunnel6(p) \/ Report(p)

DelStep(p) ==
  DExists(p) \/ DGroup(p) \/ DList(p) \/ DAddr(p) \/ Destroy(p) \/ DReport(p)

Step(p) == SetStep(p) \/ DelStep(p)

Next ==
  /\ UNCHANGED kind
  /\ \E p \in Proc : \/ \E c \in SetCmd : BeginSet(p, c)
                     \/ \E c \in DelCmd : BeginDelete(p, c)
                     \/ Step(p)

Spec == Init /\ [][Next]_vars

\* The kernel answers every call and schedules every process; nobody has to
\* give another command.
FairSpec == Spec /\ \A p \in Proc : WF_vars(Step(p) /\ UNCHANGED kind)

-----------------------------------------------------------------------------
(* Properties                                                              *)

Undisturbed(p) == before[p] # {}

\* The variables hold what their comments say, a process is between the stages
\* only with something left to do, and an absent interface has no attributes.
TypeOK ==
  /\ kind \in [Iface -> Kinds]
  /\ present \subseteq Iface
  /\ attr \in [Iface -> Attributes]
  /\ \A n \in Iface \ present : attr[n] = Fresh
  /\ pc \in [Proc -> {"idle"} \cup SetPc \cup DelPc]
  /\ cmd \in [Proc -> SetCmd \cup DelCmd]
  /\ \A p \in Proc : /\ pc[p] \in SetPc => cmd[p] \in SetCmd
                     /\ pc[p] \in DelPc => cmd[p] \in DelCmd
  /\ ic \in [Proc -> Configs]
  /\ left \in [Proc -> SUBSET (Addr \cup Group)]
  /\ before \in [Proc -> Optional(Attributes)]
  /\ warned \in [Proc -> BOOLEAN] /\ fell \in [Proc -> BOOLEAN]
  /\ made \in [Proc -> SUBSET Iface]
  /\ gone \subseteq Iface \X (Addr \cup Group)

\* A lagg, vlan or tunnel is created without the generic settings asked for.
CreatedBare(p) == cmd[p].typed /\ K(p) \in CreateOrSave /\ made[p] # {}

Has(p) ==
  LET c == cmd[p]  r == attr[Name(p)] IN
  /\ c.addr \subseteq r.addrs /\ c.group \subseteq r.groups
  /\ c.mtu \subseteq {r.mtu} /\ c.descr \subseteq {r.descr}
  /\ c.vrf \ {0} \subseteq {r.fib} /\ r.up

\* "set interface: created" or "updated" is true of a command nobody disturbed
\* and that gave no warning, except for what the code never applies: the
\* interface exists, with the address, group, MTU, description and VRF asked for,
\* or with its driver settings at least where a save drops the rest. Never
\* applied, and reported all the same, are `status down` (the interface is up
\* whatever the command says), `vrf 0`, the settings of the driver in Dropped and
\* those of the kinds that have no driver here; and an address may have the
\* prefix length of its class in place of the one typed.
ReportIsTrue ==
  \A p \in Proc :
    pc[p] = "report" /\ Undisturbed(p) /\ ~warned[p] =>
      /\ Name(p) \in present
      /\ ~CreatedBare(p) => Has(p)
      /\ Handled(p) /\ K(p) \in ItemByItem \cup AllAtOnce =>
           Settings(p) \subseteq attr[Name(p)].items

Between(S, low, high) == low \subseteq S /\ S \subseteq low \cup high

\* A set applies again all it found on the interface. Until another process
\* interferes, and also when it fails half-way, addresses, groups, MTU, FIB and
\* description lose nothing and change only as the command asked. Not asked for,
\* but done: the interface comes up if it was down (and never goes down), every
\* IPv6 address may get endless lifetimes, and the first IPv4 address the prefix
\* length of its class; the other IPv4 addresses keep theirs, unless SIOCAIFADDR
\* failed and the fallback did not.
SnapshotHarmless ==
  \A p \in Proc :
    pc[p] \in SetPc => \A b \in before[p] :
      LET r == attr[Name(p)]  c == cmd[p] IN
      /\ Between(r.addrs, b.addrs, c.addr)
      /\ Between(r.groups, b.groups, c.group)
      /\ r.mtu \in {b.mtu} \cup c.mtu
      /\ r.fib \in {b.fib} \cup c.vrf
      /\ r.descr \in {b.descr} \cup c.descr
      /\ b.up => r.up
      /\ b.bare \ r.bare \subseteq c.addr
      /\ ~fell[p] => r.bare \cap V4 \subseteq b.bare \cup ic[p].first

\* An address or group that was deleted while no set of the interface was under
\* way does not come back until a command names it, however the commands, their
\* snapshots and their failures interleave.
DeletedStaysGone ==
  \A n \in Iface : ({n} \X (attr[n].addrs \cup attr[n].groups)) \cap gone = {}

\* Deleting the IPv4 addresses of an interface leaves none, if no removal
\* failed and nobody else worked on it: the list is complete when it is used.
FamilyDeleted ==
  \A p \in Proc :
    /\ pc[p] = "dreport" /\ cmd[p].what = "family" /\ cmd[p].of \subseteq V4
    /\ Undisturbed(p) /\ ~warned[p]
    => attr[Name(p)].addrs \cap cmd[p].of = {}

\* Every command comes to its end, whatever fails and whoever interferes.
CommandEnds == \A p \in Proc : Busy(p) ~> ~Busy(p)

=============================================================================
