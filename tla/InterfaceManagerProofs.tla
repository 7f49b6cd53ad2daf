----------------------- MODULE InterfaceManagerProofs -----------------------
(***************************************************************************)
(* Proofs about set and delete of interfaces, for any number of processes, *)
(* interfaces and commands.                                                *)
(***************************************************************************)
EXTENDS InterfaceManager, TLAPS

-----------------------------------------------------------------------------
(* Types                                                                   *)

LEMMA FreshTyped == Fresh \in Attributes
BY Shape DEF Fresh, Attributes

LEMMA NoConfigTyped == NoConfig \in Configs
BY DEF NoConfig, Configs, Optional

LEMMA NoCmdTyped == NoCmd \in SetCmd \cup DelCmd
BY Shape DEF NoCmd

\* A value given or found is a value.
LEMMA OrTyped ==
    ASSUME NEW S, NEW a \in Optional(S), NEW b \in Optional(S)
    PROVE  Or(a, b) \in Optional(S)
BY DEF Or

\* What is to be saved is a configuration, made of what was found and of what
\* the command gives; the command's address is there, and is not bare.
LEMMA AskedTyped ==
    ASSUME NEW p \in Proc, cmd[p] \in SetCmd, NEW base \in Configs, NEW e \in BOOLEAN
    PROVE  /\ Asked(p, base, e) \in Configs
           /\ Asked(p, base, e).first \cup Asked(p, base, e).addrs
                = base.first \cup base.addrs \cup cmd[p].addr
           /\ Asked(p, base, e).first \in {base.first, cmd[p].addr \cap V4}
           /\ base.first \subseteq Asked(p, base, e).first
           /\ Asked(p, base, e).addrs \subseteq base.addrs \cup cmd[p].addr
           /\ Asked(p, base, e).bare = base.bare \ cmd[p].addr
           /\ Asked(p, base, e).groups = base.groups \cup cmd[p].group
           /\ Asked(p, base, e).mtu = cmd[p].mtu
           /\ Asked(p, base, e).vrf \in {base.vrf, cmd[p].vrf}
           /\ Asked(p, base, e).descr \in {base.descr, cmd[p].descr}
<1> DEFINE c == cmd[p]
           M == Merged(p, base, e)
           f == IF base.first \cup base.addrs = {} THEN c.addr \cap V4 ELSE base.first
           g == IF e /\ ~HandledAs(p, base) THEN c.addr ELSE c.addr \ (f \ base.first)
           i == IF HandledAs(p, base) /\ K(p) \in ItemByItem \cup AllAtOnce
                  THEN Settings(p) ELSE {}
<1>1. c \in SetCommands
    BY Shape
<1>2. /\ c.addr \in Optional(Addr) /\ c.addr \subseteq Addr /\ c.group \subseteq Group
      /\ c.mtu \in Optional(Mtu) /\ c.vrf \in Optional(Fib)
      /\ c.descr \in Optional(Descr) /\ i \subseteq Item
    BY <1>1 DEF SetCommands, Optional, Settings
<1>3. M = [base EXCEPT !.first = f, !.addrs = @ \cup g, !.bare = @ \ c.addr,
                       !.groups = @ \cup c.group, !.mtu = c.mtu, !.items = i]
    BY DEF Merged
<1>4. base.first \in Optional(V4) /\ base.addrs \subseteq Addr /\ base.bare \subseteq Addr
    BY DEF Configs
<1>5. /\ f \in Optional(V4) /\ f \in {base.first, c.addr \cap V4} /\ base.first \subseteq f
      /\ g \subseteq c.addr
      /\ f \cup base.addrs \cup g = base.first \cup base.addrs \cup c.addr
  <2>1. c.addr \cap V4 \in Optional(V4)
      BY <1>2 DEF Optional
  <2>2. CASE base.first \cup base.addrs = {}
    <3>1. f = c.addr \cap V4 /\ base.first = {} /\ g \in {c.addr, c.addr \ f}
        BY <2>2
    <3> HIDE DEF f, g, c
    <3>2. QED BY <2>1, <2>2, <3>1
  <2>3. CASE base.first \cup base.addrs # {}
    <3>1. f = base.first /\ g = c.addr
        BY <2>3
    <3> HIDE DEF f, g, c
    <3>2. QED BY <1>4, <3>1
  <2>4. QED BY <2>2, <2>3
<1>6. /\ M \in Configs
      /\ M.first = f /\ M.addrs = base.addrs \cup g /\ M.bare = base.bare \ c.addr
      /\ M.groups = base.groups \cup c.group
      /\ M.mtu = c.mtu /\ M.vrf = base.vrf /\ M.descr = base.descr
  <2> HIDE DEF c, i, M, f, g
  <2>1. base.addrs \cup g \subseteq Addr /\ base.bare \ c.addr \subseteq Addr
      BY <1>2, <1>4, <1>5
  <2>2. QED BY <1>2, <1>3, <1>5, <2>1 DEF Configs
<1>7. Asked(p, base, e) = [M EXCEPT !.vrf = Or(c.vrf, @), !.descr = Or(c.descr, @)]
    BY DEF Asked
<1>8. Or(c.vrf, M.vrf) \in Optional(Fib) /\ Or(c.descr, M.descr) \in Optional(Descr)
    BY <1>2, <1>6, OrTyped DEF Configs
<1>9. Or(c.vrf, M.vrf) \in {M.vrf, c.vrf} /\ Or(c.descr, M.descr) \in {M.descr, c.descr}
    BY DEF Or
<1> HIDE DEF c, i, M, f, g
<1>10. /\ Asked(p, base, e) \in Configs
       /\ Asked(p, base, e).first = f /\ Asked(p, base, e).addrs = base.addrs \cup g
       /\ Asked(p, base, e).bare = base.bare \ c.addr
       /\ Asked(p, base, e).groups = base.groups \cup c.group
       /\ Asked(p, base, e).mtu = c.mtu
       /\ Asked(p, base, e).vrf \in {base.vrf, c.vrf}
       /\ Asked(p, base, e).descr \in {base.descr, c.descr}
    BY <1>6, <1>7, <1>8, <1>9 DEF Configs
<1>11. QED BY <1>5, <1>10 DEF c

\* The names in commands are names of interfaces.
LEMMA NameTyped ==
    ASSUME TypeOK, NEW p \in Proc
    PROVE  Name(p) \in Iface
BY Shape DEF TypeOK, Name, SetCommands, DelCommands

LEMMA CommandTyped ==
    ASSUME NEW c \in SetCmd
    PROVE  /\ c.n \in Iface /\ c.addr \subseteq Addr /\ c.group \subseteq Group
           /\ c.mtu \subseteq Mtu /\ c.vrf \subseteq Fib /\ c.descr \subseteq Descr
           /\ c.items \subseteq Item
BY Shape DEF SetCommands, Optional

LEMMA TouchedTyped ==
    ASSUME TypeOK, NEW p \in Proc, NEW n
    PROVE  Touched(p, n) \in [Proc -> Optional(Attributes)]
BY DEF TypeOK, Touched, Optional

LEMMA WriteTyped ==
    ASSUME TypeOK, NEW p \in Proc, NEW n \in Iface, NEW r \in Attributes,
           Write(p, n, r), kind' = kind
    PROVE  /\ present' \subseteq Iface
           /\ attr' \in [Iface -> Attributes]
           /\ \A m \in Iface \ present' : attr'[m] = Fresh
           /\ before' \in [Proc -> Optional(Attributes)]
BY TouchedTyped DEF TypeOK, Write

LEMMA CloneTyped ==
    ASSUME TypeOK, NEW p \in Proc, NEW n \in Iface, Clone(p, n), kind' = kind
    PROVE  /\ present' \subseteq Iface
           /\ attr' = attr
           /\ \A m \in Iface \ present' : attr'[m] = Fresh
           /\ before' \in [Proc -> Optional(Attributes)]
           /\ made' \in [Proc -> SUBSET Iface]
<1>1. attr[n] = Fresh
    BY DEF TypeOK, Clone
<1>2. attr' = attr
    BY <1>1 DEF TypeOK, Clone
<1>3. QED BY <1>2, TouchedTyped DEF TypeOK, Clone

\* A command that is over leaves well-typed variables behind.
LEMMA EndTyped ==
    ASSUME TypeOK, NEW p \in Proc, End(p), UNCHANGED <<kind, kernel, gone>>
    PROVE  TypeOK'
BY NoConfigTyped, NoCmdTyped DEF TypeOK, End, Goto, kernel, Optional, SetPc, DelPc

LEMMA ToTyped ==
    ASSUME NEW c
    PROVE  /\ ToDriver(c) \in SetPc /\ ToDescr(c) \in SetPc
           /\ ToGroups(c) \in SetPc /\ ToFib(c) \in SetPc
           /\ ToMtu(c) \in SetPc /\ ToAddrs(c) \in SetPc /\ ToFirst(c) \in SetPc
BY DEF ToDriver, ToDescr, ToGroups, ToFib, ToMtu, ToAddrs, ToFirst, SetPc

LEMMA DispatchTyped ==
    ASSUME TypeOK, NEW p \in Proc, NEW base \in Configs, NEW e \in BOOLEAN,
           pc[p] \in SetPc,
           Dispatch(p, base, e), kind' = kind
    PROVE  TypeOK'
<1>1. CASE Throw(p)
    BY <1>1, EndTyped DEF Throw
<1>2. CASE /\ ic' = [ic EXCEPT ![p] = Asked(p, base, e)]
           /\ Goto(p, IF HandledAs(p, base) THEN "typeLookup" ELSE "lookup")
           /\ UNCHANGED <<kernel, cmd, left, history>>
  <2>1. Asked(p, base, e) \in Configs
      BY AskedTyped DEF TypeOK
  <2>2. QED
      BY <1>2, <2>1 DEF TypeOK, Goto, kernel, history, SetPc, DelPc
<1>3. QED BY <1>1, <1>2 DEF Dispatch

\* A call that must succeed.
LEMMA MustTyped ==
    ASSUME TypeOK, NEW p \in Proc, NEW n \in Iface, NEW r \in Attributes,
           NEW l \in SetPc, NEW c \in Configs, pc[p] \in SetPc,
           Must(p, n, r, l, c), kind' = kind
    PROVE  TypeOK'
<1>1. CASE Throw(p)
    BY <1>1, EndTyped DEF Throw
<1>2. CASE /\ Write(p, n, r)
           /\ Goto(p, l)
           /\ ic' = [ic EXCEPT ![p] = c]
           /\ UNCHANGED <<cmd, left, warned, fell, made, gone>>
  <2>1. QED BY <1>2, WriteTyped DEF TypeOK, Goto, SetPc, DelPc
<1>3. QED BY <1>1, <1>2 DEF Must

\* The configuration c after getifaddrs on an interface like r, f listed first.
Listed(c, r, f) ==
    [c EXCEPT !.first = f \cap V4, !.addrs = r.addrs \ (f \cap V4),
              !.bare = r.bare, !.known = TRUE]

LEMMA ListedTyped ==
    ASSUME NEW c \in Configs, NEW r \in Attributes, NEW f \in Optional(r.addrs)
    PROVE  /\ Listed(c, r, f) \in Configs
           /\ Listed(c, r, f).first = f \cap V4
           /\ Listed(c, r, f).addrs = r.addrs \ (f \cap V4)
           /\ Listed(c, r, f).first \cup Listed(c, r, f).addrs = r.addrs
           /\ Listed(c, r, f).bare = r.bare
           /\ Listed(c, r, f).groups = c.groups /\ Listed(c, r, f).mtu = c.mtu
           /\ Listed(c, r, f).vrf = c.vrf /\ Listed(c, r, f).descr = c.descr
<1>1. f \cap V4 \in Optional(V4) /\ f \subseteq r.addrs
    BY DEF Optional
<1>2. r.addrs \subseteq Addr /\ r.bare \subseteq Addr
    BY DEF Attributes
<1>3. Listed(c, r, f) \in Configs
    BY <1>1, <1>2 DEF Listed, Configs
<1>4. /\ Listed(c, r, f).first = f \cap V4
      /\ Listed(c, r, f).addrs = r.addrs \ (f \cap V4)
      /\ Listed(c, r, f).bare = r.bare
      /\ Listed(c, r, f).groups = c.groups /\ Listed(c, r, f).mtu = c.mtu
      /\ Listed(c, r, f).vrf = c.vrf /\ Listed(c, r, f).descr = c.descr
    BY DEF Listed, Configs
<1>5. QED BY <1>1, <1>3, <1>4

\* The steps of a set before SaveInterface.
LEMMA SetTyped ==
    ASSUME TypeOK, NEW p \in Proc, kind' = kind,
           \/ Exists(p) \/ List(p) \/ Meta(p)
           \/ TypeLookup(p) \/ TypeCreate(p) \/ Lookup(p) \/ Create(p)
    PROVE  TypeOK'
<1> USE NameTyped, NoConfigTyped, ToTyped
<1>1. CASE Exists(p)
  <2>1. CASE Dispatch(p, NoConfig, FALSE)
      BY <1>1, <2>1, DispatchTyped DEF Exists, SetPc
  <2>2. QED BY <1>1, <2>1 DEF Exists, TypeOK, Goto, kernel, history, SetPc, DelPc
<1>2. CASE List(p)
  <2>1. CASE Dispatch(p, NoConfig, TRUE)
      BY <1>2, <2>1, DispatchTyped DEF List, SetPc
  <2>2. ASSUME NEW f \in Optional(attr[Name(p)].addrs),
               ic' = [ic EXCEPT ![p] = Listed(ic[p], attr[Name(p)], f)],
               Goto(p, "meta"), UNCHANGED <<kernel, cmd, left, history>>
        PROVE  TypeOK'
    <3>1. attr[Name(p)] \in Attributes /\ ic[p] \in Configs
        BY DEF TypeOK
    <3>2. Listed(ic[p], attr[Name(p)], f) \in Configs
        BY <3>1, ListedTyped
    <3>3. ic' \in [Proc -> Configs]
        BY <2>2, <3>2 DEF TypeOK
    <3>4. QED BY <1>2, <2>2, <3>3 DEF List, TypeOK, Goto, kernel, history, SetPc, DelPc
  <2>3. QED BY <1>2, <2>1, <2>2 DEF List, Listed
<1>3. CASE Meta(p)
  <2> DEFINE r == attr[Name(p)]
             found == [ic[p] EXCEPT !.groups = r.groups, !.vrf = {r.fib},
                                    !.descr = {r.descr} \ {NoDescr}]
  <2>1. r \in Attributes /\ ic[p] \in Configs
      BY DEF TypeOK
  <2>2. r.groups \subseteq Group /\ {r.fib} \in Optional(Fib)
        /\ {r.descr} \ {NoDescr} \in Optional(Descr)
      BY <2>1 DEF Attributes, Optional
  <2>3. found \in Configs
      BY <2>1, <2>2 DEF Configs
  <2>4. QED BY <1>3, <2>1, <2>3, DispatchTyped DEF Meta, SetPc
<1>4. CASE TypeLookup(p)
    BY <1>4 DEF TypeLookup, TypeOK, Goto, kernel, history, SetPc, DelPc
<1>5. CASE TypeCreate(p)
  <2>1. CASE Throw(p)
      BY <2>1, EndTyped DEF Throw
  <2>2. ASSUME NEW m \in CloneNames(p), Clone(p, m), Goto(p, AfterCreate(p)),
               UNCHANGED <<cmd, ic, left, warned, fell, gone>>
        PROVE  TypeOK'
    <3>1. m \in Iface
        BY DEF CloneNames
    <3>2. AfterCreate(p) \in SetPc
        BY DEF AfterCreate, SetPc
    <3>3. QED BY <1>5, <2>2, <3>1, <3>2, CloneTyped DEF TypeCreate, TypeOK, Goto, SetPc, DelPc
  <2>3. QED BY <1>5, <2>1, <2>2 DEF TypeCreate
<1>6. CASE Lookup(p)
    BY <1>6 DEF Lookup, TypeOK, Goto, kernel, history, SetPc, DelPc
<1>7. CASE Create(p)
  <2>1. CASE Throw(p)
      BY <2>1, EndTyped DEF Throw
  <2>2. QED BY <1>7, <2>1, CloneTyped DEF Create, TypeOK, Goto, SetPc, DelPc
<1>8. QED BY <1>1, <1>2, <1>3, <1>4, <1>5, <1>6, <1>7

\* A configuration of which less is left to do is one, and so is one with other
\* settings of the driver.
LEMMA ConfigTyped ==
    ASSUME NEW c \in Configs, NEW a \in SUBSET c.addrs, NEW g \in SUBSET c.groups,
           NEW i \in SUBSET Item
    PROVE  /\ [c EXCEPT !.addrs = a] \in Configs
           /\ [c EXCEPT !.groups = g] \in Configs
           /\ [c EXCEPT !.items = i] \in Configs
           /\ [c EXCEPT !.mtu = {}] \in Configs
           /\ [c EXCEPT !.vrf = {}] \in Configs
           /\ [c EXCEPT !.descr = {}] \in Configs
<1>1. /\ c.addrs \subseteq Addr /\ c.groups \subseteq Group
      /\ {} \in Optional(Mtu) /\ {} \in Optional(Fib) /\ {} \in Optional(Descr)
    BY DEF Configs, Optional
<1>2. a \subseteq Addr /\ g \subseteq Group
    BY <1>1
<1>3. QED BY <1>1, <1>2 DEF Configs

LEMMA FieldsTyped ==
    ASSUME TypeOK, NEW p \in Proc, NEW n \in Iface
    PROVE  /\ attr[n] \in Attributes
           /\ attr[n].addrs \subseteq Addr /\ attr[n].bare \subseteq Addr
           /\ attr[n].groups \subseteq Group
           /\ attr[n].items \subseteq Item /\ attr[n].mtu \in Mtu
           /\ attr[n].fib \in Fib /\ attr[n].descr \in Descr /\ attr[n].up \in BOOLEAN
           /\ ic[p] \in Configs
           /\ ic[p].addrs \subseteq Addr /\ ic[p].groups \subseteq Group
           /\ ic[p].first \subseteq Addr
           /\ ic[p].items \subseteq Item /\ ic[p].mtu \subseteq Mtu
           /\ ic[p].vrf \subseteq Fib /\ ic[p].descr \subseteq Descr
<1>1. attr[n] \in Attributes /\ ic[p] \in Configs
    BY DEF TypeOK
<1>2. V4 \subseteq Addr
    BY Shape
<1>3. QED BY <1>1, <1>2 DEF Attributes, Configs, Optional

\* An interface with an address more is one.
LEMMA WithAddrTyped ==
    ASSUME NEW r \in Attributes, NEW a \in Addr, NEW b \in BOOLEAN
    PROVE  /\ WithAddr(r, a, b) \in Attributes
           /\ WithAddr(r, a, b).addrs = r.addrs \cup {a}
           /\ WithAddr(r, a, b).groups = r.groups /\ WithAddr(r, a, b).mtu = r.mtu
           /\ WithAddr(r, a, b).fib = r.fib /\ WithAddr(r, a, b).descr = r.descr
           /\ WithAddr(r, a, b).up = r.up /\ WithAddr(r, a, b).items = r.items
BY DEF WithAddr, Attributes

\* SaveInterface and what follows it.
LEMMA SaveTyped ==
    ASSUME TypeOK, NEW p \in Proc, kind' = kind,
           \/ First(p) \/ Addrs(p) \/ SetMtu(p) \/ FlagsGet(p) \/ FlagsSet(p) \/ SetFib(p)
           \/ Groups(p) \/ GroupAdd(p) \/ SetDescr(p)
           \/ DriverItem(p) \/ DriverParam(p) \/ DriverRead(p) \/ DriverAll(p)
           \/ DriverTunnel6(p) \/ Report(p)
    PROVE  TypeOK'
<1> DEFINE n == Name(p)
<1>0. n \in Iface
    BY NameTyped
<1> USE ToTyped
<1> HIDE DEF n
<1>a. attr[n] \in Attributes /\ ic[p] \in Configs
    BY <1>0, FieldsTyped
<1>1. CASE Addrs(p)
  <2>1. PICK a \in ic[p].addrs :
          /\ ic' = [ic EXCEPT ![p] = [ic[p] EXCEPT !.addrs = @ \ {a}]]
          /\ Goto(p, ToAddrs([ic[p] EXCEPT !.addrs = @ \ {a}]))
          /\ \/ /\ Write(p, n, WithAddr(attr[n], a, a \notin V4 \/ a \in ic[p].bare))
                /\ UNCHANGED <<warned, fell>>
             \/ /\ a \in V4 /\ Write(p, n, WithAddr(attr[n], a, TRUE))
                /\ fell' = [fell EXCEPT ![p] = TRUE]
                /\ UNCHANGED warned
             \/ /\ warned' = [warned EXCEPT ![p] = TRUE]
                /\ UNCHANGED <<kernel, before, fell>>
      BY <1>1 DEF Addrs, n
  <2> DEFINE d == [ic[p] EXCEPT !.addrs = @ \ {a}]
  <2>2. d \in Configs /\ a \in Addr
      BY <1>0, <1>a, ConfigTyped, FieldsTyped
  <2>3. PICK l \in SetPc : Goto(p, l)
      BY <2>1, ToTyped
  <2>4. /\ pc[p] = "addrs" /\ ic' = [ic EXCEPT ![p] = d]
        /\ UNCHANGED <<cmd, left, made, gone>>
      BY <1>1, <2>1 DEF Addrs
  <2>5. \A b \in BOOLEAN : WithAddr(attr[n], a, b) \in Attributes
      BY <1>a, <2>2, WithAddrTyped
  <2> HIDE DEF d
  <2>6. ASSUME NEW b \in BOOLEAN, Write(p, n, WithAddr(attr[n], a, b)),
               fell' \in [Proc -> BOOLEAN], UNCHANGED warned
        PROVE  TypeOK'
      BY <1>0, <2>2, <2>3, <2>4, <2>5, <2>6, WriteTyped DEF TypeOK, Goto, SetPc, DelPc
  <2>7. CASE warned' = [warned EXCEPT ![p] = TRUE] /\ UNCHANGED <<kernel, before, fell>>
      BY <2>2, <2>3, <2>4, <2>7 DEF TypeOK, Goto, kernel, SetPc, DelPc
  <2>8. fell \in [Proc -> BOOLEAN] /\ [fell EXCEPT ![p] = TRUE] \in [Proc -> BOOLEAN]
      BY DEF TypeOK
  <2>9. (a \notin V4 \/ a \in ic[p].bare) \in BOOLEAN
      OBVIOUS
  <2>10. QED BY <2>1, <2>6, <2>7, <2>8, <2>9
<1>2. CASE SetMtu(p)
  <2>1. PICK v \in ic[p].mtu :
          Must(p, n, [attr[n] EXCEPT !.mtu = v], "flagsGet", [ic[p] EXCEPT !.mtu = {}])
      BY <1>2 DEF SetMtu, n
  <2>2. [attr[n] EXCEPT !.mtu = v] \in Attributes
      BY <1>0, <1>a, FieldsTyped DEF Attributes
  <2>3. [ic[p] EXCEPT !.mtu = {}] \in Configs
      BY <1>a, ConfigTyped
  <2>4. QED BY <1>0, <1>2, <2>1, <2>2, <2>3, MustTyped DEF SetMtu, SetPc
<1>3. CASE FlagsGet(p)
    BY <1>3 DEF FlagsGet, TypeOK, Goto, kernel, history, SetPc, DelPc
<1>4. CASE FlagsSet(p)
  <2>1. [attr[n] EXCEPT !.up = TRUE] \in Attributes
      BY <1>0, <1>a, FieldsTyped DEF Attributes
  <2>2. QED BY <1>0, <1>4, <1>a, <2>1, MustTyped DEF FlagsSet, SetPc, n
<1>5. CASE SetFib(p)
  <2>1. PICK v \in ic[p].vrf :
          Must(p, n, [attr[n] EXCEPT !.fib = v], ToGroups(ic[p]), [ic[p] EXCEPT !.vrf = {}])
      BY <1>5 DEF SetFib, n
  <2>2. [attr[n] EXCEPT !.fib = v] \in Attributes
      BY <1>0, <1>a, FieldsTyped DEF Attributes
  <2>3. [ic[p] EXCEPT !.vrf = {}] \in Configs
      BY <1>a, ConfigTyped
  <2>4. QED BY <1>0, <1>5, <2>1, <2>2, <2>3, MustTyped DEF SetFib, SetPc
<1>6. CASE Groups(p)
  <2> DEFINE new == ic[p].groups \ (IF n \in present THEN attr[n].groups ELSE {})
  <2>1. [ic[p] EXCEPT !.groups = new] \in Configs
      BY <1>a, ConfigTyped
  <2>2. ic' = [ic EXCEPT ![p] = [ic[p] EXCEPT !.groups = new]]
      BY <1>6 DEF Groups, n
  <2>3. PICK l \in SetPc : Goto(p, l)
      BY <1>6 DEF Groups, n, SetPc
  <2>4. pc[p] = "groups" /\ UNCHANGED <<kernel, cmd, left, history>>
      BY <1>6 DEF Groups
  <2> HIDE DEF new
  <2>5. QED BY <2>1, <2>2, <2>3, <2>4 DEF Goto, TypeOK, kernel, history, SetPc, DelPc
<1>7. CASE GroupAdd(p)
  <2>1. CASE Throw(p)
      BY <2>1, EndTyped DEF Throw
  <2>2. ASSUME NEW g \in ic[p].groups,
               Write(p, n, [attr[n] EXCEPT !.groups = @ \cup {g}]),
               ic' = [ic EXCEPT ![p].groups = ic[p].groups \ {g}],
               Goto(p, IF ic[p].groups \ {g} # {} THEN "groupAdd" ELSE ToDescr(ic[p])),
               UNCHANGED <<cmd, left, warned, fell, made, gone>>
        PROVE  TypeOK'
    <3>1. [ic[p] EXCEPT !.groups = ic[p].groups \ {g}] \in Configs
        BY <1>a, ConfigTyped
    <3>2. [attr[n] EXCEPT !.groups = @ \cup {g}] \in Attributes
        BY <1>0, <1>a, FieldsTyped DEF Attributes
    <3>3. QED BY <1>0, <1>7, <2>2, <3>1, <3>2, WriteTyped
              DEF GroupAdd, TypeOK, Goto, SetPc, DelPc
  <2>3. QED BY <1>7, <2>1, <2>2 DEF GroupAdd, n
<1>8. CASE SetDescr(p)
  <2>1. [ic[p] EXCEPT !.descr = {}] \in Configs
      BY <1>a, ConfigTyped
  <2>2. ic' = [ic EXCEPT ![p] = [ic[p] EXCEPT !.descr = {}]]
      BY <1>8 DEF SetDescr
  <2>3. CASE warned' = [warned EXCEPT ![p] = TRUE] /\ UNCHANGED <<kernel, before>>
      BY <1>8, <2>1, <2>2, <2>3 DEF SetDescr, TypeOK, Goto, kernel, SetPc, DelPc
  <2>4. ASSUME NEW d \in ic[p].descr, Write(p, n, [attr[n] EXCEPT !.descr = d]),
               UNCHANGED warned
        PROVE  TypeOK'
    <3>1. [attr[n] EXCEPT !.descr = d] \in Attributes
        BY <1>0, <1>a, FieldsTyped DEF Attributes
    <3>2. QED BY SMTT(30), <1>0, <1>8, <2>1, <2>2, <2>4, <3>1, WriteTyped
              DEF SetDescr, TypeOK, Goto, SetPc, DelPc
  <2>5. QED BY <1>8, <2>3, <2>4 DEF SetDescr, n
<1>9. CASE DriverItem(p)
  <2>1. CASE Throw(p)
      BY <2>1, EndTyped DEF Throw
  <2>2. ASSUME NEW i \in ic[p].items,
               Write(p, n, [attr[n] EXCEPT !.items = @ \cup {i}]),
               ic' = [ic EXCEPT ![p].items = ic[p].items \ {i}],
               Goto(p, IF ic[p].items \ {i} # {} THEN "driver" ELSE "report"),
               UNCHANGED <<cmd, left, warned, fell, made, gone>>
        PROVE  TypeOK'
    <3>1. [ic[p] EXCEPT !.items = ic[p].items \ {i}] \in Configs
        BY <1>0, <1>a, ConfigTyped, FieldsTyped
    <3>2. [attr[n] EXCEPT !.items = @ \cup {i}] \in Attributes
        BY <1>0, <1>a, FieldsTyped DEF Attributes
    <3>3. QED BY <1>0, <1>9, <2>2, <3>1, <3>2, WriteTyped
              DEF DriverItem, TypeOK, Goto, SetPc, DelPc
  <2>3. QED BY <1>9, <2>1, <2>2 DEF DriverItem, n
<1>10. CASE DriverAll(p)
  <2>1. [attr[n] EXCEPT !.items = ic[p].items] \in Attributes
      BY <1>0, <1>a, FieldsTyped DEF Attributes
  <2>2. [ic[p] EXCEPT !.items = {}] \in Configs
      BY <1>a, ConfigTyped
  <2>3. pc[p] \in SetPc
      BY <1>10 DEF DriverAll, SetPc
  <2>4. QED BY <1>0, <1>10, <2>1, <2>2, <2>3, MustTyped DEF DriverAll, SetPc, n
<1>11. CASE DriverTunnel6(p)
  <2>1. CASE Throw(p)
      BY <2>1, EndTyped DEF Throw
  <2>2. QED BY <1>11, <2>1 DEF DriverTunnel6, TypeOK, Goto, kernel, SetPc, DelPc
<1>12. CASE Report(p)
    BY <1>12, EndTyped DEF Report
<1>13. CASE First(p)
  <2>1. PICK l \in SetPc : Goto(p, l)
      BY <1>13 DEF First
  <2>2. pc[p] = "first" /\ UNCHANGED <<cmd, ic, left, fell, made, gone>>
      BY <1>13 DEF First
  <2>3. ASSUME NEW a \in ic[p].first, Write(p, n, WithAddr(attr[n], a, TRUE)),
               UNCHANGED warned
        PROVE  TypeOK'
    <3>1. WithAddr(attr[n], a, TRUE) \in Attributes
        BY <1>0, <1>a, FieldsTyped, WithAddrTyped
    <3>2. QED BY <1>0, <2>1, <2>2, <2>3, <3>1, WriteTyped DEF TypeOK, Goto, SetPc, DelPc
  <2>4. CASE warned' = [warned EXCEPT ![p] = TRUE] /\ UNCHANGED <<kernel, before>>
      BY <2>1, <2>2, <2>4 DEF TypeOK, Goto, kernel, SetPc, DelPc
  <2>5. QED BY <1>13, <2>3, <2>4 DEF First, n
<1>14. CASE DriverParam(p)
  <2>1. PICK i \in ic[p].items :
          /\ ic' = [ic EXCEPT ![p].items = ic[p].items \ {i}]
          /\ Goto(p, IF ic[p].items \ {i} # {} THEN "driver" ELSE "report")
          /\ \/ /\ Write(p, n, [attr[n] EXCEPT !.items = @ \cup {i}])
                /\ UNCHANGED warned
             \/ /\ warned' = [warned EXCEPT ![p] = TRUE]
                /\ UNCHANGED <<kernel, before>>
      BY <1>14 DEF DriverParam, n
  <2> DEFINE d == [ic[p] EXCEPT !.items = ic[p].items \ {i}]
  <2>2. d \in Configs
      BY <1>0, <1>a, ConfigTyped, FieldsTyped
  <2>3. PICK l \in SetPc : Goto(p, l)
      BY <2>1 DEF SetPc
  <2>4. /\ pc[p] = "driver" /\ UNCHANGED <<cmd, left, fell, made, gone>>
        /\ ic' = [ic EXCEPT ![p] = d]
      BY <1>14, <2>1 DEF DriverParam
  <2>5. [attr[n] EXCEPT !.items = @ \cup {i}] \in Attributes
      BY <1>0, <1>a, FieldsTyped DEF Attributes
  <2> HIDE DEF d
  <2>6. CASE Write(p, n, [attr[n] EXCEPT !.items = @ \cup {i}]) /\ UNCHANGED warned
      BY <1>0, <2>2, <2>3, <2>4, <2>5, <2>6, WriteTyped DEF TypeOK, Goto, SetPc, DelPc
  <2>7. CASE warned' = [warned EXCEPT ![p] = TRUE] /\ UNCHANGED <<kernel, before>>
      BY <2>2, <2>3, <2>4, <2>7 DEF TypeOK, Goto, kernel, SetPc, DelPc
  <2>8. QED BY <2>1, <2>6, <2>7
<1>15. CASE DriverRead(p)
  <2>1. PICK x \in {{}, attr[n].items} : ic' = [ic EXCEPT ![p].items = ic[p].items \cup x]
      BY <1>15 DEF DriverRead, n
  <2> DEFINE d == [ic[p] EXCEPT !.items = ic[p].items \cup x]
  <2>2. ic[p].items \cup x \subseteq Item
      BY <1>0, FieldsTyped
  <2>3. d \in Configs
      BY <1>a, <2>2, ConfigTyped
  <2>4. /\ pc[p] = "driver" /\ Goto(p, "driverSet") /\ UNCHANGED <<kernel, cmd, left, history>>
        /\ ic' = [ic EXCEPT ![p] = d]
      BY <1>15, <2>1 DEF DriverRead
  <2> HIDE DEF d
  <2>5. QED BY <2>3, <2>4 DEF TypeOK, Goto, kernel, history, SetPc, DelPc
<1>16. QED BY <1>1, <1>2, <1>3, <1>4, <1>5, <1>6, <1>7, <1>8, <1>9, <1>10, <1>11, <1>12,
              <1>13, <1>14, <1>15

\* A removal, whatever it removes.
LEMMA RemoveTyped ==
    ASSUME TypeOK, NEW p \in Proc, NEW n \in Iface, NEW r \in Attributes,
           NEW facts \in SUBSET (Addr \cup Group), Remove(p, n, facts, r),
           kind' = kind
    PROVE  /\ present' \subseteq Iface
           /\ attr' \in [Iface -> Attributes]
           /\ \A m \in Iface \ present' : attr'[m] = Fresh
           /\ before' \in [Proc -> Optional(Attributes)]
           /\ gone' \subseteq Iface \X (Addr \cup Group)
<1>1. Write(p, n, r)
    BY DEF Remove
<1>2. gone' \subseteq gone \cup ({n} \X facts)
    BY DEF Remove
<1>3. gone' \subseteq Iface \X (Addr \cup Group)
    BY <1>2 DEF TypeOK
<1>4. QED BY <1>1, <1>3, WriteTyped

LEMMA DeleteTyped ==
    ASSUME TypeOK, NEW p \in Proc, kind' = kind, DelStep(p)
    PROVE  TypeOK'
<1> DEFINE n == Name(p)
<1>0. n \in Iface
    BY NameTyped
<1> HIDE DEF n
<1>a. attr[n] \in Attributes
    BY <1>0, FieldsTyped
<1>b. pc[p] \in DelPc => cmd[p].of \subseteq Addr \cup Group
    BY Shape DEF TypeOK, DelCommands
<1>1. CASE DExists(p)
  <2>1. CASE Throw(p)
      BY <2>1, EndTyped DEF Throw
  <2>2. QED BY <1>1, <1>b, <2>1 DEF DExists, TypeOK, Goto, kernel, history, SetPc, DelPc
<1>2. CASE DGroup(p)
  <2>1. CASE Throw(p)
      BY <2>1, EndTyped DEF Throw
  <2>2. CASE /\ Remove(p, n, cmd[p].of, [attr[n] EXCEPT !.groups = @ \ cmd[p].of])
             /\ Goto(p, "dreport")
             /\ UNCHANGED <<cmd, ic, left, warned, fell, made>>
    <3>1. [attr[n] EXCEPT !.groups = @ \ cmd[p].of] \in Attributes
        BY <1>0, <1>a, FieldsTyped DEF Attributes
    <3>2. cmd[p].of \subseteq Addr \cup Group
        BY <1>2, <1>b DEF DGroup, DelPc
    <3>3. QED BY <1>0, <1>2, <2>2, <3>1, <3>2, RemoveTyped
              DEF DGroup, TypeOK, Goto, SetPc, DelPc
  <2>3. QED BY <1>2, <2>1, <2>2 DEF DGroup, n
<1>3. CASE DList(p)
  <2>1. left' \in [Proc -> SUBSET (Addr \cup Group)]
      BY <1>0, <1>3, FieldsTyped DEF DList, TypeOK, n
  <2>2. PICK l \in DelPc : Goto(p, l)
      BY <1>3 DEF DList, DelPc
  <2>3. pc[p] = "dlist" /\ UNCHANGED <<kernel, cmd, ic, history>>
      BY <1>3 DEF DList
  <2>4. QED BY <2>1, <2>2, <2>3 DEF TypeOK, Goto, kernel, history, SetPc, DelPc
<1>4. CASE DAddr(p)
  <2>1. PICK a \in left[p] :
          /\ left' = [left EXCEPT ![p] = @ \ {a}]
          /\ Goto(p, IF left'[p] # {} THEN "daddr" ELSE "dreport")
          /\ \/ /\ a \in V4 \cap attr[n].addrs
                /\ Remove(p, n, {a}, [attr[n] EXCEPT !.addrs = @ \ {a}, !.bare = @ \ {a}])
                /\ UNCHANGED warned
             \/ /\ warned' = [warned EXCEPT ![p] = a \in V4 \/ warned[p]]
                /\ UNCHANGED <<kernel, before, gone>>
      BY <1>4 DEF DAddr, n
  <2>2. left' \in [Proc -> SUBSET (Addr \cup Group)] /\ a \in Addr \cup Group
      BY <2>1 DEF TypeOK
  <2>3. PICK l \in DelPc : Goto(p, l)
      BY <2>1 DEF DelPc
  <2>4. pc[p] = "daddr" /\ UNCHANGED <<cmd, ic, fell, made>>
      BY <1>4 DEF DAddr
  <2>5. CASE /\ Remove(p, n, {a}, [attr[n] EXCEPT !.addrs = @ \ {a}, !.bare = @ \ {a}])
             /\ UNCHANGED warned
    <3>1. [attr[n] EXCEPT !.addrs = @ \ {a}, !.bare = @ \ {a}] \in Attributes
        BY <1>0, <1>a, FieldsTyped DEF Attributes
    <3>2. QED BY <1>0, <2>2, <2>3, <2>4, <2>5, <3>1, RemoveTyped
              DEF TypeOK, Goto, SetPc, DelPc
  <2>6. CASE /\ warned' = [warned EXCEPT ![p] = a \in V4 \/ warned[p]]
             /\ UNCHANGED <<kernel, before, gone>>
    <3>1. warned' \in [Proc -> BOOLEAN]
      <4>1. (a \in V4 \/ warned[p]) \in BOOLEAN
          OBVIOUS
      <4>2. QED BY <2>6, <4>1 DEF TypeOK
    <3>2. QED BY <2>2, <2>3, <2>4, <2>6, <3>1 DEF TypeOK, Goto, kernel, SetPc, DelPc
  <2>7. QED BY <2>1, <2>5, <2>6
<1>5. CASE Destroy(p)
  <2>1. CASE Throw(p)
      BY <2>1, EndTyped DEF Throw
  <2>2. CASE /\ present' = present \ {n}
             /\ attr' = [attr EXCEPT ![n] = Fresh]
             /\ before' = Touched(p, n)
             /\ gone' = IF SetUnderWay(n) THEN gone
                        ELSE gone \cup ({n} \X (attr[n].addrs \cup attr[n].groups))
             /\ Goto(p, "dreport")
             /\ UNCHANGED <<cmd, ic, left, warned, fell, made>>
    <3>1. attr' \in [Iface -> Attributes] /\ \A m \in Iface \ present' : attr'[m] = Fresh
        BY <1>0, <2>2, FreshTyped DEF TypeOK
    <3>2. gone' \subseteq gone \cup ({n} \X (attr[n].addrs \cup attr[n].groups))
        BY <2>2
    <3>3. gone' \subseteq Iface \X (Addr \cup Group)
        BY <1>0, <3>2, FieldsTyped DEF TypeOK
    <3>4. QED BY <1>5, <2>2, <3>1, <3>3, TouchedTyped DEF Destroy, TypeOK, Goto, SetPc, DelPc
  <2>3. QED BY <1>5, <2>1, <2>2 DEF Destroy, n
<1>6. CASE DReport(p)
    BY <1>6, EndTyped DEF DReport
<1>7. QED BY <1>1, <1>2, <1>3, <1>4, <1>5, <1>6 DEF DelStep

LEMMA BeginTyped ==
    ASSUME TypeOK, NEW p \in Proc, kind' = kind,
           \/ \E c \in SetCmd : BeginSet(p, c)
           \/ \E c \in DelCmd : BeginDelete(p, c)
    PROVE  TypeOK'
<1>1. ASSUME NEW c \in SetCmd, BeginSet(p, c)
      PROVE  TypeOK'
  <2>1. {attr[c.n]} \in Optional(Attributes)
      BY CommandTyped DEF TypeOK, Optional
  <2>2. gone' \subseteq gone
      BY <1>1 DEF BeginSet
  <2>3. c.typo \in BOOLEAN
      BY Shape DEF SetCommands
  <2>4. warned' \in [Proc -> BOOLEAN]
    <3>1. warned' = [warned EXCEPT ![p] = c.typo] /\ warned \in [Proc -> BOOLEAN]
        BY <1>1 DEF BeginSet, TypeOK
    <3>2. QED BY <2>3, <3>1
  <2>5. /\ pc' = [pc EXCEPT ![p] = "exists"] /\ cmd' = [cmd EXCEPT ![p] = c]
        /\ before' = [before EXCEPT ![p] = {attr[c.n]}]
        /\ UNCHANGED <<present, attr, ic, left, fell, made>>
      BY <1>1 DEF BeginSet, Goto, kernel
  <2>6. QED BY <2>1, <2>2, <2>4, <2>5 DEF TypeOK, SetPc, DelPc
<1>2. ASSUME NEW c \in DelCmd, BeginDelete(p, c)
      PROVE  TypeOK'
  <2>1. c.n \in Iface
      BY Shape DEF DelCommands
  <2>2. {attr[c.n]} \in Optional(Attributes)
      BY <2>1 DEF TypeOK, Optional
  <2>3. QED BY <1>2, <2>2 DEF BeginDelete, TypeOK, Goto, kernel, SetPc, DelPc
<1>3. QED BY <1>1, <1>2

LEMMA InitTyped ==
    ASSUME Init
    PROVE  TypeOK
<1>1. attr \in [Iface -> Attributes]
    BY Shape, FreshTyped DEF Init
<1>2. QED BY <1>1, NoConfigTyped, NoCmdTyped DEF Init, TypeOK, Optional, SetPc, DelPc

LEMMA NextTyped ==
    ASSUME TypeOK, [Next]_vars
    PROVE  TypeOK'
<1>1. CASE Next
    BY <1>1, BeginTyped, SetTyped, SaveTyped, DeleteTyped DEF Next, Step, SetStep
<1>2. CASE UNCHANGED vars
    BY <1>2 DEF vars, kernel, work, history, TypeOK
<1>3. QED BY <1>1, <1>2

\* The type invariant, for any processes, interfaces and commands.
THEOREM TypeCorrect == Spec => []TypeOK
BY InitTyped, NextTyped, PTL DEF Spec

-----------------------------------------------------------------------------
(* What a step of one process is to another.                               *)

\* The kernel as q, at work, sees it: its interface is as it was, or it is
\* noted that somebody changed it.
Seen(q) == Busy(q) =>
    \/ before'[q] = {}
    \/ before'[q] = before[q] /\ attr'[Name(q)] = attr[Name(q)]

\* Nothing of what q holds has changed.
Kept(q) ==
    /\ pc'[q] = pc[q] /\ cmd'[q] = cmd[q] /\ ic'[q] = ic[q]
    /\ left'[q] = left[q] /\ warned'[q] = warned[q] /\ fell'[q] = fell[q]

LEMMA WriteSeen ==
    ASSUME TypeOK, NEW p \in Proc, NEW n \in Iface, NEW r, Write(p, n, r),
           NEW q \in Proc \ {p}
    PROVE  Seen(q)
BY NameTyped DEF TypeOK, Write, Touched, Seen

LEMMA CloneSeen ==
    ASSUME TypeOK, NEW p \in Proc, NEW n \in Iface, Clone(p, n), kind' = kind,
           NEW q \in Proc \ {p}
    PROVE  Seen(q)
BY NameTyped, CloneTyped DEF TypeOK, Clone, Touched, Seen

LEMMA EndSeen ==
    ASSUME TypeOK, NEW p \in Proc, End(p), UNCHANGED kernel, NEW q \in Proc \ {p}
    PROVE  Seen(q) /\ Kept(q)
BY DEF TypeOK, End, Goto, kernel, Seen, Kept

LEMMA BeginFrame ==
    ASSUME TypeOK, NEW p \in Proc, NEW q \in Proc \ {p},
           \/ \E c \in SetCmd : BeginSet(p, c)
           \/ \E c \in DelCmd : BeginDelete(p, c)
    PROVE  Seen(q) /\ Kept(q)
BY DEF BeginSet, BeginDelete, TypeOK, Goto, kernel, Seen, Kept

LEMMA SetFrame ==
    ASSUME TypeOK, NEW p \in Proc, NEW q \in Proc \ {p}, kind' = kind,
           SetStep(p)
    PROVE  Seen(q) /\ Kept(q)
<1> DEFINE n == Name(p)
<1>0. n \in Iface
    BY NameTyped
<1>a. ASSUME NEW base, NEW e, Dispatch(p, base, e)
      PROVE  Seen(q) /\ Kept(q)
    BY <1>a, EndSeen DEF Dispatch, Throw, TypeOK, Goto, kernel, history, Seen, Kept
<1>b. ASSUME NEW r, NEW l, NEW c, Must(p, n, r, l, c)
      PROVE  Seen(q) /\ Kept(q)
    BY <1>0, <1>b, EndSeen, WriteSeen DEF Must, Throw, TypeOK, Goto, Kept
<1>1. CASE Exists(p) \/ List(p) \/ Meta(p) \/ TypeLookup(p) \/ Lookup(p) \/ FlagsGet(p)
    BY <1>a, <1>1 DEF Exists, List, Meta, TypeLookup, Lookup, FlagsGet,
                      TypeOK, Goto, kernel, history, Seen, Kept
<1>2. CASE TypeCreate(p) \/ Create(p)
  <2>1. CASE Throw(p)
      BY <2>1, EndSeen DEF Throw
  <2>2. ASSUME NEW m \in Iface, Clone(p, m), NEW l, Goto(p, l),
               UNCHANGED <<cmd, ic, left, warned, fell, gone>>
        PROVE  Seen(q) /\ Kept(q)
      BY <2>2, CloneSeen DEF TypeOK, Goto, Kept
  <2>3. QED BY <1>0, <1>2, <2>1, <2>2 DEF TypeCreate, Create, CloneNames
<1>3. CASE First(p) \/ Addrs(p) \/ DriverParam(p)
  <2>1. Seen(q)
      BY <1>0, <1>3, WriteSeen DEF First, Addrs, DriverParam, TypeOK, kernel, Seen
  <2>2. Kept(q)
      BY <1>3 DEF First, Addrs, DriverParam, TypeOK, Goto, Kept
  <2>3. QED BY <2>1, <2>2
<1>4. CASE SetMtu(p) \/ FlagsSet(p) \/ SetFib(p) \/ DriverAll(p)
    BY <1>b, <1>4 DEF SetMtu, FlagsSet, SetFib, DriverAll
<1>5. CASE Groups(p) \/ DriverRead(p)
    BY <1>5 DEF Groups, DriverRead, TypeOK, Goto, kernel, history, Seen, Kept
<1>6. CASE GroupAdd(p) \/ DriverItem(p)
  <2>1. CASE Throw(p)
      BY <2>1, EndSeen DEF Throw
  <2>2. ASSUME NEW r, Write(p, n, r), NEW c, ic' = [ic EXCEPT ![p] = c], NEW l,
               Goto(p, l), UNCHANGED <<cmd, left, warned, fell, made, gone>>
        PROVE  Seen(q) /\ Kept(q)
      BY <1>0, <2>2, WriteSeen DEF TypeOK, Goto, Kept
  <2>3. QED BY <1>6, <2>1, <2>2 DEF GroupAdd, DriverItem
<1>7. CASE SetDescr(p)
  <2>1. Seen(q)
      BY <1>0, <1>7, WriteSeen DEF SetDescr, TypeOK, kernel, Seen
  <2>2. Kept(q)
      BY <1>7 DEF SetDescr, TypeOK, Goto, Kept
  <2>3. QED BY <2>1, <2>2
<1>8. CASE DriverTunnel6(p) \/ Report(p)
    BY <1>8, EndSeen DEF DriverTunnel6, Report, Throw, TypeOK, Goto, kernel, Seen, Kept
<1>9. QED BY <1>1, <1>2, <1>3, <1>4, <1>5, <1>6, <1>7, <1>8 DEF SetStep

LEMMA DeleteFrame ==
    ASSUME TypeOK, NEW p \in Proc, NEW q \in Proc \ {p}, kind' = kind,
           DelStep(p)
    PROVE  Seen(q) /\ Kept(q)
<1> DEFINE n == Name(p)
<1>0. n \in Iface
    BY NameTyped
<1>1. CASE DExists(p) \/ DReport(p)
    BY <1>1, EndSeen DEF DExists, DReport, Throw, TypeOK, Goto, kernel, history, Seen, Kept
<1>2. CASE DList(p)
    BY <1>2 DEF DList, TypeOK, Goto, kernel, history, Seen, Kept
<1>3. CASE DGroup(p)
    BY <1>0, <1>3, EndSeen, WriteSeen DEF DGroup, Throw, Remove, TypeOK, Goto, Kept
<1>4. CASE DAddr(p)
  <2>1. Seen(q)
      BY <1>0, <1>4, WriteSeen DEF DAddr, Remove, TypeOK, kernel, Seen
  <2>2. Kept(q)
      BY <1>4 DEF DAddr, TypeOK, Goto, Kept
  <2>3. QED BY <2>1, <2>2
<1>5. CASE Destroy(p)
    BY <1>0, <1>5, EndSeen, NameTyped
       DEF Destroy, Throw, TypeOK, Goto, Touched, Seen, Kept
<1>6. QED BY <1>1, <1>2, <1>3, <1>4, <1>5 DEF DelStep

\* A step is one of a process p; every other process keeps what it holds.
LEMMA Frame ==
    ASSUME TypeOK, NEW p \in Proc, NEW q \in Proc \ {p}, kind' = kind,
           \/ \E c \in SetCmd : BeginSet(p, c)
           \/ \E c \in DelCmd : BeginDelete(p, c)
           \/ Step(p)
    PROVE  Seen(q) /\ Kept(q)
BY BeginFrame, SetFrame, DeleteFrame DEF Step

-----------------------------------------------------------------------------
(* What a step of a set does, and what a step of a delete does.            *)

\* s is what r becomes when a part of the configuration c is applied.
Applied(r, s, c) ==
    /\ Between(s.addrs, r.addrs, c.first \cup c.addrs)
    /\ Between(s.groups, r.groups, c.groups)
    /\ s.mtu \in {r.mtu} \cup c.mtu /\ s.fib \in {r.fib} \cup c.vrf
    /\ s.descr \in {r.descr} \cup c.descr /\ (r.up => s.up)

\* Everything in the configuration d comes from the configuration c, the
\* attributes r or the command k.
Drawn(d, c, r, k) ==
    /\ d.first \cup d.addrs \subseteq c.first \cup c.addrs \cup r.addrs \cup k.addr
    /\ d.groups \subseteq c.groups \cup r.groups \cup k.group
    /\ d.mtu \subseteq c.mtu \cup k.mtu
    /\ d.vrf \subseteq c.vrf \cup {r.fib} \cup k.vrf
    /\ d.descr \subseteq c.descr \cup {r.descr} \cup k.descr

Goes(p) ==
    \/ pc'[p] = "idle" /\ ic'[p] = NoConfig /\ before'[p] = {}
    \/ /\ pc'[p] \in SetPc /\ cmd'[p] = cmd[p] /\ before'[p] = before[p]
       /\ Drawn(ic'[p], ic[p], attr[Name(p)], cmd[p])

SetEffect(p) ==
    /\ gone' = gone
    /\ \A m \in Iface \ {Name(p)} : attr'[m] = attr[m]
    /\ Applied(attr[Name(p)], attr'[Name(p)], ic[p])
    /\ Goes(p)

LEMMA AppliedNothing ==
    ASSUME NEW r, NEW c
    PROVE  Applied(r, r, c)
BY DEF Applied, Between

LEMMA EndGoes ==
    ASSUME TypeOK, NEW p \in Proc, End(p)
    PROVE  Goes(p)
BY DEF TypeOK, End, Goto, Goes

\* A step that leaves the kernel alone.
LEMMA QuietEffect ==
    ASSUME TypeOK, NEW p \in Proc, attr' = attr, gone' = gone, Goes(p)
    PROVE  SetEffect(p)
BY AppliedNothing DEF SetEffect

LEMMA WriteEffect ==
    ASSUME TypeOK, NEW p \in Proc, NEW r, Write(p, Name(p), r),
           Applied(attr[Name(p)], r, ic[p]), gone' = gone, Goes(p)
    PROVE  SetEffect(p)
BY NameTyped DEF SetEffect, Write, TypeOK

LEMMA WriteBefore ==
    ASSUME TypeOK, NEW p \in Proc, NEW n, NEW r, Write(p, n, r)
    PROVE  before'[p] = before[p]
BY DEF TypeOK, Write, Touched

LEMMA DispatchEffect ==
    ASSUME TypeOK, NEW p \in Proc, NEW base \in Configs, NEW e \in BOOLEAN,
           pc[p] \in SetPc, Dispatch(p, base, e), Drawn(base, ic[p], attr[Name(p)], cmd[p])
    PROVE  SetEffect(p)
<1>1. CASE Throw(p)
    BY <1>1, EndGoes, QuietEffect DEF Throw, kernel
<1>2. CASE /\ ic' = [ic EXCEPT ![p] = Asked(p, base, e)]
           /\ Goto(p, IF HandledAs(p, base) THEN "typeLookup" ELSE "lookup")
           /\ UNCHANGED <<kernel, cmd, left, history>>
  <2>1. /\ ic'[p] = Asked(p, base, e)
        /\ pc'[p] \in SetPc /\ cmd'[p] = cmd[p] /\ before'[p] = before[p]
      BY <1>2 DEF TypeOK, Goto, history, SetPc
  <2>2. Drawn(Asked(p, base, e), ic[p], attr[Name(p)], cmd[p])
    <3> DEFINE d == Asked(p, base, e)
               k == cmd[p]
    <3>1. k \in SetCmd
        BY DEF TypeOK
    <3>2. /\ d.first \cup d.addrs = base.first \cup base.addrs \cup k.addr
          /\ d.groups = base.groups \cup k.group /\ d.mtu = k.mtu
          /\ d.vrf \in {base.vrf, k.vrf} /\ d.descr \in {base.descr, k.descr}
        BY <3>1, AskedTyped
    <3> HIDE DEF d, k
    <3>3. Drawn(base, ic[p], attr[Name(p)], k)
        BY DEF k
    <3>4. Drawn(d, ic[p], attr[Name(p)], k)
        BY <3>2, <3>3 DEF Drawn
    <3>5. QED BY <3>4 DEF d, k
  <2>3. QED BY <1>2, <2>1, <2>2, QuietEffect DEF Goes, kernel, history
<1>3. QED BY <1>1, <1>2 DEF Dispatch

LEMMA MustEffect ==
    ASSUME TypeOK, NEW p \in Proc, NEW r, NEW l \in SetPc, NEW c,
           Must(p, Name(p), r, l, c), Applied(attr[Name(p)], r, ic[p]),
           Drawn(c, ic[p], attr[Name(p)], cmd[p])
    PROVE  SetEffect(p)
<1>1. CASE Throw(p)
    BY <1>1, EndGoes, QuietEffect DEF Throw, kernel
<1>2. CASE /\ Write(p, Name(p), r)
           /\ Goto(p, l)
           /\ ic' = [ic EXCEPT ![p] = c]
           /\ UNCHANGED <<cmd, left, warned, fell, made, gone>>
  <2>1. Goes(p)
      BY <1>2, WriteBefore DEF TypeOK, Goto, Goes
  <2>2. QED BY <1>2, <2>1, WriteEffect
<1>3. QED BY <1>1, <1>2 DEF Must

\* What is left of a configuration when a value is taken away is drawn from it.
LEMMA DrawnLess ==
    ASSUME NEW c \in Configs, NEW r, NEW k
    PROVE  /\ Drawn(c, c, r, k)
           /\ Drawn([c EXCEPT !.items = {}], c, r, k)
           /\ Drawn([c EXCEPT !.mtu = {}], c, r, k)
           /\ Drawn([c EXCEPT !.vrf = {}], c, r, k)
           /\ Drawn([c EXCEPT !.descr = {}], c, r, k)
BY DEF Drawn, Configs

\* The attributes a step writes are the old ones with a part of the
\* configuration applied.
LEMMA AppliedSome ==
    ASSUME NEW r \in Attributes, NEW c \in Configs
    PROVE  /\ \A g \in c.groups : Applied(r, [r EXCEPT !.groups = @ \cup {g}], c)
           /\ \A v \in c.mtu : Applied(r, [r EXCEPT !.mtu = v], c)
           /\ \A v \in c.vrf : Applied(r, [r EXCEPT !.fib = v], c)
           /\ \A v \in c.descr : Applied(r, [r EXCEPT !.descr = v], c)
           /\ \A i : Applied(r, [r EXCEPT !.items = i], c)
           /\ Applied(r, [r EXCEPT !.up = TRUE], c)
BY DEF Applied, Between, Attributes, Configs

LEMMA WithAddrBare ==
    ASSUME NEW r \in Attributes, NEW a \in Addr
    PROVE  /\ WithAddr(r, a, TRUE).bare = r.bare \cup {a}
           /\ WithAddr(r, a, FALSE).bare = r.bare \ {a}
BY DEF WithAddr, Attributes

LEMMA WithAddrApplied ==
    ASSUME NEW r \in Attributes, NEW c \in Configs, NEW a \in Addr,
           a \in c.first \/ a \in c.addrs, NEW b \in BOOLEAN
    PROVE  Applied(r, WithAddr(r, a, b), c)
<1> DEFINE s == WithAddr(r, a, b)
<1>1. /\ s.addrs = r.addrs \cup {a} /\ s.groups = r.groups /\ s.mtu = r.mtu
      /\ s.fib = r.fib /\ s.descr = r.descr /\ s.up = r.up
    BY DEF WithAddr, Attributes
<1> HIDE DEF s
<1>2. Applied(r, s, c)
    BY <1>1 DEF Applied, Between
<1>3. QED BY <1>2 DEF s

\* A step that keeps the command and leaves a part of its configuration.
LEMMA OnGoes ==
    ASSUME TypeOK, NEW p \in Proc, NEW l \in SetPc, Goto(p, l), cmd' = cmd,
           before'[p] = before[p], Drawn(ic'[p], ic[p], attr[Name(p)], cmd[p])
    PROVE  Goes(p)
BY DEF TypeOK, Goto, Goes

LEMMA SetDoes ==
    ASSUME TypeOK, NEW p \in Proc, kind' = kind, SetStep(p)
    PROVE  SetEffect(p)
<1> DEFINE n == Name(p)
<1>0. /\ n \in Iface /\ attr[n] \in Attributes /\ ic[p] \in Configs
      /\ attr[n].addrs \subseteq Addr /\ attr[n].groups \subseteq Group
    BY NameTyped, FieldsTyped
<1>a. Drawn(ic[p], ic[p], attr[n], cmd[p])
    BY <1>0, DrawnLess
<1>b. ASSUME Throw(p)
      PROVE  SetEffect(p)
    BY <1>b, EndGoes, QuietEffect DEF Throw, kernel
<1>1. CASE Exists(p)
  <2>1. Drawn(NoConfig, ic[p], attr[n], cmd[p])
      BY DEF Drawn, NoConfig
  <2>2. CASE Dispatch(p, NoConfig, FALSE)
      BY <1>1, <2>1, <2>2, DispatchEffect, NoConfigTyped DEF Exists, SetPc
  <2>3. CASE Goto(p, "list") /\ UNCHANGED <<kernel, cmd, ic, left, history>>
    <3>1. Goes(p)
        BY <1>a, <2>3, OnGoes DEF history, SetPc
    <3>2. QED BY <2>3, <3>1, QuietEffect DEF kernel, history
  <2>4. QED BY <1>1, <2>2, <2>3 DEF Exists
<1>2. CASE List(p)
  <2>1. Drawn(NoConfig, ic[p], attr[n], cmd[p])
      BY DEF Drawn, NoConfig
  <2>2. CASE Dispatch(p, NoConfig, TRUE)
      BY <1>2, <2>1, <2>2, DispatchEffect, NoConfigTyped DEF List, SetPc
  <2>3. ASSUME NEW f \in Optional(attr[n].addrs),
               ic' = [ic EXCEPT ![p] = Listed(ic[p], attr[n], f)],
               Goto(p, "meta"), UNCHANGED <<kernel, cmd, left, history>>
        PROVE  SetEffect(p)
    <3>1. ic'[p] = Listed(ic[p], attr[n], f)
        BY <2>3 DEF TypeOK
    <3>2. Drawn(ic'[p], ic[p], attr[n], cmd[p])
        BY <1>0, <3>1, ListedTyped DEF Drawn
    <3>3. Goes(p)
        BY <2>3, <3>2, OnGoes DEF history, SetPc
    <3>4. QED BY <2>3, <3>3, QuietEffect DEF kernel, history
  <2>4. QED BY <1>2, <2>2, <2>3 DEF List, Listed
<1>3. CASE Meta(p)
  <2> DEFINE r == attr[n]
             found == [ic[p] EXCEPT !.groups = r.groups, !.vrf = {r.fib},
                                    !.descr = {r.descr} \ {NoDescr}]
  <2>1. {r.fib} \in Optional(Fib) /\ {r.descr} \ {NoDescr} \in Optional(Descr)
      BY <1>0 DEF Attributes, Optional
  <2>2. found \in Configs
      BY <1>0, <2>1 DEF Configs
  <2>3. Drawn(found, ic[p], attr[n], cmd[p])
      BY <1>0 DEF Drawn, Configs
  <2>4. QED BY <1>0, <1>3, <1>a, <2>2, <2>3, DispatchEffect DEF Meta, SetPc
<1>4. CASE TypeLookup(p) \/ Lookup(p) \/ FlagsGet(p)
  <2>1. PICK l \in SetPc : Goto(p, l)
      BY <1>4, ToTyped DEF TypeLookup, Lookup, FlagsGet, SetPc
  <2>2. UNCHANGED <<kernel, cmd, ic, left, history>>
      BY <1>4 DEF TypeLookup, Lookup, FlagsGet
  <2>3. Goes(p)
      BY <1>a, <2>1, <2>2, OnGoes DEF history
  <2>4. QED BY <2>2, <2>3, QuietEffect DEF kernel, history
<1>5. CASE TypeCreate(p) \/ Create(p)
  <2>1. ASSUME NEW m \in Iface, Clone(p, m), NEW l \in SetPc, Goto(p, l),
               UNCHANGED <<cmd, ic, left, warned, fell, gone>>
        PROVE  SetEffect(p)
    <3>1. attr' = attr /\ before'[p] = before[p]
        BY <2>1, CloneTyped DEF Clone, Touched, TypeOK
    <3>2. Goes(p)
        BY <1>a, <2>1, <3>1, OnGoes
    <3>3. QED BY <2>1, <3>1, <3>2, QuietEffect
  <2>2. AfterCreate(p) \in SetPc /\ ToFirst(ic[p]) \in SetPc /\ CloneNames(p) \subseteq Iface
      BY <1>0, ToTyped DEF AfterCreate, CloneNames, SetPc
  <2>3. QED BY <1>0, <1>5, <1>b, <2>1, <2>2 DEF TypeCreate, Create
<1>6. CASE Addrs(p)
  <2>1. PICK a \in ic[p].addrs :
          /\ ic' = [ic EXCEPT ![p] = [ic[p] EXCEPT !.addrs = @ \ {a}]]
          /\ Goto(p, ToAddrs([ic[p] EXCEPT !.addrs = @ \ {a}]))
          /\ \/ Write(p, n, WithAddr(attr[n], a, a \notin V4 \/ a \in ic[p].bare))
             \/ Write(p, n, WithAddr(attr[n], a, TRUE))
             \/ UNCHANGED <<kernel, before>>
      BY <1>6 DEF Addrs
  <2>2. ic'[p] = [ic[p] EXCEPT !.addrs = @ \ {a}] /\ a \in Addr
      BY <1>0, <2>1, FieldsTyped DEF TypeOK
  <2>3. Drawn(ic'[p], ic[p], attr[n], cmd[p])
      BY <1>0, <2>2 DEF Drawn, Configs
  <2>4. PICK l \in SetPc : Goto(p, l)
      BY <2>1, ToTyped
  <2>5. cmd' = cmd /\ gone' = gone
      BY <1>6 DEF Addrs
  <2>6. before'[p] = before[p]
      BY <2>1, WriteBefore DEF kernel
  <2>7. Goes(p)
      BY <2>3, <2>4, <2>5, <2>6, OnGoes
  <2>8. \A b \in BOOLEAN : Applied(attr[n], WithAddr(attr[n], a, b), ic[p])
      BY <1>0, <2>1, <2>2, WithAddrApplied
  <2>9. (a \notin V4 \/ a \in ic[p].bare) \in BOOLEAN
      OBVIOUS
  <2>10. QED BY <2>1, <2>5, <2>7, <2>8, <2>9, WriteEffect, QuietEffect DEF kernel
<1>7. CASE SetMtu(p)
  <2>1. PICK v \in ic[p].mtu :
          Must(p, n, [attr[n] EXCEPT !.mtu = v], "flagsGet", [ic[p] EXCEPT !.mtu = {}])
      BY <1>7 DEF SetMtu
  <2>2. Drawn([ic[p] EXCEPT !.mtu = {}], ic[p], attr[n], cmd[p])
      BY <1>0, DrawnLess
  <2>3. Applied(attr[n], [attr[n] EXCEPT !.mtu = v], ic[p])
      BY <1>0, AppliedSome
  <2>4. QED BY <2>1, <2>2, <2>3, MustEffect DEF SetPc
<1>8. CASE FlagsSet(p)
  <2>1. Applied(attr[n], [attr[n] EXCEPT !.up = TRUE], ic[p])
      BY <1>0, AppliedSome
  <2>2. QED BY <1>8, <1>a, <2>1, MustEffect, ToTyped DEF FlagsSet
<1>9. CASE SetFib(p)
  <2>1. PICK v \in ic[p].vrf :
          Must(p, n, [attr[n] EXCEPT !.fib = v], ToGroups(ic[p]), [ic[p] EXCEPT !.vrf = {}])
      BY <1>9 DEF SetFib
  <2>2. Drawn([ic[p] EXCEPT !.vrf = {}], ic[p], attr[n], cmd[p])
      BY <1>0, DrawnLess
  <2>3. Applied(attr[n], [attr[n] EXCEPT !.fib = v], ic[p])
      BY <1>0, AppliedSome
  <2>4. QED BY <2>1, <2>2, <2>3, MustEffect, ToTyped
<1>10. CASE Groups(p)
  <2> DEFINE new == ic[p].groups \ (IF n \in present THEN attr[n].groups ELSE {})
  <2>1. ic'[p] = [ic[p] EXCEPT !.groups = new]
      BY <1>10 DEF Groups, TypeOK
  <2>2. Drawn(ic'[p], ic[p], attr[n], cmd[p])
      BY <1>0, <2>1 DEF Drawn, Configs
  <2>3. PICK l \in SetPc : Goto(p, l)
      BY <1>10, ToTyped DEF Groups, SetPc
  <2>4. UNCHANGED <<kernel, cmd, left, history>>
      BY <1>10 DEF Groups
  <2>5. Goes(p)
      BY <2>2, <2>3, <2>4, OnGoes DEF history
  <2>6. QED BY <2>4, <2>5, QuietEffect DEF kernel, history
<1>11. CASE GroupAdd(p)
  <2>1. ASSUME NEW g \in ic[p].groups,
               Write(p, n, [attr[n] EXCEPT !.groups = @ \cup {g}]),
               ic' = [ic EXCEPT ![p].groups = ic[p].groups \ {g}],
               NEW l \in SetPc, Goto(p, l), UNCHANGED <<cmd, left, warned, fell, made, gone>>
        PROVE  SetEffect(p)
    <3>1. ic'[p] = [ic[p] EXCEPT !.groups = ic[p].groups \ {g}]
        BY <2>1 DEF TypeOK
    <3>2. Drawn(ic'[p], ic[p], attr[n], cmd[p])
        BY <1>0, <3>1 DEF Drawn, Configs
    <3>3. Goes(p)
        BY <2>1, <3>2, OnGoes, WriteBefore
    <3>4. Applied(attr[n], [attr[n] EXCEPT !.groups = @ \cup {g}], ic[p])
        BY <1>0, AppliedSome
    <3>5. QED BY <2>1, <3>3, <3>4, WriteEffect
  <2>2. "groupAdd" \in SetPc /\ ToDescr(ic[p]) \in SetPc
      BY ToTyped DEF SetPc
  <2>3. QED BY <1>11, <1>b, <2>1, <2>2 DEF GroupAdd
<1>12. CASE SetDescr(p)
  <2>1. ic'[p] = [ic[p] EXCEPT !.descr = {}]
      BY <1>12 DEF SetDescr, TypeOK
  <2>2. Drawn(ic'[p], ic[p], attr[n], cmd[p])
      BY <1>0, <2>1 DEF Drawn, Configs
  <2>3. before'[p] = before[p]
      BY <1>12, WriteBefore DEF SetDescr
  <2>4. Goes(p)
      BY <1>12, <2>2, <2>3, OnGoes, ToTyped DEF SetDescr
  <2>5. \A d \in ic[p].descr : Applied(attr[n], [attr[n] EXCEPT !.descr = d], ic[p])
      BY <1>0, AppliedSome
  <2>6. QED BY <1>12, <2>4, <2>5, WriteEffect, QuietEffect DEF SetDescr, kernel
<1>13. CASE DriverItem(p) \/ DriverParam(p)
  <2>1. ASSUME NEW i \in ic[p].items,
               \/ Write(p, n, [attr[n] EXCEPT !.items = @ \cup {i}])
               \/ UNCHANGED <<kernel, before>>,
               ic' = [ic EXCEPT ![p].items = ic[p].items \ {i}],
               NEW l \in SetPc, Goto(p, l), UNCHANGED <<cmd, left, fell, made, gone>>
        PROVE  SetEffect(p)
    <3>1. ic'[p] = [ic[p] EXCEPT !.items = ic[p].items \ {i}]
        BY <2>1 DEF TypeOK
    <3>2. Drawn(ic'[p], ic[p], attr[n], cmd[p])
        BY <1>0, <3>1 DEF Drawn, Configs
    <3>3. Goes(p)
        BY <2>1, <3>2, OnGoes, WriteBefore
    <3>4. Applied(attr[n], [attr[n] EXCEPT !.items = @ \cup {i}], ic[p])
        BY <1>0, AppliedSome
    <3>5. QED BY <2>1, <3>3, <3>4, WriteEffect, QuietEffect DEF kernel
  <2>2. "driver" \in SetPc /\ "report" \in SetPc
      BY DEF SetPc
  <2>3. CASE DriverItem(p)
      BY <1>b, <2>1, <2>2, <2>3 DEF DriverItem
  <2>4. CASE DriverParam(p)
      BY <2>1, <2>2, <2>4 DEF DriverParam
  <2>5. QED BY <1>13, <2>3, <2>4
<1>14. CASE DriverAll(p)
  <2>1. Applied(attr[n], [attr[n] EXCEPT !.items = ic[p].items], ic[p])
      BY <1>0, AppliedSome
  <2>2. Drawn([ic[p] EXCEPT !.items = {}], ic[p], attr[n], cmd[p])
      BY <1>0, DrawnLess
  <2>3. QED BY <1>14, <2>1, <2>2, MustEffect DEF DriverAll, SetPc
<1>15. CASE DriverTunnel6(p)
  <2>1. CASE /\ Goto(p, "report")
             /\ UNCHANGED <<kernel, cmd, ic, left, before, fell, made, gone>>
    <3>1. Goes(p)
        BY <1>a, <2>1, OnGoes DEF SetPc
    <3>2. QED BY <2>1, <3>1, QuietEffect DEF kernel
  <2>2. QED BY <1>15, <1>b, <2>1 DEF DriverTunnel6
<1>16. CASE Report(p)
    BY <1>16, EndGoes, QuietEffect DEF Report, kernel
<1>17. CASE First(p)
  <2>1. Goto(p, ToAddrs(ic[p])) /\ UNCHANGED <<cmd, ic, gone>>
      BY <1>17 DEF First
  <2>2. CASE UNCHANGED <<kernel, before>>
    <3>1. Goes(p)
        BY <1>a, <2>1, <2>2, ToTyped, OnGoes
    <3>2. QED BY <2>1, <2>2, <3>1, QuietEffect DEF kernel
  <2>3. ASSUME NEW a \in ic[p].first, Write(p, n, WithAddr(attr[n], a, TRUE))
        PROVE  SetEffect(p)
    <3>1. Goes(p)
        BY <1>a, <2>1, <2>3, ToTyped, OnGoes, WriteBefore
    <3>2. Applied(attr[n], WithAddr(attr[n], a, TRUE), ic[p])
        BY <1>0, <2>3, FieldsTyped, WithAddrApplied
    <3>3. QED BY <2>1, <2>3, <3>1, <3>2, WriteEffect
  <2>4. QED BY <1>17, <2>2, <2>3 DEF First
<1>18. CASE DriverRead(p)
  <2>1. PICK x \in {{}, attr[n].items} : ic' = [ic EXCEPT ![p].items = ic[p].items \cup x]
      BY <1>18 DEF DriverRead
  <2>2. ic'[p] = [ic[p] EXCEPT !.items = ic[p].items \cup x]
      BY <2>1 DEF TypeOK
  <2>3. Drawn(ic'[p], ic[p], attr[n], cmd[p])
      BY <1>0, <2>2 DEF Drawn, Configs
  <2>4. Goto(p, "driverSet") /\ UNCHANGED <<kernel, cmd, left, history>>
      BY <1>18 DEF DriverRead
  <2>5. Goes(p)
      BY <2>3, <2>4, OnGoes DEF history, SetPc
  <2>6. QED BY <2>4, <2>5, QuietEffect DEF kernel, history
<1>19. QED BY <1>1, <1>2, <1>3, <1>4, <1>5, <1>6, <1>7, <1>8, <1>9, <1>10,
              <1>11, <1>12, <1>13, <1>14, <1>15, <1>16, <1>17, <1>18 DEF SetStep

\* A delete removes addresses and groups, and writes them down as gone only
\* when no set of the interface is under way.
Facts(r) == r.addrs \cup r.groups

DelEffect(p) ==
    /\ pc'[p] \notin SetPc /\ (ic'[p] = ic[p] \/ ic'[p] = NoConfig)
    /\ \A m \in Iface : Facts(attr'[m]) \subseteq Facts(attr[m])
    /\ \/ gone' = gone
       \/ /\ ~SetUnderWay(Name(p))
          /\ \E X \in SUBSET Facts(attr[Name(p)]) :
                /\ gone' = gone \cup ({Name(p)} \X X)
                /\ Facts(attr'[Name(p)]) \cap X = {}

LEMMA DelDoes ==
    ASSUME TypeOK, NEW p \in Proc, kind' = kind, DelStep(p)
    PROVE  DelEffect(p)
<1> DEFINE n == Name(p)
<1>0. /\ n \in Iface /\ attr[n] \in Attributes
      /\ attr[n].addrs \subseteq Addr /\ attr[n].groups \subseteq Group
    BY NameTyped, FieldsTyped
<1>a. ASSUME Throw(p)
      PROVE  DelEffect(p)
    BY <1>a DEF Throw, End, Goto, kernel, TypeOK, DelEffect, Facts, SetPc
<1>b. ASSUME NEW X \in SUBSET Facts(attr[n]), NEW r, r.addrs \cup r.groups = Facts(attr[n]) \ X,
             Remove(p, n, X, r), pc'[p] \notin SetPc, ic' = ic
      PROVE  DelEffect(p)
  <2>1. attr' = [attr EXCEPT ![n] = r]
      BY <1>b DEF Remove, Write
  <2>2. Facts(attr'[n]) = Facts(attr[n]) \ X /\ \A m \in Iface \ {n} : Facts(attr'[m]) = Facts(attr[m])
      BY <1>0, <1>b, <2>1 DEF Facts, TypeOK
  <2>3. gone' = gone \/ (~SetUnderWay(n) /\ gone' = gone \cup ({n} \X X))
      BY <1>b DEF Remove
  <2>4. QED BY <1>b, <2>2, <2>3 DEF DelEffect
<1>1. CASE DExists(p)
  <2>1. CASE Throw(p)
      BY <1>a, <2>1
  <2>2. QED BY <1>1, <2>1 DEF DExists, Goto, kernel, history, TypeOK, DelEffect, Facts, SetPc
<1>2. CASE DGroup(p)
  <2>1. CASE /\ cmd[p].of \subseteq attr[n].groups
             /\ Remove(p, n, cmd[p].of, [attr[n] EXCEPT !.groups = @ \ cmd[p].of])
             /\ Goto(p, "dreport")
             /\ UNCHANGED <<cmd, ic, left, warned, fell, made>>
    <3> DEFINE r == [attr[n] EXCEPT !.groups = @ \ cmd[p].of]
    <3>1. r.addrs = attr[n].addrs /\ r.groups = attr[n].groups \ cmd[p].of
        BY <1>0 DEF Attributes
    <3>2. attr[n].addrs \cap cmd[p].of = {}
        BY <1>0, <2>1, Shape
    <3>3. r.addrs \cup r.groups = Facts(attr[n]) \ cmd[p].of
        BY <3>1, <3>2 DEF Facts
    <3>4. pc'[p] \notin SetPc /\ cmd[p].of \in SUBSET Facts(attr[n])
        BY <2>1 DEF Goto, TypeOK, SetPc, Facts
    <3> HIDE DEF r
    <3>5. QED BY <1>b, <2>1, <3>3, <3>4 DEF r
  <2>2. QED BY <1>2, <1>a, <2>1 DEF DGroup
<1>3. CASE DList(p)
    BY <1>3 DEF DList, Goto, kernel, history, TypeOK, DelEffect, Facts, SetPc
<1>4. CASE DAddr(p)
  <2>1. PICK a \in left[p] :
          /\ Goto(p, IF left'[p] # {} THEN "daddr" ELSE "dreport")
          /\ \/ /\ a \in V4 \cap attr[n].addrs
                /\ Remove(p, n, {a}, [attr[n] EXCEPT !.addrs = @ \ {a}, !.bare = @ \ {a}])
                /\ UNCHANGED warned
             \/ /\ warned' = [warned EXCEPT ![p] = a \in V4 \/ warned[p]]
                /\ UNCHANGED <<kernel, before, gone>>
      BY <1>4 DEF DAddr
  <2>2. pc'[p] \notin SetPc /\ ic' = ic
      BY <1>4, <2>1 DEF DAddr, Goto, TypeOK, SetPc
  <2>3. CASE /\ a \in attr[n].addrs
             /\ Remove(p, n, {a}, [attr[n] EXCEPT !.addrs = @ \ {a}, !.bare = @ \ {a}])
    <3> DEFINE r == [attr[n] EXCEPT !.addrs = @ \ {a}, !.bare = @ \ {a}]
    <3>1. r.addrs = attr[n].addrs \ {a} /\ r.groups = attr[n].groups
        BY <1>0 DEF Attributes
    <3>2. a \notin attr[n].groups
        BY <1>0, <2>3, Shape
    <3>3. r.addrs \cup r.groups = Facts(attr[n]) \ {a}
        BY <3>1, <3>2 DEF Facts
    <3>4. {a} \in SUBSET Facts(attr[n])
        BY <2>3 DEF Facts
    <3> HIDE DEF r
    <3>5. QED BY <1>b, <2>2, <2>3, <3>3, <3>4 DEF r
  <2>4. CASE UNCHANGED <<kernel, before, gone>>
      BY <2>2, <2>4 DEF kernel, DelEffect, Facts
  <2>5. QED BY <2>1, <2>3, <2>4
<1>5. CASE Destroy(p)
  <2>1. CASE /\ attr' = [attr EXCEPT ![n] = Fresh]
             /\ gone' = IF SetUnderWay(n) THEN gone
                        ELSE gone \cup ({n} \X (attr[n].addrs \cup attr[n].groups))
             /\ Goto(p, "dreport")
             /\ UNCHANGED <<cmd, ic, left, warned, fell, made>>
    <3>1. Facts(attr'[n]) = {} /\ \A m \in Iface \ {n} : Facts(attr'[m]) = Facts(attr[m])
        BY <1>0, <2>1 DEF Facts, TypeOK, Fresh
    <3>2. gone' = gone \/ (~SetUnderWay(n) /\ gone' = gone \cup ({n} \X Facts(attr[n])))
        BY <2>1 DEF Facts
    <3>3. pc'[p] \notin SetPc
        BY <2>1 DEF Goto, TypeOK, SetPc
    <3>4. QED BY <2>1, <3>1, <3>2, <3>3 DEF DelEffect
  <2>2. QED BY <1>5, <1>a, <2>1 DEF Destroy
<1>6. CASE DReport(p)
    BY <1>6 DEF DReport, End, Goto, kernel, TypeOK, DelEffect, Facts, SetPc
<1>7. QED BY <1>1, <1>2, <1>3, <1>4, <1>5, <1>6 DEF DelStep

-----------------------------------------------------------------------------
(* What was deleted stays deleted.                                         *)

\* The addresses and groups a set has still to add, or would add if it goes on.
Carried(p) ==
    ic[p].first \cup ic[p].addrs \cup ic[p].groups \cup cmd[p].addr \cup cmd[p].group

\* No set under way carries anything that is gone, and nothing is left of the
\* configuration of the last command when a new one begins.
GoneInv ==
    /\ TypeOK
    /\ DeletedStaysGone
    /\ \A p \in Proc : pc[p] \in SetPc => ({Name(p)} \X Carried(p)) \cap gone = {}
    /\ \A p \in Proc : pc[p] \notin SetPc => ic[p].first \cup ic[p].addrs \cup ic[p].groups = {}

LEMMA BeginGone ==
    ASSUME GoneInv, NEW p \in Proc, kind' = kind,
           \/ \E c \in SetCmd : BeginSet(p, c)
           \/ \E c \in DelCmd : BeginDelete(p, c)
    PROVE  GoneInv'
<1>1. ASSUME NEW c \in SetCmd, BeginSet(p, c)
      PROVE  GoneInv'
  <2>1. /\ gone' = gone \ ({c.n} \X (c.addr \cup c.group))
        /\ attr' = attr /\ ic' = ic
        /\ pc' = [pc EXCEPT ![p] = "exists"] /\ cmd' = [cmd EXCEPT ![p] = c]
      BY <1>1 DEF BeginSet, Goto, kernel
  <2>2. TypeOK'
      BY <1>1, BeginTyped DEF GoneInv
  <2>3. DeletedStaysGone'
      BY <2>1 DEF GoneInv, DeletedStaysGone
  <2>4. ASSUME NEW q \in Proc, pc'[q] \in SetPc
        PROVE  (({Name(q)} \X Carried(q)) \cap gone)' = {}
    <3>1. CASE q = p
      <4>1. Name(q)' = c.n /\ Carried(q)' = c.addr \cup c.group
          BY <1>1, <2>1, <3>1 DEF GoneInv, TypeOK, BeginSet, Name, Carried, SetPc
      <4>2. QED BY <2>1, <4>1
    <3>2. CASE q # p
      <4>1. Name(q)' = Name(q) /\ Carried(q)' = Carried(q) /\ pc[q] \in SetPc
          BY <2>1, <2>4, <3>2 DEF GoneInv, TypeOK, Name, Carried
      <4>2. QED BY <2>1, <4>1 DEF GoneInv
    <3>3. QED BY <3>1, <3>2
  <2>5. ASSUME NEW q \in Proc, pc'[q] \notin SetPc
        PROVE  (ic[q].first \cup ic[q].addrs \cup ic[q].groups)' = {}
      BY <1>1, <2>1, <2>5 DEF GoneInv, TypeOK, BeginSet, SetPc
  <2>6. QED BY <2>2, <2>3, <2>4, <2>5 DEF GoneInv
<1>2. ASSUME NEW c \in DelCmd, BeginDelete(p, c)
      PROVE  GoneInv'
  <2>1. /\ gone' = gone /\ attr' = attr /\ ic' = ic
        /\ pc' = [pc EXCEPT ![p] = "dexists"] /\ cmd' = [cmd EXCEPT ![p] = c]
      BY <1>2 DEF BeginDelete, Goto, kernel
  <2>2. TypeOK'
      BY <1>2, BeginTyped DEF GoneInv
  <2>3. DeletedStaysGone'
      BY <2>1 DEF GoneInv, DeletedStaysGone
  <2>4. ASSUME NEW q \in Proc, pc'[q] \in SetPc
        PROVE  (({Name(q)} \X Carried(q)) \cap gone)' = {}
    <3>1. q # p
        BY <2>1, <2>4 DEF GoneInv, TypeOK, SetPc
    <3>2. Name(q)' = Name(q) /\ Carried(q)' = Carried(q) /\ pc[q] \in SetPc
        BY <2>1, <2>4, <3>1 DEF GoneInv, TypeOK, Name, Carried
    <3>3. QED BY <2>1, <3>2 DEF GoneInv
  <2>5. ASSUME NEW q \in Proc, pc'[q] \notin SetPc
        PROVE  (ic[q].first \cup ic[q].addrs \cup ic[q].groups)' = {}
      BY <1>2, <2>1, <2>5 DEF GoneInv, TypeOK, BeginDelete, SetPc
  <2>6. QED BY <2>2, <2>3, <2>4, <2>5 DEF GoneInv
<1>3. QED BY <1>1, <1>2

LEMMA SetGone ==
    ASSUME GoneInv, NEW p \in Proc, kind' = kind, SetStep(p), pc[p] \in SetPc
    PROVE  GoneInv'
<1>1. TypeOK'
    BY SetTyped, SaveTyped DEF GoneInv, SetStep
<1>2. SetEffect(p)
    BY SetDoes DEF GoneInv
<1>3. Name(p) \in Iface
    BY NameTyped DEF GoneInv
<1>4. Facts(attr'[Name(p)]) \subseteq Facts(attr[Name(p)]) \cup Carried(p)
    BY <1>2 DEF SetEffect, Applied, Between, Facts, Carried, Name
<1>5. DeletedStaysGone'
  <2>1. ASSUME NEW m \in Iface
        PROVE  ({m} \X Facts(attr'[m])) \cap gone' = {}
    <3>1. CASE m = Name(p)
      <4>1. ({m} \X Carried(p)) \cap gone = {} /\ ({m} \X Facts(attr[m])) \cap gone = {}
          BY <3>1 DEF GoneInv, DeletedStaysGone, Facts
      <4>2. Facts(attr'[m]) \subseteq Facts(attr[m]) \cup Carried(p) /\ gone' = gone
          BY <1>2, <1>4, <3>1 DEF SetEffect
      <4>3. QED BY <4>1, <4>2
    <3>2. CASE m # Name(p)
        BY <1>2, <3>2 DEF GoneInv, DeletedStaysGone, SetEffect, Facts
    <3>3. QED BY <3>1, <3>2
  <2>2. QED BY <2>1 DEF DeletedStaysGone, Facts
<1>6. ASSUME NEW q \in Proc, pc'[q] \in SetPc
      PROVE  (({Name(q)} \X Carried(q)) \cap gone)' = {}
  <2>1. CASE q = p
    <3>1. cmd'[p] = cmd[p] /\ Drawn(ic'[p], ic[p], attr[Name(p)], cmd[p])
        BY <1>2, <1>6, <2>1 DEF SetEffect, Goes, SetPc
    <3>2. Name(p)' = Name(p) /\ Carried(p)' \subseteq Carried(p) \cup Facts(attr[Name(p)])
        BY <3>1 DEF Drawn, Name, Carried, Facts
    <3>3. QED BY <1>2, <1>3, <2>1, <3>2 DEF GoneInv, DeletedStaysGone, SetEffect, Facts
  <2>2. CASE q # p
    <3>1. Kept(q)
        BY <2>2, SetFrame DEF GoneInv
    <3>2. Name(q)' = Name(q) /\ Carried(q)' = Carried(q) /\ pc[q] \in SetPc
        BY <1>6, <3>1 DEF Kept, Name, Carried
    <3>3. QED BY <1>2, <3>2 DEF GoneInv, SetEffect
  <2>3. QED BY <2>1, <2>2
<1>7. ASSUME NEW q \in Proc, pc'[q] \notin SetPc
      PROVE  (ic[q].first \cup ic[q].addrs \cup ic[q].groups)' = {}
  <2>1. CASE q = p
      BY <1>2, <1>7, <2>1 DEF SetEffect, Goes, NoConfig
  <2>2. CASE q # p
      BY <1>7, <2>2, SetFrame DEF GoneInv, Kept
  <2>3. QED BY <2>1, <2>2
<1>8. QED BY <1>1, <1>5, <1>6, <1>7 DEF GoneInv

LEMMA DelGone ==
    ASSUME GoneInv, NEW p \in Proc, kind' = kind, DelStep(p), pc[p] \in DelPc
    PROVE  GoneInv'
<1>1. TypeOK'
    BY DeleteTyped DEF GoneInv
<1>2. DelEffect(p)
    BY DelDoes DEF GoneInv
<1>3. DeletedStaysGone'
  <2>1. ASSUME NEW m \in Iface
        PROVE  ({m} \X Facts(attr'[m])) \cap gone' = {}
    <3>1. ({m} \X Facts(attr[m])) \cap gone = {}
        BY DEF GoneInv, DeletedStaysGone, Facts
    <3>2. Facts(attr'[m]) \subseteq Facts(attr[m])
        BY <1>2 DEF DelEffect
    <3>3. QED BY <1>2, <3>1, <3>2 DEF DelEffect
  <2>2. QED BY <2>1 DEF DeletedStaysGone, Facts
<1>4. ASSUME NEW q \in Proc, pc'[q] \in SetPc
      PROVE  (({Name(q)} \X Carried(q)) \cap gone)' = {}
  <2>1. q # p
      BY <1>2, <1>4 DEF DelEffect
  <2>2. Kept(q)
      BY <2>1, DeleteFrame DEF GoneInv
  <2>3. Name(q)' = Name(q) /\ Carried(q)' = Carried(q) /\ pc[q] \in SetPc
      BY <1>4, <2>2 DEF Kept, Name, Carried
  <2>4. ({Name(q)} \X Carried(q)) \cap gone = {} /\ SetUnderWay(Name(q))
      BY <2>3 DEF GoneInv, SetUnderWay
  <2>5. QED BY <1>2, <2>3, <2>4 DEF DelEffect
<1>5. ASSUME NEW q \in Proc, pc'[q] \notin SetPc
      PROVE  (ic[q].first \cup ic[q].addrs \cup ic[q].groups)' = {}
  <2>1. CASE q = p
    <3>1. ic[p].first \cup ic[p].addrs \cup ic[p].groups = {}
        BY DEF GoneInv, SetPc, DelPc
    <3>2. QED BY <1>2, <2>1, <3>1 DEF DelEffect, NoConfig
  <2>2. CASE q # p
      BY <1>5, <2>2, DeleteFrame DEF GoneInv, Kept
  <2>3. QED BY <2>1, <2>2
<1>6. QED BY <1>1, <1>3, <1>4, <1>5 DEF GoneInv

\* The steps of a set are taken by a process running a set, and so for delete.
LEMMA StepPc ==
    ASSUME NEW p \in Proc
    PROVE  (SetStep(p) => pc[p] \in SetPc) /\ (DelStep(p) => pc[p] \in DelPc)
BY DEF SetStep, Exists, List, Meta, TypeLookup, TypeCreate, Lookup, Create, First,
       Addrs, SetMtu, FlagsGet, FlagsSet, SetFib, Groups, GroupAdd, SetDescr, DriverItem,
       DriverParam, DriverRead, DriverAll, DriverTunnel6, Report, SetPc, DelStep, DExists, DGroup, DList,
       DAddr, Destroy, DReport, DelPc

\* However sets and deletes interleave and fail, an address or group deleted
\* while no set of its interface was under way is not added again until a
\* command names it.
THEOREM DeletionIsFinal == Spec => []DeletedStaysGone
<1>1. Init => GoneInv
  <2> SUFFICES ASSUME Init PROVE GoneInv
      OBVIOUS
  <2>1. gone = {} /\ \A p \in Proc : pc[p] = "idle" /\ ic[p] = NoConfig
      BY DEF Init
  <2>2. QED BY <2>1, InitTyped DEF GoneInv, DeletedStaysGone, NoConfig, SetPc
<1>2. GoneInv /\ [Next]_vars => GoneInv'
  <2> SUFFICES ASSUME GoneInv, [Next]_vars PROVE GoneInv'
      OBVIOUS
  <2>1. CASE Next
      BY <2>1, BeginGone, SetGone, DelGone, StepPc DEF Next, Step
  <2>2. CASE UNCHANGED vars
    <3>1. TypeOK'
        BY <2>2, NextTyped DEF GoneInv
    <3>2. UNCHANGED <<attr, pc, cmd, ic, gone>>
        BY <2>2 DEF vars, kernel, work, history
    <3>3. QED BY <3>1, <3>2 DEF GoneInv, DeletedStaysGone, Carried, Name
  <2>3. QED BY <2>1, <2>2
<1>3. GoneInv => DeletedStaysGone
    BY DEF GoneInv
<1>4. QED BY <1>1, <1>2, <1>3, PTL DEF Spec

-----------------------------------------------------------------------------
(* A snapshot that is written back does no harm.                           *)

\* r differs from b only as the command c asks.
Harmless(r, b, c) ==
    /\ Between(r.addrs, b.addrs, c.addr) /\ Between(r.groups, b.groups, c.group)
    /\ r.mtu \in {b.mtu} \cup c.mtu /\ r.fib \in {b.fib} \cup c.vrf
    /\ r.descr \in {b.descr} \cup c.descr /\ (b.up => r.up)

\* While nobody has interfered, what is left to save comes from the interface
\* as it was or from the command; and nothing is left of an earlier command.
SnapInv ==
    /\ TypeOK
    /\ \A p \in Proc : pc[p] \in SetPc => \A b \in before[p] :
          /\ Harmless(attr[Name(p)], b, cmd[p])
          /\ Drawn(ic[p], NoConfig, b, cmd[p])
    /\ \A p \in Proc : pc[p] \notin SetPc => ic[p] = NoConfig

\* The two parts of SnapInv about one process, after a step.
Snap(q) ==
    /\ pc'[q] \in SetPc => \A b \in before'[q] :
          /\ Harmless(attr'[cmd'[q].n], b, cmd'[q])
          /\ Drawn(ic'[q], NoConfig, b, cmd'[q])
    /\ pc'[q] \notin SetPc => ic'[q] = NoConfig

LEMMA SnapAll ==
    ASSUME TypeOK', \A q \in Proc : Snap(q)
    PROVE  SnapInv'
BY DEF SnapInv, Snap, Name

\* Applying what is drawn from b and the command keeps the interface harmless.
LEMMA HarmlessStep ==
    ASSUME NEW r, NEW s, NEW b, NEW c, NEW d, NEW k,
           Harmless(r, b, k), Drawn(c, NoConfig, b, k), Applied(r, s, c),
           Drawn(d, c, r, k)
    PROVE  Harmless(s, b, k) /\ Drawn(d, NoConfig, b, k)
BY DEF Harmless, Drawn, Applied, Between, NoConfig

LEMMA OthersSnap ==
    ASSUME SnapInv, NEW q \in Proc, Seen(q), Kept(q)
    PROVE  Snap(q)
<1>1. CASE pc[q] \in SetPc
  <2>1. Busy(q)
      BY <1>1 DEF Busy, SetPc
  <2>2. QED BY <1>1, <2>1 DEF SnapInv, Seen, Kept, Snap, Name
<1>2. CASE pc[q] \notin SetPc
    BY <1>2 DEF SnapInv, Kept, Snap
<1>3. QED BY <1>1, <1>2

LEMMA SetSnap ==
    ASSUME SnapInv, NEW p \in Proc, kind' = kind, SetStep(p)
    PROVE  Snap(p)
<1>1. SetEffect(p) /\ pc[p] \in SetPc
    BY SetDoes, StepPc DEF SnapInv
<1>2. CASE pc'[p] = "idle" /\ ic'[p] = NoConfig
    BY <1>2 DEF Snap, SetPc
<1>3. CASE /\ pc'[p] \in SetPc /\ cmd'[p] = cmd[p] /\ before'[p] = before[p]
           /\ Drawn(ic'[p], ic[p], attr[Name(p)], cmd[p])
  <2>1. ASSUME NEW b \in before[p]
        PROVE  /\ Harmless(attr'[Name(p)], b, cmd[p])
               /\ Drawn(ic'[p], NoConfig, b, cmd[p])
    <3>1. /\ Harmless(attr[Name(p)], b, cmd[p])
          /\ Drawn(ic[p], NoConfig, b, cmd[p])
        BY <1>1 DEF SnapInv
    <3>2. Applied(attr[Name(p)], attr'[Name(p)], ic[p])
        BY <1>1 DEF SetEffect
    <3>3. QED BY <1>3, <3>1, <3>2, HarmlessStep
  <2>2. QED BY <1>3, <2>1 DEF Snap, Name
<1>4. QED BY <1>1, <1>2, <1>3 DEF SetEffect, Goes

LEMMA DelSnap ==
    ASSUME SnapInv, NEW p \in Proc, kind' = kind, DelStep(p)
    PROVE  Snap(p)
<1>1. DelEffect(p) /\ pc[p] \in DelPc
    BY DelDoes, StepPc DEF SnapInv
<1>2. ic[p] = NoConfig
    BY <1>1 DEF SnapInv, SetPc, DelPc
<1>3. QED BY <1>1, <1>2 DEF DelEffect, Snap

LEMMA BeginSnap ==
    ASSUME SnapInv, NEW p \in Proc,
           \/ \E c \in SetCmd : BeginSet(p, c)
           \/ \E c \in DelCmd : BeginDelete(p, c)
    PROVE  Snap(p)
<1>1. ic'[p] = NoConfig
    BY DEF SnapInv, BeginSet, BeginDelete, SetPc
<1>2. ASSUME NEW c \in SetCmd, BeginSet(p, c)
      PROVE  Snap(p)
  <2>1. cmd'[p] = c /\ attr' = attr /\ before'[p] = {attr[c.n]} /\ pc'[p] = "exists"
      BY <1>2 DEF SnapInv, TypeOK, BeginSet, Goto, kernel
  <2>2. Harmless(attr[c.n], attr[c.n], c) /\ Drawn(NoConfig, NoConfig, attr[c.n], c)
      BY DEF Harmless, Between, Drawn, NoConfig
  <2>3. QED BY <1>1, <2>1, <2>2 DEF Snap, SetPc
<1>3. ASSUME NEW c \in DelCmd, BeginDelete(p, c)
      PROVE  Snap(p)
    BY <1>1, <1>3 DEF SnapInv, TypeOK, BeginDelete, Goto, Snap, SetPc
<1>4. QED BY <1>2, <1>3

\* The stages before what is to be saved is known.
Finding == {"exists", "list", "meta"}

\* While nobody has interfered, an address whose prefix length or lifetimes were
\* already bare still is, unless the command names it; an IPv4 address that is
\* bare was, or is the first, or was set by the fallback; and what is left to
\* save would keep it so.
Bare(p) ==
    pc[p] \in SetPc => \A b \in before[p] :
      LET r == attr[Name(p)]  i == ic[p]  c == cmd[p] IN
      /\ b.bare \ r.bare \subseteq c.addr
      /\ ~fell[p] => r.bare \cap V4 \subseteq b.bare \cup i.first
      /\ pc[p] \in Finding => r.bare = b.bare
      /\ pc[p] \notin {"exists", "list"} =>
           /\ (i.addrs \ i.bare) \cap b.bare \subseteq c.addr
           /\ ~fell[p] => i.bare \cap V4 \subseteq b.bare \cup i.first

\* A step that gives p's interface and configuration no other address.
Same(p) ==
    \/ pc'[p] = "idle"
    \/ /\ pc'[p] \in SetPc \ Finding /\ pc[p] \in SetPc \ Finding
       /\ cmd'[p] = cmd[p] /\ before'[p] = before[p] /\ fell'[p] = fell[p]
       /\ attr'[Name(p)].bare = attr[Name(p)].bare
       /\ ic'[p].first = ic[p].first /\ ic'[p].addrs = ic[p].addrs
       /\ ic'[p].bare = ic[p].bare

LEMMA SameBare ==
    ASSUME NEW p \in Proc, Bare(p), Same(p)
    PROVE  Bare(p)'
<1>1. CASE pc'[p] = "idle"
    BY <1>1 DEF Bare, SetPc
<1>2. CASE /\ pc'[p] \in SetPc \ Finding /\ pc[p] \in SetPc \ Finding
           /\ cmd'[p] = cmd[p] /\ before'[p] = before[p] /\ fell'[p] = fell[p]
           /\ attr'[Name(p)].bare = attr[Name(p)].bare
           /\ ic'[p].first = ic[p].first /\ ic'[p].addrs = ic[p].addrs
           /\ ic'[p].bare = ic[p].bare
  <2>1. Name(p)' = Name(p)
      BY <1>2 DEF Name
  <2>2. attr'[Name(p)'].bare = attr[Name(p)].bare
      BY <1>2, <2>1
  <2>3. QED BY <1>2, <2>2 DEF Bare, Finding
<1>3. QED BY <1>1, <1>2 DEF Same

LEMMA OthersBare ==
    ASSUME NEW q \in Proc, Bare(q), Seen(q), Kept(q)
    PROVE  Bare(q)'
<1> SUFFICES ASSUME pc'[q] \in SetPc, before'[q] # {}
             PROVE  Bare(q)'
    BY DEF Bare
<1>1. Busy(q) /\ pc'[q] = pc[q] /\ cmd'[q] = cmd[q] /\ ic'[q] = ic[q] /\ fell'[q] = fell[q]
    BY DEF Kept, Busy, SetPc
<1>2. before'[q] = before[q] /\ attr'[Name(q)] = attr[Name(q)] /\ Name(q)' = Name(q)
    BY <1>1 DEF Seen, Name
<1>3. attr'[Name(q)'] = attr[Name(q)]
    BY <1>2
<1>4. QED BY <1>1, <1>2, <1>3 DEF Bare

\* The stages that set no address.
LEMMA StageSame ==
    ASSUME TypeOK, NEW p \in Proc, kind' = kind,
           \/ TypeLookup(p) \/ TypeCreate(p) \/ Lookup(p) \/ Create(p)
           \/ SetMtu(p) \/ FlagsGet(p) \/ FlagsSet(p) \/ SetFib(p)
           \/ Groups(p) \/ GroupAdd(p) \/ SetDescr(p)
           \/ DriverItem(p) \/ DriverParam(p) \/ DriverRead(p) \/ DriverAll(p)
           \/ DriverTunnel6(p) \/ Report(p)
    PROVE  Same(p)
<1> DEFINE n == Name(p)
           r == attr[n]
           i == ic[p]
<1>0. n \in Iface /\ r \in Attributes /\ i \in Configs
    BY NameTyped, FieldsTyped
<1>a. ASSUME Throw(p)
      PROVE  Same(p)
    BY <1>a DEF Throw, End, Goto, TypeOK, Same
\* A step that goes to l, leaves the configuration d and the attributes t or r.
<1>b. ASSUME pc[p] \in SetPc \ Finding, NEW l \in SetPc \ Finding, Goto(p, l),
             NEW d, ic' = [ic EXCEPT ![p] = d],
             d.first = i.first, d.addrs = i.addrs, d.bare = i.bare,
             NEW t, t.bare = r.bare,
             Write(p, n, t) \/ UNCHANGED <<attr, before>>, UNCHANGED <<cmd, fell>>
      PROVE  Same(p)
  <2>1. pc'[p] = l /\ ic'[p] = d /\ cmd'[p] = cmd[p] /\ fell'[p] = fell[p]
      BY <1>b DEF TypeOK, Goto
  <2>2. before'[p] = before[p]
      BY <1>b, WriteBefore
  <2>3. attr'[n].bare = r.bare
      BY <1>0, <1>b DEF Write, TypeOK
  <2> HIDE DEF n, r, i
  <2>4. QED BY <1>b, <2>1, <2>2, <2>3 DEF Same, n, r, i
<1>c. ASSUME pc[p] \in SetPc \ Finding, NEW l \in SetPc \ Finding,
             NEW d, d.first = i.first, d.addrs = i.addrs, d.bare = i.bare,
             NEW t, t.bare = r.bare, Must(p, n, t, l, d)
      PROVE  Same(p)
    BY <1>a, <1>b, <1>c DEF Must
<1>d. ic' = ic => ic' = [ic EXCEPT ![p] = i]
    BY DEF TypeOK
<1>e. /\ ToDriver(i) \in SetPc \ Finding /\ ToDescr(i) \in SetPc \ Finding
      /\ ToGroups(i) \in SetPc \ Finding /\ ToFib(i) \in SetPc \ Finding
      /\ ToMtu(i) \in SetPc \ Finding /\ ToAddrs(i) \in SetPc \ Finding
      /\ ToFirst(i) \in SetPc \ Finding
    BY DEF ToDriver, ToDescr, ToGroups, ToFib, ToMtu, ToAddrs, ToFirst, SetPc, Finding
<1>f. {"typeLookup", "typeCreate", "lookup", "create", "mtu", "flagsGet", "flagsSet", "fib",
       "groups", "groupAdd", "descr", "driver", "driverSet", "report"} \subseteq SetPc \ Finding
    BY DEF SetPc, Finding
<1>g. /\ \A x : LET d == [i EXCEPT !.items = x] IN
                  d.first = i.first /\ d.addrs = i.addrs /\ d.bare = i.bare
      /\ \A x : LET d == [i EXCEPT !.groups = x] IN
                  d.first = i.first /\ d.addrs = i.addrs /\ d.bare = i.bare
      /\ LET d == [i EXCEPT !.mtu = {}] IN
           d.first = i.first /\ d.addrs = i.addrs /\ d.bare = i.bare
      /\ LET d == [i EXCEPT !.vrf = {}] IN
           d.first = i.first /\ d.addrs = i.addrs /\ d.bare = i.bare
      /\ LET d == [i EXCEPT !.descr = {}] IN
           d.first = i.first /\ d.addrs = i.addrs /\ d.bare = i.bare
    BY <1>0 DEF Configs
<1>h. /\ \A x : [r EXCEPT !.items = x].bare = r.bare
      /\ \A x : [r EXCEPT !.groups = x].bare = r.bare
      /\ \A x : [r EXCEPT !.mtu = x].bare = r.bare
      /\ \A x : [r EXCEPT !.fib = x].bare = r.bare
      /\ \A x : [r EXCEPT !.descr = x].bare = r.bare
      /\ [r EXCEPT !.up = TRUE].bare = r.bare
    BY <1>0 DEF Attributes
<1>1. CASE TypeLookup(p) \/ Lookup(p) \/ FlagsGet(p)
  <2>1. PICK l \in SetPc \ Finding : Goto(p, l)
      BY <1>1, <1>e, <1>f DEF TypeLookup, Lookup, FlagsGet
  <2>2. /\ pc[p] \in SetPc \ Finding
        /\ UNCHANGED <<attr, before, cmd, fell, ic>>
      BY <1>1, <1>f DEF TypeLookup, Lookup, FlagsGet, kernel, history
  <2>3. QED BY <1>b, <1>d, <2>1, <2>2
<1>2. CASE TypeCreate(p) \/ Create(p)
  <2>1. ASSUME NEW m \in Iface, Clone(p, m), NEW l \in SetPc \ Finding, Goto(p, l),
               UNCHANGED <<cmd, ic, fell>>
        PROVE  Same(p)
    <3>1. attr' = attr /\ before'[p] = before[p]
        BY <2>1, CloneTyped DEF Clone, Touched, TypeOK
    <3>2. pc[p] \in SetPc \ Finding /\ pc'[p] = l
        BY <1>2, <1>f, <2>1 DEF TypeCreate, Create, Goto, TypeOK
    <3>3. QED BY <2>1, <3>1, <3>2 DEF Same
  <2>2. AfterCreate(p) \in SetPc \ Finding
      BY <1>e, <1>f DEF AfterCreate
  <2>3. CloneNames(p) \subseteq Iface
      BY <1>0 DEF CloneNames
  <2>4. CASE TypeCreate(p)
      BY <1>a, <2>1, <2>2, <2>3, <2>4 DEF TypeCreate
  <2>5. CASE Create(p)
      BY <1>0, <1>a, <1>e, <2>1, <2>5 DEF Create
  <2>6. QED BY <1>2, <2>4, <2>5
<1>3. CASE SetMtu(p)
    BY <1>3, <1>c, <1>f, <1>g, <1>h DEF SetMtu
<1>4. CASE FlagsSet(p)
    BY <1>4, <1>c, <1>e, <1>f, <1>h DEF FlagsSet
<1>5. CASE SetFib(p)
    BY <1>5, <1>c, <1>e, <1>f, <1>g, <1>h DEF SetFib
<1>6. CASE Groups(p)
  <2> DEFINE new == i.groups \ (IF n \in present THEN r.groups ELSE {})
  <2>1. PICK l \in SetPc \ Finding : Goto(p, l)
      BY <1>6, <1>e, <1>f DEF Groups
  <2>2. /\ pc[p] \in SetPc \ Finding /\ UNCHANGED <<attr, before, cmd, fell>>
        /\ ic' = [ic EXCEPT ![p] = [i EXCEPT !.groups = new]]
      BY <1>6, <1>f DEF Groups, kernel, history
  <2> HIDE DEF new
  <2>3. QED BY <1>b, <1>g, <2>1, <2>2
<1>7. CASE GroupAdd(p)
  <2>1. ASSUME NEW g \in i.groups, Write(p, n, [r EXCEPT !.groups = @ \cup {g}]),
               ic' = [ic EXCEPT ![p].groups = i.groups \ {g}],
               NEW l \in SetPc \ Finding, Goto(p, l), UNCHANGED <<cmd, fell>>
        PROVE  Same(p)
    <3>1. ic' = [ic EXCEPT ![p] = [i EXCEPT !.groups = i.groups \ {g}]]
        BY <2>1
    <3>2. pc[p] \in SetPc \ Finding
        BY <1>7, <1>f DEF GroupAdd
    <3>3. QED BY <1>b, <1>g, <1>h, <2>1, <3>1, <3>2
  <2>2. QED BY <1>7, <1>a, <1>e, <1>f, <2>1 DEF GroupAdd
<1>8. CASE SetDescr(p)
  <2>1. /\ pc[p] \in SetPc \ Finding /\ Goto(p, ToDriver(i)) /\ UNCHANGED <<cmd, fell>>
        /\ ic' = [ic EXCEPT ![p] = [i EXCEPT !.descr = {}]]
      BY <1>8, <1>f DEF SetDescr
  <2>2. CASE UNCHANGED <<kernel, before>>
      BY <1>b, <1>e, <1>g, <2>1, <2>2 DEF kernel
  <2>3. ASSUME NEW d \in i.descr, Write(p, n, [r EXCEPT !.descr = d])
        PROVE  Same(p)
      BY <1>b, <1>e, <1>g, <1>h, <2>1, <2>3
  <2>4. QED BY <1>8, <2>2, <2>3 DEF SetDescr
<1>9. CASE DriverItem(p) \/ DriverParam(p)
  <2>1. ASSUME NEW x \in i.items,
               \/ Write(p, n, [r EXCEPT !.items = @ \cup {x}])
               \/ UNCHANGED <<kernel, before>>,
               ic' = [ic EXCEPT ![p].items = i.items \ {x}],
               NEW l \in SetPc \ Finding, Goto(p, l), UNCHANGED <<cmd, fell>>
        PROVE  Same(p)
    <3>1. ic' = [ic EXCEPT ![p] = [i EXCEPT !.items = i.items \ {x}]]
        BY <2>1
    <3>2. pc[p] \in SetPc \ Finding
        BY <1>9, <1>f DEF DriverItem, DriverParam
    <3>3. QED BY <1>b, <1>g, <1>h, <2>1, <3>1, <3>2 DEF kernel
  <2>2. CASE DriverItem(p)
      BY <1>a, <1>f, <2>1, <2>2 DEF DriverItem
  <2>3. CASE DriverParam(p)
      BY <1>f, <2>1, <2>3 DEF DriverParam
  <2>4. QED BY <1>9, <2>2, <2>3
<1>10. CASE DriverRead(p)
  <2>1. PICK x : ic' = [ic EXCEPT ![p].items = i.items \cup x]
      BY <1>10 DEF DriverRead
  <2>2. ic' = [ic EXCEPT ![p] = [i EXCEPT !.items = i.items \cup x]]
      BY <2>1
  <2>3. /\ pc[p] \in SetPc \ Finding /\ Goto(p, "driverSet")
        /\ UNCHANGED <<attr, before, cmd, fell>>
      BY <1>10, <1>f DEF DriverRead, kernel, history
  <2>4. QED BY <1>b, <1>f, <1>g, <2>2, <2>3
<1>11. CASE DriverAll(p)
  <2>1. pc[p] \in SetPc \ Finding
      BY <1>11, <1>f DEF DriverAll
  <2>2. QED BY <1>11, <1>c, <1>f, <1>g, <1>h, <2>1 DEF DriverAll
<1>12. CASE DriverTunnel6(p)
  <2>1. CASE Goto(p, "report") /\ UNCHANGED <<kernel, cmd, ic, left, before, fell, made, gone>>
    <3>1. pc[p] \in SetPc \ Finding /\ UNCHANGED <<attr, before, cmd, fell, ic>>
        BY <1>12, <1>f, <2>1 DEF DriverTunnel6, kernel
    <3>2. QED BY <1>b, <1>d, <1>f, <2>1, <3>1
  <2>2. QED BY <1>12, <1>a, <2>1 DEF DriverTunnel6
<1>13. CASE Report(p)
    BY <1>13 DEF Report, End, Goto, TypeOK, Same
<1>14. QED BY <1>1, <1>2, <1>3, <1>4, <1>5, <1>6, <1>7, <1>8, <1>9, <1>10, <1>11, <1>12, <1>13

\* The first address and the aliases.
LEMMA FirstBare ==
    ASSUME TypeOK, NEW p \in Proc, kind' = kind, Bare(p), First(p)
    PROVE  Bare(p)'
<1> DEFINE n == Name(p)
           r == attr[n]
           i == ic[p]
<1>0. n \in Iface /\ r \in Attributes /\ i.first \subseteq Addr
    BY NameTyped, FieldsTyped
<1>1. /\ pc[p] = "first" /\ pc'[p] = ToAddrs(i) /\ UNCHANGED <<cmd, ic, fell>>
    BY DEF First, Goto, TypeOK
<1>2. "first" \in SetPc \ Finding /\ ToAddrs(i) \in SetPc \ Finding
    BY DEF ToAddrs, ToMtu, SetPc, Finding
<1>3. n' = n
    BY <1>1 DEF Name
<1>4. CASE UNCHANGED <<kernel, before>>
    BY <1>1, <1>2, <1>4, SameBare DEF Same, kernel
<1>5. ASSUME NEW a \in i.first, Write(p, n, WithAddr(r, a, TRUE))
      PROVE  Bare(p)'
  <2>1. before'[p] = before[p] /\ attr'[n] = WithAddr(r, a, TRUE)
      BY <1>0, <1>5, WriteBefore DEF Write, TypeOK
  <2>2. attr'[n].bare = r.bare \cup {a}
      BY <1>0, <1>5, <2>1, WithAddrBare
  <2>3. ASSUME NEW b \in before[p]
        PROVE  /\ b.bare \ attr'[n].bare \subseteq cmd[p].addr
               /\ ~fell[p] => attr'[n].bare \cap V4 \subseteq b.bare \cup i.first
      BY <1>1, <1>2, <1>5, <2>2 DEF Bare
  <2>4. ASSUME NEW b \in before[p]
        PROVE  /\ (i.addrs \ i.bare) \cap b.bare \subseteq cmd[p].addr
               /\ ~fell[p] => i.bare \cap V4 \subseteq b.bare \cup i.first
      BY <1>1, <1>2 DEF Bare, Finding
  <2>5. pc'[p] \in SetPc \ Finding
      BY <1>1, <1>2
  <2> HIDE DEF n, i
  <2>6. QED BY <1>1, <1>3, <2>1, <2>3, <2>4, <2>5 DEF Bare, n, i
<1>6. QED BY <1>4, <1>5 DEF First

LEMMA AliasBare ==
    ASSUME TypeOK, NEW p \in Proc, kind' = kind, Bare(p), Addrs(p)
    PROVE  Bare(p)'
<1> DEFINE n == Name(p)
           r == attr[n]
           i == ic[p]
<1>0. n \in Iface /\ r \in Attributes /\ i \in Configs /\ i.addrs \subseteq Addr
    BY NameTyped, FieldsTyped
<1>1. PICK a \in i.addrs :
        /\ ic' = [ic EXCEPT ![p] = [i EXCEPT !.addrs = @ \ {a}]]
        /\ Goto(p, ToAddrs([i EXCEPT !.addrs = @ \ {a}]))
        /\ \/ /\ Write(p, n, WithAddr(r, a, a \notin V4 \/ a \in i.bare))
              /\ UNCHANGED <<warned, fell>>
           \/ /\ a \in V4 /\ Write(p, n, WithAddr(r, a, TRUE))
              /\ fell' = [fell EXCEPT ![p] = TRUE]
           \/ UNCHANGED <<kernel, before, fell>>
    BY DEF Addrs
<1> DEFINE d == [i EXCEPT !.addrs = @ \ {a}]
<1>2. d.addrs = i.addrs \ {a} /\ d.first = i.first /\ d.bare = i.bare
    BY <1>0 DEF Configs
<1>3. /\ pc[p] = "addrs" /\ pc'[p] = ToAddrs(d) /\ ic'[p] = d /\ cmd' = cmd
    BY <1>1 DEF Addrs, Goto, TypeOK
<1>4. /\ pc[p] \in SetPc \ Finding /\ pc'[p] \in SetPc \ Finding
      /\ pc[p] \notin {"exists", "list"}
    BY <1>3 DEF ToAddrs, ToMtu, SetPc, Finding
<1>5. n' = n
    BY <1>3 DEF Name
<1>6. before'[p] = before[p]
    BY <1>1, WriteBefore
<1>7. fell[p] => fell'[p]
    BY <1>1 DEF TypeOK
<1>8. /\ \/ attr'[n].bare = r.bare
         \/ attr'[n].bare = r.bare \cup {a} /\ (a \notin V4 \/ a \in i.bare \/ fell'[p])
         \/ attr'[n].bare = r.bare \ {a} /\ a \notin i.bare
  <2>1. a \in Addr
      BY <1>0
  <2>2. CASE Write(p, n, WithAddr(r, a, a \notin V4 \/ a \in i.bare))
    <3>1. attr'[n] = WithAddr(r, a, a \notin V4 \/ a \in i.bare)
        BY <1>0, <2>2 DEF Write, TypeOK
    <3>2. CASE a \notin V4 \/ a \in i.bare
      <4>1. attr'[n] = WithAddr(r, a, TRUE)
          BY <3>1, <3>2
      <4>2. QED BY <1>0, <2>1, <3>2, <4>1, WithAddrBare
    <3>3. CASE ~(a \notin V4 \/ a \in i.bare)
      <4>1. attr'[n] = WithAddr(r, a, FALSE)
          BY <3>1, <3>3
      <4>2. QED BY <1>0, <2>1, <3>3, <4>1, WithAddrBare
    <3>4. QED BY <3>2, <3>3
  <2>3. CASE Write(p, n, WithAddr(r, a, TRUE)) /\ fell' = [fell EXCEPT ![p] = TRUE]
    <3>1. attr'[n] = WithAddr(r, a, TRUE) /\ fell'[p]
        BY <1>0, <2>3 DEF Write, TypeOK
    <3>2. QED BY <1>0, <2>1, <3>1, WithAddrBare
  <2>4. CASE UNCHANGED <<kernel, before, fell>>
      BY <2>4 DEF kernel
  <2>5. QED BY <1>1, <2>2, <2>3, <2>4
<1> HIDE DEF n, r, i, d
<1>9. ASSUME NEW b \in before[p]
      PROVE  /\ b.bare \ attr'[n].bare \subseteq cmd[p].addr
             /\ ~fell'[p] => attr'[n].bare \cap V4 \subseteq b.bare \cup d.first
             /\ (d.addrs \ d.bare) \cap b.bare \subseteq cmd[p].addr
             /\ ~fell'[p] => d.bare \cap V4 \subseteq b.bare \cup d.first
  <2>1. /\ b.bare \ r.bare \subseteq cmd[p].addr
        /\ ~fell'[p] => r.bare \cap V4 \subseteq b.bare \cup i.first
        /\ (i.addrs \ i.bare) \cap b.bare \subseteq cmd[p].addr
        /\ ~fell'[p] => i.bare \cap V4 \subseteq b.bare \cup i.first
      BY <1>4, <1>7 DEF Bare, n, r, i
  <2>2. CASE attr'[n].bare = r.bare
      BY <1>2, <2>1, <2>2
  <2>3. CASE attr'[n].bare = r.bare \cup {a} /\ (a \notin V4 \/ a \in i.bare \/ fell'[p])
      BY <1>2, <2>1, <2>3
  <2>4. CASE attr'[n].bare = r.bare \ {a} /\ a \notin i.bare
      BY <1>1, <1>2, <2>1, <2>4
  <2>5. QED BY <1>8, <2>2, <2>3, <2>4
<1>10. ic'[p] = d /\ attr'[Name(p)'] = attr'[n] /\ cmd'[p] = cmd[p]
    BY <1>3, <1>5 DEF n
<1>11. QED BY <1>4, <1>6, <1>9, <1>10 DEF Bare

\* The steps that find out what is to be saved.
LEMMA DispatchBare ==
    ASSUME TypeOK, NEW p \in Proc, NEW base \in Configs, NEW e \in BOOLEAN,
           pc[p] \in Finding, Bare(p), Dispatch(p, base, e),
           \A b \in before[p] : /\ (base.addrs \ base.bare) \cap b.bare \subseteq cmd[p].addr
                                /\ ~fell[p] => base.bare \cap V4 \subseteq b.bare \cup base.first
    PROVE  Bare(p)'
<1>1. CASE Throw(p)
    BY <1>1 DEF Throw, End, Goto, TypeOK, Bare, SetPc
<1>2. CASE /\ ic' = [ic EXCEPT ![p] = Asked(p, base, e)]
           /\ Goto(p, IF HandledAs(p, base) THEN "typeLookup" ELSE "lookup")
           /\ UNCHANGED <<kernel, cmd, left, history>>
  <2> DEFINE d == Asked(p, base, e)
             c == cmd[p]
             r == attr[Name(p)]
  <2>1. pc[p] \in SetPc /\ c \in SetCmd
      BY DEF TypeOK, SetPc, Finding
  <2>2. /\ d.addrs \subseteq base.addrs \cup c.addr /\ d.bare = base.bare \ c.addr
        /\ base.first \subseteq d.first
      BY <2>1, AskedTyped
  <2>3. /\ pc'[p] \in SetPc \ Finding /\ ic'[p] = d
        /\ UNCHANGED <<attr, cmd, before, fell>>
      BY <1>2 DEF TypeOK, Goto, kernel, history, SetPc, Finding
  <2>4. Name(p)' = Name(p)
      BY <2>3 DEF Name
  <2>5. attr'[Name(p)'] = r
      BY <2>3, <2>4
  <2>6. ASSUME NEW b \in before[p]
        PROVE  b.bare \ r.bare \subseteq c.addr /\ r.bare = b.bare
      BY <2>1 DEF Bare
  <2> HIDE DEF d, c, r
  <2>7. ASSUME NEW b \in before[p]
        PROVE  /\ (d.addrs \ d.bare) \cap b.bare \subseteq c.addr
               /\ ~fell[p] => d.bare \cap V4 \subseteq b.bare \cup d.first
      BY <2>2 DEF c
  <2>8. QED BY <2>3, <2>5, <2>6, <2>7 DEF Bare, c
<1>3. QED BY <1>1, <1>2 DEF Dispatch

LEMMA FindBare ==
    ASSUME TypeOK, NEW p \in Proc, kind' = kind, Bare(p), Exists(p) \/ List(p) \/ Meta(p)
    PROVE  Bare(p)'
<1> DEFINE n == Name(p)
           r == attr[n]
<1>0. n \in Iface /\ r \in Attributes /\ ic[p] \in Configs
    BY NameTyped, FieldsTyped
<1>1. ASSUME NEW e \in BOOLEAN, Dispatch(p, NoConfig, e), pc[p] \in Finding
      PROVE  Bare(p)'
  <2>1. \A b : /\ (NoConfig.addrs \ NoConfig.bare) \cap b.bare \subseteq cmd[p].addr
               /\ NoConfig.bare \cap V4 \subseteq b.bare \cup NoConfig.first
      BY DEF NoConfig
  <2>2. QED BY <1>1, <2>1, NoConfigTyped, DispatchBare
<1>2. CASE Exists(p)
  <2>1. CASE Dispatch(p, NoConfig, FALSE)
      BY <1>1, <1>2, <2>1 DEF Exists, Finding
  <2>2. CASE Goto(p, "list") /\ UNCHANGED <<kernel, cmd, ic, left, history>>
    <3>1. /\ pc[p] = "exists" /\ pc'[p] = "list" /\ UNCHANGED <<attr, cmd, ic, before, fell>>
        BY <1>2, <2>2 DEF Exists, Goto, TypeOK, kernel, history
    <3>2. Name(p)' = Name(p)
        BY <3>1 DEF Name
    <3>3. QED BY <3>1, <3>2 DEF Bare, Finding, SetPc
  <2>3. QED BY <1>2, <2>1, <2>2 DEF Exists
<1>3. CASE List(p)
  <2>1. CASE Dispatch(p, NoConfig, TRUE)
      BY <1>1, <1>3, <2>1 DEF List, Finding
  <2>2. ASSUME NEW f \in Optional(r.addrs), ic' = [ic EXCEPT ![p] = Listed(ic[p], r, f)],
               Goto(p, "meta"), UNCHANGED <<kernel, cmd, left, history>>
        PROVE  Bare(p)'
    <3> DEFINE d == Listed(ic[p], r, f)
    <3>1. /\ pc[p] = "list" /\ pc'[p] = "meta" /\ UNCHANGED <<attr, cmd, before, fell>>
          /\ ic'[p] = d
        BY <1>3, <2>2 DEF List, Goto, TypeOK, kernel, history
    <3>2. d.addrs \subseteq r.addrs /\ d.bare = r.bare
        BY <1>0, ListedTyped
    <3>3. Name(p)' = n
        BY <3>1 DEF Name
    <3>4. attr'[Name(p)'] = r
        BY <3>1, <3>3
    <3>5. ASSUME NEW b \in before[p]
          PROVE  b.bare \ r.bare \subseteq cmd[p].addr /\ r.bare = b.bare
        BY <3>1 DEF Bare, Finding, SetPc
    <3> HIDE DEF d, r
    <3>6. QED BY <3>1, <3>2, <3>4, <3>5 DEF Bare
  <2>3. QED BY <1>3, <2>1, <2>2 DEF List, Listed
<1>4. CASE Meta(p)
  <2> DEFINE found == [ic[p] EXCEPT !.groups = r.groups, !.vrf = {r.fib},
                                    !.descr = {r.descr} \ {NoDescr}]
  <2>1. {r.fib} \in Optional(Fib) /\ {r.descr} \ {NoDescr} \in Optional(Descr)
      BY <1>0 DEF Attributes, Optional
  <2>2. /\ found \in Configs /\ found.addrs = ic[p].addrs /\ found.bare = ic[p].bare
        /\ found.first = ic[p].first
      BY <1>0, <2>1 DEF Configs, Attributes
  <2>3. pc[p] = "meta" /\ pc[p] \in SetPc /\ pc[p] \in Finding
      BY <1>4 DEF Meta, SetPc, Finding
  <2>4. \A b \in before[p] : /\ (ic[p].addrs \ ic[p].bare) \cap b.bare \subseteq cmd[p].addr
                             /\ ~fell[p] => ic[p].bare \cap V4 \subseteq b.bare \cup ic[p].first
      BY <2>3 DEF Bare
  <2>5. Dispatch(p, found, TRUE) \/ Dispatch(p, ic[p], TRUE)
      BY <1>4 DEF Meta
  <2> HIDE DEF found, r
  <2>6. QED BY <1>0, <2>2, <2>3, <2>4, <2>5, DispatchBare
<1>5. QED BY <1>2, <1>3, <1>4

LEMMA BeginBare ==
    ASSUME TypeOK, NEW p \in Proc,
           \/ \E c \in SetCmd : BeginSet(p, c)
           \/ \E c \in DelCmd : BeginDelete(p, c)
    PROVE  Bare(p)'
<1>1. ASSUME NEW c \in SetCmd, BeginSet(p, c)
      PROVE  Bare(p)'
  <2>1. /\ cmd'[p] = c /\ attr' = attr /\ before'[p] = {attr[c.n]} /\ pc'[p] = "exists"
      BY <1>1 DEF TypeOK, BeginSet, Goto, kernel
  <2>2. Name(p)' = c.n
      BY <2>1 DEF Name
  <2>3. QED BY <2>1, <2>2 DEF Bare
<1>2. ASSUME NEW c \in DelCmd, BeginDelete(p, c)
      PROVE  Bare(p)'
    BY <1>2 DEF TypeOK, BeginDelete, Goto, Bare, SetPc
<1>3. QED BY <1>1, <1>2

\* A set writes back all it found on the interface; until another process
\* interferes, and also when it fails half-way, no address, group, MTU, FIB or
\* description is lost, and none changes but as the command asked. Done without
\* being asked: the interface comes up; of every IPv6 address the lifetimes, and
\* of the first IPv4 address (after a failed SIOCAIFADDR, of any) the prefix
\* length are no longer what they were.
THEOREM SnapshotIsHarmless == Spec => []SnapshotHarmless
<1> DEFINE Inv == SnapInv /\ \A p \in Proc : Bare(p)
<1>1. Init => Inv
    BY InitTyped DEF Init, SnapInv, Bare, SetPc
<1>2. Inv /\ [Next]_vars => Inv'
  <2> SUFFICES ASSUME SnapInv, \A q \in Proc : Bare(q), [Next]_vars
               PROVE  SnapInv' /\ \A q \in Proc : Bare(q)'
      OBVIOUS
  <2>1. TypeOK /\ TypeOK'
      BY NextTyped DEF SnapInv
  <2>2. CASE Next
    <3>1. PICK p \in Proc : \/ \E c \in SetCmd : BeginSet(p, c)
                            \/ \E c \in DelCmd : BeginDelete(p, c)
                            \/ Step(p)
        BY <2>2 DEF Next
    <3>2. kind' = kind
        BY <2>2 DEF Next
    <3>3. Snap(p)
        BY <3>1, <3>2, BeginSnap, SetSnap, DelSnap DEF Step
    <3>4. \A q \in Proc \ {p} : Snap(q)
        BY <3>1, <3>2, Frame, OthersSnap DEF SnapInv
    <3>5. Bare(p)'
      <4>1. CASE DelStep(p)
          BY <2>1, <3>2, <4>1, DelDoes DEF DelEffect, Bare
      <4>2. CASE SetStep(p)
          BY <2>1, <3>2, <4>2, FindBare, FirstBare, AliasBare, StageSame, SameBare DEF SetStep
      <4>3. QED BY <2>1, <3>1, <4>1, <4>2, BeginBare DEF Step
    <3>6. \A q \in Proc \ {p} : Bare(q)'
        BY <2>1, <3>1, <3>2, Frame, OthersBare
    <3>7. QED BY <2>1, <3>3, <3>4, <3>5, <3>6, SnapAll
  <2>3. CASE UNCHANGED vars
    <3>1. UNCHANGED <<attr, pc, cmd, ic, before, fell>>
        BY <2>3 DEF vars, kernel, work, history
    <3>2. \A q \in Proc : Snap(q)
        BY <3>1 DEF SnapInv, Snap, Name
    <3>3. \A q \in Proc : Bare(q)'
        BY <3>1 DEF Bare, Name
    <3>4. QED BY <2>1, <3>2, <3>3, SnapAll
  <2>4. QED BY <2>2, <2>3
<1>3. Inv => SnapshotHarmless
  <2> SUFFICES ASSUME SnapInv, \A q \in Proc : Bare(q), NEW p \in Proc, pc[p] \in SetPc,
                      NEW b \in before[p]
               PROVE  LET r == attr[Name(p)]  c == cmd[p] IN
                      /\ Harmless(r, b, c)
                      /\ b.bare \ r.bare \subseteq c.addr
                      /\ ~fell[p] => r.bare \cap V4 \subseteq b.bare \cup ic[p].first
      BY DEF SnapshotHarmless, Harmless
  <2>1. QED BY DEF SnapInv, Bare
<1>4. QED BY <1>1, <1>2, <1>3, PTL DEF Spec

-----------------------------------------------------------------------------
(* Deleting a family of addresses leaves none.                             *)

\* p deletes IPv4 addresses, nobody interfered and nothing failed.
Sweeps(p) ==
    /\ cmd[p].what = "family" /\ cmd[p].of \subseteq V4
    /\ before[p] # {} /\ ~warned[p]

\* What is still there is on the list, which names nothing else; no family is
\* deleted as a group.
FamilyInv ==
    /\ TypeOK
    /\ \A p \in Proc : ~(pc[p] = "dgroup" /\ Sweeps(p))
    /\ \A p \in Proc : pc[p] = "daddr" /\ Sweeps(p) =>
          attr[Name(p)].addrs \cap cmd[p].of \subseteq left[p] /\ left[p] \subseteq cmd[p].of
    /\ \A p \in Proc : pc[p] = "dreport" /\ Sweeps(p) =>
          attr[Name(p)].addrs \cap cmd[p].of = {}

Family(q) ==
    /\ ~(pc[q] = "dgroup" /\ Sweeps(q))'
    /\ (pc[q] = "daddr" /\ Sweeps(q))' =>
          /\ attr'[cmd'[q].n].addrs \cap cmd'[q].of \subseteq left'[q]
          /\ left'[q] \subseteq cmd'[q].of
    /\ (pc[q] = "dreport" /\ Sweeps(q))' => attr'[cmd'[q].n].addrs \cap cmd'[q].of = {}

LEMMA FamilyAll ==
    ASSUME TypeOK', \A q \in Proc : Family(q)
    PROVE  FamilyInv'
BY DEF FamilyInv, Family, Name, Sweeps

LEMMA OthersFamily ==
    ASSUME FamilyInv, NEW q \in Proc, Seen(q), Kept(q)
    PROVE  Family(q)
BY DEF FamilyInv, Seen, Kept, Family, Name, Sweeps, Busy

LEMMA DelFamily ==
    ASSUME FamilyInv, NEW p \in Proc, kind' = kind, DelStep(p)
    PROVE  Family(p)
<1> DEFINE n == Name(p)
<1>0. /\ n \in Iface /\ attr[n] \in Attributes
    BY NameTyped, FieldsTyped DEF FamilyInv
<1>a. ASSUME Throw(p)
      PROVE  Family(p)
    BY <1>a DEF Throw, End, Goto, FamilyInv, TypeOK, Family
<1>1. CASE DExists(p)
    BY <1>1, <1>a DEF DExists, Goto, history, FamilyInv, TypeOK, Family, Sweeps
<1>2. CASE DGroup(p)
  <2>1. CASE Remove(p, n, cmd[p].of, [attr[n] EXCEPT !.groups = @ \ cmd[p].of])
             /\ Goto(p, "dreport") /\ UNCHANGED <<cmd, ic, left, warned, fell, made>>
    <3>1. before'[p] = before[p]
        BY <2>1, WriteBefore DEF Remove, FamilyInv
    <3>2. Sweeps(p)' => Sweeps(p)
        BY <2>1, <3>1 DEF Sweeps
    <3>3. pc'[p] = "dreport" /\ ~Sweeps(p)
        BY <1>2, <2>1 DEF DGroup, Goto, FamilyInv, TypeOK
    <3>4. QED BY <3>2, <3>3 DEF Family
  <2>2. QED BY <1>2, <1>a, <2>1 DEF DGroup
<1>3. CASE DList(p)
  <2>1. /\ left'[p] = (IF n \in present THEN attr[n].addrs \cap cmd[p].of ELSE {})
        /\ pc'[p] = (IF left'[p] # {} THEN "daddr" ELSE "dreport")
        /\ attr' = attr /\ cmd'[p] = cmd[p]
      BY <1>3 DEF DList, Goto, kernel, FamilyInv, TypeOK
  <2>2. n \notin present => attr[n].addrs = {}
      BY <1>0 DEF FamilyInv, TypeOK, Fresh
  <2>3. attr[n].addrs \cap cmd[p].of = left'[p]
      BY <2>1, <2>2
  <2>4. QED BY <2>1, <2>3 DEF Family, Name
<1>4. CASE DAddr(p)
  <2>1. PICK a \in left[p] :
          /\ left' = [left EXCEPT ![p] = @ \ {a}]
          /\ Goto(p, IF left'[p] # {} THEN "daddr" ELSE "dreport")
          /\ \/ /\ a \in V4 \cap attr[n].addrs
                /\ Remove(p, n, {a}, [attr[n] EXCEPT !.addrs = @ \ {a}, !.bare = @ \ {a}])
                /\ UNCHANGED warned
             \/ /\ warned' = [warned EXCEPT ![p] = a \in V4 \/ warned[p]]
                /\ UNCHANGED <<kernel, before, gone>>
      BY <1>4 DEF DAddr
  <2>2. /\ left'[p] = left[p] \ {a}
        /\ pc'[p] = (IF left'[p] # {} THEN "daddr" ELSE "dreport")
        /\ cmd'[p] = cmd[p] /\ pc[p] = "daddr"
      BY <1>4, <2>1 DEF DAddr, Goto, FamilyInv, TypeOK
  <2>3. CASE /\ Remove(p, n, {a}, [attr[n] EXCEPT !.addrs = @ \ {a}, !.bare = @ \ {a}])
             /\ UNCHANGED warned
    <3>1. attr'[n].addrs = attr[n].addrs \ {a} /\ before'[p] = before[p]
        BY <1>0, <2>3, WriteBefore DEF Remove, Write, FamilyInv, TypeOK, Attributes
    <3>2. Sweeps(p)' => Sweeps(p)
        BY <2>2, <2>3, <3>1 DEF Sweeps
    <3>3. Sweeps(p) => /\ attr[n].addrs \cap cmd[p].of \subseteq left[p]
                       /\ left[p] \subseteq cmd[p].of
        BY <2>2 DEF FamilyInv
    <3>4. QED BY <2>2, <3>1, <3>2, <3>3 DEF Family, Name
  <2>4. CASE /\ warned' = [warned EXCEPT ![p] = a \in V4 \/ warned[p]]
             /\ UNCHANGED <<kernel, before, gone>>
    <3>1. warned'[p] = (a \in V4 \/ warned[p])
        BY <2>4 DEF FamilyInv, TypeOK
    <3>2. Sweeps(p)' => Sweeps(p)
        BY <2>2, <2>4, <3>1 DEF Sweeps
    <3>3. Sweeps(p) => a \in V4
        BY <2>1, <2>2 DEF FamilyInv, Sweeps
    <3>4. ~Sweeps(p)'
        BY <3>1, <3>2, <3>3 DEF Sweeps
    <3>5. QED BY <3>4 DEF Family
  <2>5. QED BY <2>1, <2>3, <2>4
<1>5. CASE Destroy(p)
  <2>1. CASE attr' = [attr EXCEPT ![n] = Fresh] /\ Goto(p, "dreport") /\ cmd' = cmd
    <3>1. attr'[n].addrs = {} /\ pc'[p] = "dreport" /\ cmd'[p].n = n
        BY <1>0, <2>1 DEF Goto, FamilyInv, TypeOK, Fresh, Name
    <3>2. QED BY <3>1 DEF Family, Sweeps
  <2>2. QED BY <1>5, <1>a, <2>1 DEF Destroy
<1>6. CASE DReport(p)
    BY <1>6 DEF DReport, End, Goto, FamilyInv, TypeOK, Family
<1>7. QED BY <1>1, <1>2, <1>3, <1>4, <1>5, <1>6 DEF DelStep

LEMMA SetFamily ==
    ASSUME FamilyInv, NEW p \in Proc, kind' = kind, SetStep(p)
    PROVE  Family(p)
<1>1. pc'[p] \notin {"dgroup", "daddr", "dreport"}
    BY SetDoes DEF FamilyInv, SetEffect, Goes, SetPc
<1>2. QED BY <1>1 DEF Family

LEMMA BeginFamily ==
    ASSUME FamilyInv, NEW p \in Proc,
           \/ \E c \in SetCmd : BeginSet(p, c)
           \/ \E c \in DelCmd : BeginDelete(p, c)
    PROVE  Family(p)
BY DEF BeginSet, BeginDelete, Goto, FamilyInv, TypeOK, Family

\* Deleting the IPv4 addresses of an interface leaves none, if no removal failed
\* and nobody else worked on it.
THEOREM FamilyIsDeleted == Spec => []FamilyDeleted
<1>1. Init => FamilyInv
    BY InitTyped DEF Init, FamilyInv
<1>2. FamilyInv /\ [Next]_vars => FamilyInv'
  <2> SUFFICES ASSUME FamilyInv, [Next]_vars PROVE FamilyInv'
      OBVIOUS
  <2>1. TypeOK'
      BY NextTyped DEF FamilyInv
  <2>2. CASE Next
    <3>1. PICK p \in Proc : \/ \E c \in SetCmd : BeginSet(p, c)
                            \/ \E c \in DelCmd : BeginDelete(p, c)
                            \/ Step(p)
        BY <2>2 DEF Next
    <3>2. kind' = kind
        BY <2>2 DEF Next
    <3>3. Family(p)
        BY <3>1, <3>2, BeginFamily, SetFamily, DelFamily DEF Step
    <3>4. \A q \in Proc \ {p} : Family(q)
        BY <3>1, <3>2, Frame, OthersFamily DEF FamilyInv
    <3>5. QED BY <2>1, <3>3, <3>4, FamilyAll
  <2>3. CASE UNCHANGED vars
    <3>1. \A q \in Proc : Family(q)
        BY <2>3 DEF vars, kernel, work, history, FamilyInv, Family, Name, Sweeps
    <3>2. QED BY <2>1, <3>1, FamilyAll
  <2>4. QED BY <2>2, <2>3
<1>3. FamilyInv => FamilyDeleted
    BY DEF FamilyInv, FamilyDeleted, Sweeps, Undisturbed
<1>4. QED BY <1>1, <1>2, <1>3, PTL DEF Spec

-----------------------------------------------------------------------------
(* What is reported was done.                                              *)

\* The stages of a save that come before its addresses, ... have been applied.
BeforeFirst == {"typeLookup", "typeCreate", "lookup", "create", "first"}
BeforeAddrs == BeforeFirst \cup {"addrs"}
BeforeMtu == BeforeAddrs \cup {"mtu"}
BeforeUp == BeforeMtu \cup {"flagsGet", "flagsSet"}
BeforeFib == BeforeUp \cup {"fib"}
BeforeGroups == BeforeFib \cup {"groups", "groupAdd"}
BeforeDescr == BeforeGroups \cup {"descr"}
BeforeDriver == BeforeDescr \cup {"driver", "driverSet"}
Saving == BeforeDriver \cup {"report"}

\* The stages at which the interface exists.
There == {"list", "meta"} \cup (Saving \ {"typeLookup", "typeCreate", "lookup", "create"})

\* At stage l of saving i, what the command c gives is on the interface r, or
\* it is still to be applied.
Applies(l, c, i, r) ==
    /\ c.addr \subseteq r.addrs \cup (IF l \in BeforeFirst THEN i.first ELSE {})
                             \cup (IF l \in BeforeAddrs THEN i.addrs ELSE {})
    /\ c.group \subseteq r.groups \cup (IF l \in BeforeGroups THEN i.groups ELSE {})
    /\ c.mtu \subseteq (IF l \in BeforeMtu THEN i.mtu ELSE {r.mtu})
    /\ c.vrf \ {0} \subseteq (IF l \in BeforeFib THEN i.vrf ELSE {r.fib})
    /\ c.descr \subseteq (IF l \in BeforeDescr THEN i.descr ELSE {r.descr})
    /\ l \notin BeforeUp => r.up

\* The same of the settings g of the driver; a save that gives them all at once
\* replaces those there are.
Drives(l, g, i, r, k) ==
    g \subseteq (IF l \in BeforeDriver THEN i.items ELSE {})
                  \cup (IF l \in BeforeDriver /\ k \in AllAtOnce THEN {} ELSE r.items)

Driven(p) == Handled(p) /\ K(p) \in ItemByItem \cup AllAtOnce

\* Where a set is, if nobody disturbed it and nothing failed.
Standing(p) ==
    /\ pc[p] \in There => Name(p) \in present
    /\ pc[p] = "typeCreate" => Name(p) \notin present
    /\ pc[p] \in {"typeLookup", "typeCreate"} => Handled(p)
    /\ pc[p] \in Saving =>
          /\ ic[p].known => Name(p) \in present
          /\ ~CreatedBare(p) => Applies(pc[p], cmd[p], ic[p], attr[Name(p)])
          /\ Driven(p) => Drives(pc[p], Settings(p), ic[p], attr[Name(p)], K(p))
Truth(p) == pc[p] \in SetPc /\ before[p] # {} /\ ~warned[p] => Standing(p)

ReportInv == TypeOK /\ \A p \in Proc : Truth(p)

\* To another process at work an interface is there or not as before, or it is
\* noted that somebody changed it.
StillThere(q) ==
    /\ made'[q] = made[q]
    /\ Busy(q) => before'[q] = {} \/ (Name(q) \in present' <=> Name(q) \in present)

LEMMA EndThere ==
    ASSUME TypeOK, NEW p \in Proc, End(p), UNCHANGED kernel, NEW q \in Proc \ {p}
    PROVE  StillThere(q)
BY DEF TypeOK, End, kernel, StillThere

LEMMA QuietThere ==
    ASSUME UNCHANGED <<present, made>>, NEW q
    PROVE  StillThere(q)
BY DEF StillThere

LEMMA CloneThere ==
    ASSUME TypeOK, NEW p \in Proc, NEW n, Clone(p, n), NEW q \in Proc \ {p}
    PROVE  StillThere(q)
BY DEF TypeOK, Clone, Touched, StillThere

LEMMA ThereFrame ==
    ASSUME TypeOK, NEW p \in Proc, NEW q \in Proc \ {p},
           \/ \E c \in SetCmd : BeginSet(p, c)
           \/ \E c \in DelCmd : BeginDelete(p, c)
           \/ Step(p)
    PROVE  StillThere(q)
<1>a. ASSUME Throw(p)
      PROVE  StillThere(q)
    BY <1>a, EndThere DEF Throw
<1>b. ASSUME NEW n, NEW r, NEW l, NEW c, Must(p, n, r, l, c)
      PROVE  StillThere(q)
    BY <1>a, <1>b, QuietThere DEF Must, Write
<1>c. ASSUME NEW base, NEW e, Dispatch(p, base, e)
      PROVE  StillThere(q)
    BY <1>a, <1>c, QuietThere DEF Dispatch, kernel, history
<1>1. CASE \/ \E c \in SetCmd : BeginSet(p, c)
           \/ \E c \in DelCmd : BeginDelete(p, c)
    BY <1>1, QuietThere DEF BeginSet, BeginDelete, kernel
<1>2. CASE Exists(p) \/ List(p) \/ Meta(p) \/ TypeLookup(p) \/ Lookup(p) \/ FlagsGet(p)
           \/ Groups(p)
    BY <1>2, <1>c, QuietThere
       DEF Exists, List, Meta, TypeLookup, Lookup, FlagsGet, Groups, kernel, history
<1>3. CASE TypeCreate(p) \/ Create(p)
    BY <1>3, <1>a, CloneThere DEF TypeCreate, Create
<1>4. CASE First(p) \/ Addrs(p) \/ SetDescr(p) \/ DriverParam(p) \/ DriverRead(p)
    BY <1>4, QuietThere
       DEF First, Addrs, SetDescr, DriverParam, DriverRead, Write, kernel, history
<1>5. CASE SetMtu(p) \/ FlagsSet(p) \/ SetFib(p) \/ DriverAll(p)
    BY <1>5, <1>b DEF SetMtu, FlagsSet, SetFib, DriverAll
<1>6. CASE GroupAdd(p) \/ DriverItem(p)
    BY <1>6, <1>a, QuietThere DEF GroupAdd, DriverItem, Write
<1>7. CASE DriverTunnel6(p) \/ Report(p) \/ DReport(p)
    BY <1>7, <1>a, EndThere, QuietThere DEF DriverTunnel6, Report, DReport, kernel
<1>8. CASE DExists(p) \/ DList(p)
    BY <1>8, <1>a, QuietThere DEF DExists, DList, kernel, history
<1>9. CASE DGroup(p) \/ DAddr(p)
    BY <1>9, <1>a, QuietThere DEF DGroup, DAddr, Remove, Write, kernel
<1>10. CASE Destroy(p)
  <2>1. CASE /\ present' = present \ {Name(p)} /\ before' = Touched(p, Name(p))
             /\ made' = made
      BY <2>1 DEF TypeOK, Touched, StillThere
  <2>2. QED BY <1>10, <1>a, <2>1 DEF Destroy
<1>11. QED
    BY <1>1, <1>2, <1>3, <1>4, <1>5, <1>6, <1>7, <1>8, <1>9, <1>10
       DEF Step, SetStep, DelStep

LEMMA OthersTruth ==
    ASSUME TypeOK, NEW q \in Proc, Truth(q), kind' = kind, Seen(q), Kept(q), StillThere(q)
    PROVE  Truth(q)'
<1> SUFFICES ASSUME pc'[q] \in SetPc, before'[q] # {}, ~warned'[q]
             PROVE  Standing(q)'
    BY DEF Truth
<1>1. /\ pc'[q] = pc[q] /\ cmd'[q] = cmd[q] /\ ic'[q] = ic[q] /\ warned'[q] = warned[q]
      /\ made'[q] = made[q]
    BY DEF Kept, StillThere
<1>2. Busy(q)
    BY <1>1 DEF Busy, SetPc
<1>3. /\ attr'[Name(q)] = attr[Name(q)] /\ before'[q] = before[q]
      /\ Name(q) \in present' <=> Name(q) \in present
    BY <1>2 DEF Seen, StillThere
<1>4. Name(q)' = Name(q) /\ K(q)' = K(q) /\ Settings(q)' = Settings(q)
    BY <1>1 DEF Name, K, Settings
<1>5. Standing(q)
    BY <1>1, <1>3 DEF Truth
<1>6. /\ Handled(q)' <=> Handled(q)
      /\ CreatedBare(q)' <=> CreatedBare(q)
      /\ Driven(q)' <=> Driven(q)
    BY <1>1, <1>4 DEF Handled, HandledAs, CreatedBare, Driven
<1>7. /\ Applies(pc[q], cmd[q], ic[q], attr[Name(q)])
           => Applies(pc[q], cmd[q], ic[q], attr[Name(q)])'
      /\ Drives(pc[q], Settings(q), ic[q], attr[Name(q)], K(q))
           => Drives(pc[q], Settings(q), ic[q], attr[Name(q)], K(q))'
    BY <1>1, <1>3, <1>4 DEF Applies, Drives
<1>8. QED BY <1>1, <1>3, <1>4, <1>5, <1>6, <1>7 DEF Standing

\* A stage is skipped when there is nothing of it to apply.
LEMMA SkippedNothing ==
    ASSUME NEW c, NEW i, NEW r
    PROVE  /\ Applies("driver", c, i, r) => Applies(ToDriver(i), c, i, r)
           /\ Applies("descr", c, i, r) => Applies(ToDescr(i), c, i, r)
           /\ Applies("groups", c, i, r) => Applies(ToGroups(i), c, i, r)
           /\ Applies("fib", c, i, r) => Applies(ToFib(i), c, i, r)
           /\ Applies("addrs", c, i, r) => Applies(ToAddrs(i), c, i, r)
           /\ Applies("first", c, i, r) => Applies(ToFirst(i), c, i, r)
<1> USE DEF Applies, BeforeFirst, BeforeAddrs, BeforeMtu, BeforeUp, BeforeFib, BeforeGroups, BeforeDescr
<1>1. Applies("driver", c, i, r) => Applies(ToDriver(i), c, i, r)
    BY DEF ToDriver
<1>2. Applies("descr", c, i, r) => Applies(ToDescr(i), c, i, r)
    BY <1>1 DEF ToDescr
<1>3. Applies("groups", c, i, r) => Applies(ToGroups(i), c, i, r)
    BY <1>2 DEF ToGroups
<1>4. Applies("fib", c, i, r) => Applies(ToFib(i), c, i, r)
    BY <1>3 DEF ToFib
<1>5. Applies("mtu", c, i, r) => Applies(ToMtu(i), c, i, r)
    BY DEF ToMtu
<1>6. Applies("addrs", c, i, r) => Applies(ToAddrs(i), c, i, r)
    BY <1>5 DEF ToAddrs
<1>7. Applies("first", c, i, r) => Applies(ToFirst(i), c, i, r)
    BY <1>6 DEF ToFirst
<1>8. QED BY <1>1, <1>2, <1>3, <1>4, <1>6, <1>7

Stages == SetPc \ {"exists", "list", "meta", "typeLookup", "typeCreate"}

LEMMA StageSets ==
    /\ Saving = SetPc \ {"exists", "list", "meta"}
    /\ Stages \subseteq Saving
    /\ BeforeDriver = Saving \ {"report"}
    /\ There = SetPc \ {"exists", "typeLookup", "typeCreate", "lookup", "create"}
BY DEF Saving, BeforeDriver, BeforeDescr, BeforeGroups, BeforeFib, BeforeUp, BeforeMtu,
       BeforeAddrs, BeforeFirst, SetPc, Stages, There

LEMMA ToStages ==
    ASSUME NEW c
    PROVE  /\ ToDriver(c) \in Stages /\ ToDescr(c) \in Stages /\ ToGroups(c) \in Stages
           /\ ToFib(c) \in Stages /\ ToMtu(c) \in Stages /\ ToAddrs(c) \in Stages
           /\ ToFirst(c) \in Stages
BY DEF ToDriver, ToDescr, ToGroups, ToFib, ToMtu, ToAddrs, ToFirst, Stages, SetPc

\* The settings of the driver are given to it in the end, or there are none.
ToTheDriver(l, i) == l \in Saving /\ (l = "report" => i.items = {})

LEMMA LeadToDriver ==
    ASSUME NEW i
    PROVE  /\ ToTheDriver(ToDriver(i), i) /\ ToTheDriver(ToDescr(i), i)
           /\ ToTheDriver(ToGroups(i), i) /\ ToTheDriver(ToFib(i), i)
           /\ ToTheDriver(ToMtu(i), i) /\ ToTheDriver(ToAddrs(i), i)
           /\ ToTheDriver(ToFirst(i), i)
<1>1. ToTheDriver(ToDriver(i), i)
    BY StageSets DEF ToTheDriver, ToDriver, SetPc
<1>2. ToTheDriver(ToDescr(i), i)
    BY <1>1, StageSets DEF ToTheDriver, ToDescr, SetPc
<1>3. ToTheDriver(ToGroups(i), i)
    BY <1>2, StageSets DEF ToTheDriver, ToGroups, SetPc
<1>4. ToTheDriver(ToFib(i), i)
    BY <1>3, StageSets DEF ToTheDriver, ToFib, SetPc
<1>5. ToTheDriver(ToMtu(i), i)
    BY StageSets DEF ToTheDriver, ToMtu, SetPc
<1>6. ToTheDriver(ToAddrs(i), i)
    BY <1>5, StageSets DEF ToTheDriver, ToAddrs, SetPc
<1>7. ToTheDriver(ToFirst(i), i)
    BY <1>6, StageSets DEF ToTheDriver, ToFirst, SetPc
<1>8. QED BY <1>1, <1>2, <1>3, <1>4, <1>5, <1>6, <1>7

\* Steps that leave the settings of the driver alone.
LEMMA DrivesOn ==
    ASSUME NEW l \in BeforeDriver, NEW m, NEW g, NEW i, NEW j, NEW r, NEW s, NEW k,
           Drives(l, g, i, r, k), j.items = i.items, s.items = r.items, ToTheDriver(m, j)
    PROVE  Drives(m, g, j, s, k)
BY StageSets DEF Drives, ToTheDriver

\* The next stage of a save.
LEMMA Advance ==
    ASSUME TypeOK, NEW p \in Proc, kind' = kind, Standing(p), pc[p] \in Saving,
           cmd' = cmd, made' = made, present' = present,
           NEW l \in Stages, pc'[p] = l, l \in There => Name(p) \in present,
           ic'[p].known = ic[p].known,
           ~CreatedBare(p) => Applies(l, cmd[p], ic'[p], attr'[Name(p)]),
           Driven(p) => Drives(l, Settings(p), ic'[p], attr'[Name(p)], K(p))
    PROVE  Standing(p)'
<1>1. Name(p)' = Name(p) /\ K(p)' = K(p) /\ Settings(p)' = Settings(p)
    BY DEF Name, K, Settings
<1>2. /\ Handled(p)' <=> Handled(p)
      /\ CreatedBare(p)' <=> CreatedBare(p)
      /\ Driven(p)' <=> Driven(p)
    BY <1>1 DEF Handled, HandledAs, CreatedBare, Driven
<1>3. /\ CreatedBare(p) \/ Applies(pc[p], cmd[p], ic[p], attr[Name(p)])'
      /\ Driven(p) => Drives(pc[p], Settings(p), ic[p], attr[Name(p)], K(p))'
    BY <1>1 DEF Applies, Drives
<1>4. l \in Saving /\ l \notin {"typeLookup", "typeCreate"}
    BY StageSets DEF Stages
<1>5. ic[p].known => Name(p) \in present
    BY DEF Standing
<1>6. QED BY <1>1, <1>2, <1>3, <1>4, <1>5 DEF Standing

LEMMA StageTruth ==
    ASSUME TypeOK, NEW p \in Proc, kind' = kind, Truth(p), pc[p] \in Saving,
           before'[p] = before[p], ~warned'[p] => ~warned[p],
           cmd' = cmd, made' = made, present' = present,
           NEW l \in Stages, pc'[p] = l, ic'[p].known = ic[p].known,
           ASSUME Standing(p), ~warned'[p]
           PROVE  /\ l \in There => Name(p) \in present
                  /\ ~CreatedBare(p) => Applies(l, cmd[p], ic'[p], attr'[Name(p)])
                  /\ Driven(p) => Drives(l, Settings(p), ic'[p], attr'[Name(p)], K(p))
    PROVE  Truth(p)'
<1> SUFFICES ASSUME before'[p] # {}, ~warned'[p]
             PROVE  Standing(p)'
    BY DEF Truth
<1>1. pc[p] \in SetPc
    BY StageSets
<1>2. Standing(p)
    BY <1>1 DEF Truth
<1>3. QED BY <1>2, Advance

\* A call that must succeed, and whose result brings the set to its next stage.
LEMMA MustTruth ==
    ASSUME TypeOK, NEW p \in Proc, kind' = kind, Truth(p), pc[p] \in Stages,
           NEW s, NEW l \in Stages, NEW j, Must(p, Name(p), s, l, j),
           j.known = ic[p].known,
           ASSUME Standing(p)
           PROVE  /\ ~CreatedBare(p) => Applies(l, cmd[p], j, s)
                  /\ Driven(p) => Drives(l, Settings(p), j, s, K(p))
    PROVE  Truth(p)'
<1>1. CASE Throw(p)
    BY <1>1 DEF Throw, End, Goto, TypeOK, Truth, SetPc
<1>2. CASE /\ Write(p, Name(p), s)
           /\ Goto(p, l)
           /\ ic' = [ic EXCEPT ![p] = j]
           /\ UNCHANGED <<cmd, left, warned, fell, made, gone>>
  <2>1. /\ Name(p) \in present /\ present' = present
        /\ attr'[Name(p)] = s
      BY <1>2, NameTyped DEF Write, TypeOK
  <2>2. before'[p] = before[p]
      BY <1>2, WriteBefore
  <2>3. pc'[p] = l /\ ic'[p] = j
      BY <1>2 DEF Goto, TypeOK
  <2>4. pc[p] \in Saving
      BY StageSets
  <2>5. QED BY <1>2, <2>1, <2>2, <2>3, <2>4, StageTruth
<1>3. QED BY <1>1, <1>2 DEF Must

\* What applying a part of a configuration does for the rest.
LEMMA AppliesOn ==
    ASSUME NEW c, NEW i \in Configs, NEW r \in Attributes
    PROVE  /\ \A v \in i.mtu : Applies("mtu", c, i, r)
                => Applies("flagsGet", c, [i EXCEPT !.mtu = {}], [r EXCEPT !.mtu = v])
           /\ Applies("flagsGet", c, i, r) => Applies("flagsSet", c, i, r)
           /\ Applies("flagsSet", c, i, r) => Applies("fib", c, i, [r EXCEPT !.up = TRUE])
           /\ \A v \in i.vrf : Applies("fib", c, i, r)
                => Applies("groups", c, [i EXCEPT !.vrf = {}], [r EXCEPT !.fib = v])
           /\ \A v \in i.descr : Applies("descr", c, i, r)
                => Applies("driver", c, [i EXCEPT !.descr = {}], [r EXCEPT !.descr = v])
           /\ \A g \in i.groups : Applies("groupAdd", c, i, r)
                => Applies("groupAdd", c, [i EXCEPT !.groups = @ \ {g}],
                                       [r EXCEPT !.groups = @ \cup {g}])
           /\ Applies("groups", c, i, r)
                => Applies("groupAdd", c, [i EXCEPT !.groups = @ \ r.groups], r)
           /\ i.groups = {} /\ Applies("groupAdd", c, i, r) => Applies("descr", c, i, r)
           /\ \A x : /\ Applies("driver", c, i, r)
                          => Applies("driver", c, [i EXCEPT !.items = x], r)
                     /\ Applies("driver", c, i, r)
                          => Applies("driver", c, i, [r EXCEPT !.items = x])
           /\ Applies("driver", c, i, r) => Applies("report", c, i, r)
<1> USE DEF Applies, BeforeFirst, BeforeAddrs, BeforeMtu, BeforeUp, BeforeFib, BeforeGroups, BeforeDescr,
            Configs, Attributes, Optional
<1>1. \A v \in i.mtu : Applies("mtu", c, i, r)
        => Applies("flagsGet", c, [i EXCEPT !.mtu = {}], [r EXCEPT !.mtu = v])
    OBVIOUS
<1>2. /\ Applies("flagsGet", c, i, r) => Applies("flagsSet", c, i, r)
      /\ Applies("flagsSet", c, i, r) => Applies("fib", c, i, [r EXCEPT !.up = TRUE])
    OBVIOUS
<1>3. \A v \in i.vrf : Applies("fib", c, i, r)
        => Applies("groups", c, [i EXCEPT !.vrf = {}], [r EXCEPT !.fib = v])
    OBVIOUS
<1>4. \A v \in i.descr : Applies("descr", c, i, r)
        => Applies("driver", c, [i EXCEPT !.descr = {}], [r EXCEPT !.descr = v])
    OBVIOUS
<1>5. \A g \in i.groups : Applies("groupAdd", c, i, r)
        => Applies("groupAdd", c, [i EXCEPT !.groups = @ \ {g}],
                               [r EXCEPT !.groups = @ \cup {g}])
    OBVIOUS
<1>6. /\ Applies("groups", c, i, r)
           => Applies("groupAdd", c, [i EXCEPT !.groups = @ \ r.groups], r)
      /\ i.groups = {} /\ Applies("groupAdd", c, i, r) => Applies("descr", c, i, r)
    OBVIOUS
<1>7. \A x : /\ Applies("driver", c, i, r)
                  => Applies("driver", c, [i EXCEPT !.items = x], r)
             /\ Applies("driver", c, i, r)
                  => Applies("driver", c, i, [r EXCEPT !.items = x])
    OBVIOUS
<1>8. Applies("driver", c, i, r) => Applies("report", c, i, r)
    OBVIOUS
<1>9. QED BY <1>1, <1>2, <1>3, <1>4, <1>5, <1>6, <1>7, <1>8

LEMMA AppliesAddr ==
    ASSUME NEW c, NEW i \in Configs, NEW r \in Attributes, NEW a \in Addr, NEW s,
           s.addrs = r.addrs \cup {a}, s.groups = r.groups, s.mtu = r.mtu, s.fib = r.fib,
           s.descr = r.descr, s.up = r.up
    PROVE  /\ a \in i.first /\ Applies("first", c, i, r) => Applies("addrs", c, i, s)
           /\ Applies("addrs", c, i, r)
                => Applies("addrs", c, [i EXCEPT !.addrs = @ \ {a}], s)
<1> USE DEF Applies, BeforeFirst, BeforeAddrs, BeforeMtu, BeforeUp, BeforeFib, BeforeGroups,
            BeforeDescr
<1>1. a \in i.first /\ Applies("first", c, i, r) => Applies("addrs", c, i, s)
    BY DEF Configs, Optional
<1>2. Applies("addrs", c, i, r) => Applies("addrs", c, [i EXCEPT !.addrs = @ \ {a}], s)
    BY DEF Configs
<1>3. QED BY <1>1, <1>2

\* What the command gives is in what is to be saved.
LEMMA AskedApplies ==
    ASSUME NEW p \in Proc, cmd[p] \in SetCmd, NEW base \in Configs, NEW e \in BOOLEAN, NEW r
    PROVE  /\ \A l \in BeforeFirst : Applies(l, cmd[p], Asked(p, base, e), r)
           /\ Asked(p, base, e).known = base.known
           /\ HandledAs(p, base) /\ K(p) \in ItemByItem \cup AllAtOnce =>
                \A l \in BeforeDriver : Drives(l, Settings(p), Asked(p, base, e), r, K(p))
<1> DEFINE c == cmd[p]
           M == Merged(p, base, e)
           A == Asked(p, base, e)
           i == IF HandledAs(p, base) /\ K(p) \in ItemByItem \cup AllAtOnce
                  THEN Settings(p) ELSE {}
<1>1. PICK f, g : M = [base EXCEPT !.first = f, !.addrs = @ \cup g, !.bare = @ \ c.addr,
                                   !.groups = @ \cup c.group, !.mtu = c.mtu, !.items = i]
    BY DEF Merged
<1>2. A = [M EXCEPT !.vrf = Or(c.vrf, @), !.descr = Or(c.descr, @)]
    BY DEF Asked
<1>3. HandledAs(p, base) /\ K(p) \in ItemByItem \cup AllAtOnce => i = Settings(p)
    OBVIOUS
<1>4. /\ c.addr \subseteq A.first \cup A.addrs /\ c.group \subseteq A.groups
      /\ c.mtu \subseteq A.mtu
    BY AskedTyped
<1>5. /\ c.vrf \subseteq A.vrf /\ c.descr \subseteq A.descr /\ A.items = i
      /\ A.known = base.known
  <2> HIDE DEF c, i, M, A
  <2>1. QED BY <1>1, <1>2 DEF Configs, Or
<1>6. \A l \in BeforeFirst : Applies(l, c, A, r)
  <2> HIDE DEF c, A
  <2>1. QED
      BY <1>4, <1>5 DEF Applies, BeforeFirst, BeforeAddrs, BeforeMtu, BeforeUp, BeforeFib,
                        BeforeGroups, BeforeDescr
<1>7. QED BY <1>3, <1>5, <1>6 DEF Drives

LEMMA DispatchTruth ==
    ASSUME TypeOK, NEW p \in Proc, kind' = kind, pc[p] \in {"exists", "list", "meta"},
           NEW base \in Configs, NEW e \in BOOLEAN, Dispatch(p, base, e),
           before[p] # {} /\ ~warned[p] => (base.known => Name(p) \in present)
    PROVE  Truth(p)'
<1>1. CASE Throw(p)
    BY <1>1 DEF Throw, End, Goto, TypeOK, Truth, SetPc
<1>2. CASE /\ ic' = [ic EXCEPT ![p] = Asked(p, base, e)]
           /\ Goto(p, IF HandledAs(p, base) THEN "typeLookup" ELSE "lookup")
           /\ UNCHANGED <<kernel, cmd, left, history>>
  <2> SUFFICES ASSUME before'[p] # {}, ~warned'[p]
               PROVE  Standing(p)'
      BY DEF Truth
  <2>1. /\ ic'[p] = Asked(p, base, e) /\ cmd' = cmd /\ present' = present /\ made' = made
        /\ pc'[p] = IF HandledAs(p, base) THEN "typeLookup" ELSE "lookup"
      BY <1>2 DEF TypeOK, Goto, kernel, history
  <2>2. base.known => Name(p) \in present
      BY <1>2 DEF history
  <2>3. cmd[p] \in SetCmd
      BY DEF TypeOK, SetPc
  <2>4. Asked(p, base, e).known = base.known
      BY <2>3, AskedApplies
  <2>5. Name(p)' = Name(p) /\ K(p)' = K(p) /\ Settings(p)' = Settings(p)
      BY <2>1 DEF Name, K, Settings
  <2>6. Handled(p)' <=> HandledAs(p, base)
      BY <2>1, <2>4, <2>5 DEF Handled, HandledAs
  <2>7. pc'[p] \in BeforeFirst /\ pc'[p] \in BeforeDriver /\ pc'[p] \notin There
      BY <2>1, StageSets DEF BeforeFirst, SetPc
  <2>8. Applies(pc[p], cmd[p], ic[p], attr[Name(p)])'
      BY <2>1, <2>3, <2>5, <2>7, AskedApplies
  <2>9. Driven(p)' => Drives(pc[p], Settings(p), ic[p], attr[Name(p)], K(p))'
      BY <2>1, <2>3, <2>5, <2>6, <2>7, AskedApplies DEF Driven
  <2>10. QED BY <2>1, <2>2, <2>4, <2>5, <2>6, <2>7, <2>8, <2>9 DEF Standing
<1>3. QED BY <1>1, <1>2 DEF Dispatch

\* A new interface and a save that continues at stage l.
LEMMA CloneTruth ==
    ASSUME TypeOK, NEW p \in Proc, kind' = kind, Truth(p), NEW m \in Iface, Clone(p, m),
           NEW l \in Stages, Goto(p, l), UNCHANGED <<cmd, ic, left, warned, fell, gone>>,
           \/ /\ pc[p] \in {"typeCreate", "create"} /\ m = Name(p) /\ l = ToFirst(ic[p])
           \/ /\ pc[p] = "typeCreate" /\ l = "lookup"
           \/ /\ pc[p] = "typeCreate" /\ m = Name(p)
              /\ K(p) \in CreateOrSave /\ l = ToDriver(ic[p])
    PROVE  Truth(p)'
<1> DEFINE n == Name(p)
<1> SUFFICES ASSUME before'[p] # {}, ~warned'[p]
             PROVE  Standing(p)'
    BY DEF Truth
<1>1. /\ attr' = attr /\ present' = present \cup {m} /\ before'[p] = before[p]
      /\ made'[p] # {} /\ made[p] \subseteq made'[p]
      /\ pc'[p] = l
    BY CloneTyped DEF Clone, Touched, TypeOK, Goto
<1>2. /\ Standing(p) /\ pc[p] \in BeforeFirst /\ pc[p] \in Saving
    BY <1>1 DEF Truth, SetPc, BeforeFirst, BeforeAddrs, BeforeMtu, BeforeUp, BeforeFib, BeforeGroups,
                BeforeDescr, BeforeDriver, Saving
<1>3. n' = n /\ K(p)' = K(p) /\ Settings(p)' = Settings(p)
    BY DEF Name, K, Settings
<1>4. /\ Handled(p)' <=> Handled(p)
      /\ Driven(p)' <=> Driven(p)
      /\ CreatedBare(p) => CreatedBare(p)'
    BY <1>1, <1>3 DEF Handled, HandledAs, CreatedBare, Driven
<1>5. l \in There => n \in present'
    BY <1>1, StageSets DEF Stages
<1>6. ic'[p].known => n \in present'
    BY <1>1, <1>2 DEF Standing
<1>7. Driven(p)' => Drives(pc[p], Settings(p), ic[p], attr[n], K(p))'
  <2>1. ToTheDriver(l, ic[p])
      BY LeadToDriver, StageSets DEF ToTheDriver, SetPc
  <2>2. pc[p] \in BeforeDriver
      BY StageSets, <1>2 DEF SetPc
  <2>3. Driven(p) => Drives(pc[p], Settings(p), ic[p], attr[n], K(p))
      BY <1>2 DEF Standing
  <2>4. Driven(p) => Drives(l, Settings(p), ic[p], attr[n], K(p))
      BY <2>1, <2>2, <2>3, DrivesOn
  <2>5. QED BY <1>1, <1>3, <1>4, <2>4
<1>8. ~CreatedBare(p)' => Applies(pc[p], cmd[p], ic[p], attr[n])'
  <2>1. ~CreatedBare(p) => Applies(pc[p], cmd[p], ic[p], attr[n])
      BY <1>2 DEF Standing
  <2>2. ~CreatedBare(p) => /\ Applies("first", cmd[p], ic[p], attr[n])
                           /\ Applies("lookup", cmd[p], ic[p], attr[n])
      BY <1>2, <2>1 DEF Applies, BeforeFirst, BeforeAddrs, BeforeMtu, BeforeUp, BeforeFib, BeforeGroups,
                        BeforeDescr
  <2>3. CASE l \in {"lookup", ToFirst(ic[p])}
    <3>1. ~CreatedBare(p) => Applies(l, cmd[p], ic[p], attr[n])
        BY <2>2, <2>3, SkippedNothing
    <3>2. QED BY <1>1, <1>3, <1>4, <3>1
  <2>4. CASE pc[p] = "typeCreate" /\ K(p) \in CreateOrSave
    <3>1. Handled(p) /\ n \notin present
        BY <1>2, <2>4 DEF Standing
    <3>2. cmd[p].typed
        BY <1>2, <3>1 DEF Handled, HandledAs, Standing
    <3>3. QED BY <1>1, <1>3, <2>4, <3>2 DEF CreatedBare
  <2>5. QED BY <2>3, <2>4
<1>9. QED BY <1>1, <1>3, <1>4, <1>5, <1>6, <1>7, <1>8, StageSets DEF Standing, Stages

\* The steps of a set before the stages that apply what it gives.
LEMMA FindTruth ==
    ASSUME TypeOK, NEW p \in Proc, kind' = kind, Truth(p), Exists(p) \/ List(p) \/ Meta(p)
    PROVE  Truth(p)'
<1> DEFINE n == Name(p)
<1>0. /\ n \in Iface /\ attr[n] \in Attributes /\ ic[p] \in Configs
    BY NameTyped, FieldsTyped
<1>1. ASSUME NEW e \in BOOLEAN, Dispatch(p, NoConfig, e), pc[p] \in {"exists", "list"}
      PROVE  Truth(p)'
    BY <1>1, NoConfigTyped, DispatchTruth DEF NoConfig
<1>2. CASE /\ n \in present /\ pc'[p] \in {"list", "meta"}
           /\ UNCHANGED <<kernel, cmd, left, history>>
  <2>1. n' = n
      BY <1>2 DEF Name
  <2>2. QED BY <1>2, <2>1, StageSets DEF Truth, Standing, kernel
<1>3. CASE Exists(p)
  <2>1. CASE n \in present /\ Goto(p, "list") /\ UNCHANGED <<kernel, cmd, ic, left, history>>
      BY <1>2, <2>1 DEF Goto, TypeOK
  <2>2. QED BY <1>1, <1>3, <2>1 DEF Exists
<1>4. CASE List(p)
  <2>1. CASE /\ n \in present
             /\ Goto(p, "meta")
             /\ UNCHANGED <<kernel, cmd, left, history>>
      BY <1>2, <2>1 DEF Goto, TypeOK
  <2>2. QED BY <1>1, <1>4, <2>1 DEF List
<1>5. CASE Meta(p)
  <2> DEFINE r == attr[n]
             found == [ic[p] EXCEPT !.groups = r.groups, !.vrf = {r.fib},
                                    !.descr = {r.descr} \ {NoDescr}]
  <2>1. r.groups \subseteq Group /\ {r.fib} \in Optional(Fib)
        /\ {r.descr} \ {NoDescr} \in Optional(Descr)
      BY <1>0 DEF Attributes, Optional
  <2>2. found \in Configs
      BY <1>0, <2>1 DEF Configs
  <2>3. before[p] # {} /\ ~warned[p] => n \in present
      BY <1>5, StageSets DEF Meta, Truth, Standing, SetPc
  <2>4. CASE Dispatch(p, found, TRUE)
      BY <1>5, <2>2, <2>3, <2>4, DispatchTruth DEF Meta
  <2>5. CASE Dispatch(p, ic[p], TRUE)
      BY <1>0, <1>5, <2>3, <2>5, DispatchTruth DEF Meta
  <2>6. QED BY <1>5, <2>4, <2>5 DEF Meta
<1>6. QED BY <1>3, <1>4, <1>5

\* The steps that find the interface missing, or make it.
LEMMA MakeTruth ==
    ASSUME TypeOK, NEW p \in Proc, kind' = kind, Truth(p),
           TypeLookup(p) \/ TypeCreate(p) \/ Lookup(p) \/ Create(p)
    PROVE  Truth(p)'
<1> DEFINE n == Name(p)
           c == cmd[p]
           r == attr[n]
<1>0. n \in Iface
    BY NameTyped
<1>a. CASE Throw(p)
    BY <1>a DEF Throw, End, Goto, TypeOK, Truth, SetPc
<1>b. \A l, m \in BeforeFirst : /\ Applies(l, c, ic[p], r) => Applies(m, c, ic[p], r)
                               /\ l \in BeforeDriver
    BY DEF Applies, BeforeDriver, BeforeDescr, BeforeGroups, BeforeFib, BeforeUp, BeforeMtu,
           BeforeAddrs
<1>c. {"typeLookup", "typeCreate", "lookup", "create", "first"} \subseteq BeforeFirst
    BY DEF BeforeFirst
<1>1. CASE TypeLookup(p)
  <2>1. /\ pc[p] = "typeLookup" /\ UNCHANGED <<kernel, cmd, ic, left, history>>
        /\ pc'[p] = IF n \in present THEN "lookup" ELSE "typeCreate"
      BY <1>1 DEF TypeLookup, Goto, TypeOK
  <2>2. UNCHANGED <<present, attr, before, warned, made>>
      BY <2>1 DEF kernel, history
  <2>3. CASE n \in present
    <3>1. "lookup" \in Stages /\ "lookup" \notin There /\ pc[p] \in Saving
        BY <2>1, StageSets DEF Stages, SetPc
    <3>2. ASSUME Standing(p)
          PROVE  /\ ~CreatedBare(p) => Applies("lookup", c, ic[p], r)
                 /\ Driven(p) => Drives("lookup", Settings(p), ic[p], r, K(p))
      <4>1. /\ ~CreatedBare(p) => Applies("typeLookup", c, ic[p], r)
            /\ Driven(p) => Drives("typeLookup", Settings(p), ic[p], r, K(p))
          BY <2>1, <3>1, <3>2 DEF Standing
      <4>2. QED BY <1>b, <1>c, <4>1 DEF Drives
    <3>3. QED BY <2>1, <2>2, <2>3, <3>1, <3>2, StageTruth
  <2>4. CASE n \notin present
    <3> SUFFICES ASSUME before'[p] # {}, ~warned'[p]
                 PROVE  Standing(p)'
        BY DEF Truth
    <3>1. n' = n /\ K(p)' = K(p) /\ Settings(p)' = Settings(p)
        BY <2>1 DEF Name, K, Settings
    <3>2. /\ Handled(p)' <=> Handled(p)
          /\ CreatedBare(p)' <=> CreatedBare(p)
          /\ Driven(p)' <=> Driven(p)
        BY <2>1, <2>2, <3>1 DEF Handled, HandledAs, CreatedBare, Driven
    <3>3. /\ Standing(p) /\ pc[p] \in Saving /\ pc'[p] = "typeCreate"
          /\ "typeCreate" \in Saving /\ "typeCreate" \notin There
        BY <2>1, <2>2, <2>4, StageSets DEF Truth, SetPc
    <3>4. /\ ~CreatedBare(p) => Applies("typeLookup", c, ic[p], r)
          /\ Driven(p) => Drives("typeLookup", Settings(p), ic[p], r, K(p))
        BY <2>1, <3>3 DEF Standing
    <3>5. /\ ~CreatedBare(p) => Applies("typeCreate", c, ic[p], r)
          /\ Driven(p) => Drives("typeCreate", Settings(p), ic[p], r, K(p))
        BY <1>b, <1>c, <3>4 DEF Drives
    <3>6. /\ CreatedBare(p) \/ Applies(pc[p], c, ic[p], r)'
          /\ Driven(p) => Drives(pc[p], Settings(p), ic[p], r, K(p))'
        BY <2>1, <2>2, <3>1, <3>3, <3>5
    <3>7. QED BY <2>1, <2>2, <2>4, <3>1, <3>2, <3>3, <3>6 DEF Standing
  <2>5. QED BY <2>3, <2>4
<1>2. CASE Lookup(p)
  <2>1. PICK l \in Stages : /\ Goto(p, l)
                            /\ l = IF n \in present THEN ToFirst(ic[p]) ELSE "create"
      BY <1>2, ToStages DEF Lookup, Stages, SetPc
  <2>2. /\ pc[p] = "lookup" /\ UNCHANGED <<kernel, cmd, ic, left, history>>
        /\ pc'[p] = l /\ pc[p] \in Saving /\ "create" \notin There
      BY <1>2, <2>1, StageSets DEF Lookup, Goto, TypeOK, SetPc
  <2>3. ASSUME Standing(p)
        PROVE  /\ l \in There => n \in present
               /\ ~CreatedBare(p) => Applies(l, c, ic[p], r)
               /\ Driven(p) => Drives(l, Settings(p), ic[p], r, K(p))
    <3>1. /\ ~CreatedBare(p) => Applies("lookup", c, ic[p], r)
          /\ Driven(p) => Drives("lookup", Settings(p), ic[p], r, K(p))
        BY <2>2, <2>3 DEF Standing
    <3>2. ~CreatedBare(p) => /\ Applies("first", c, ic[p], r)
                             /\ Applies("create", c, ic[p], r)
        BY <1>b, <1>c, <3>1
    <3>3. ~CreatedBare(p) => Applies(l, c, ic[p], r)
        BY <2>1, <3>2, SkippedNothing
    <3>4. ToTheDriver(l, ic[p])
        BY <2>1, LeadToDriver, StageSets DEF ToTheDriver, SetPc
    <3>5. Driven(p) => Drives(l, Settings(p), ic[p], r, K(p))
        BY <1>b, <1>c, <3>1, <3>4, DrivesOn
    <3>6. QED BY <2>1, <2>2, <3>3, <3>5
  <2>4. UNCHANGED <<present, attr, before, warned, made>>
      BY <2>2 DEF kernel, history
  <2>5. QED BY <2>2, <2>3, <2>4, StageTruth
<1>3. CASE TypeCreate(p)
  <2>1. ASSUME NEW m \in CloneNames(p), Clone(p, m), Goto(p, AfterCreate(p)),
               UNCHANGED <<cmd, ic, left, warned, fell, gone>>
        PROVE  Truth(p)'
    <3>1. m \in Iface /\ (K(p) # "bridge" => m = n)
        BY <1>0 DEF CloneNames
    <3>2. CASE K(p) \in CreateOrSave
      <4>1. AfterCreate(p) = ToDriver(ic[p]) /\ K(p) # "bridge"
          BY <3>2 DEF AfterCreate, CreateOrSave
      <4>2. QED BY <1>3, <2>1, <3>1, <3>2, <4>1, ToStages, CloneTruth DEF TypeCreate
    <3>3. CASE K(p) \notin CreateOrSave
      <4>1. AfterCreate(p) = "lookup" /\ "lookup" \in Stages
          BY <3>3 DEF AfterCreate, Stages, SetPc
      <4>2. QED BY <1>3, <2>1, <3>1, <4>1, CloneTruth DEF TypeCreate
    <3>4. QED BY <3>2, <3>3
  <2>2. QED BY <1>3, <1>a, <2>1 DEF TypeCreate
<1>4. CASE Create(p)
    BY <1>0, <1>4, <1>a, ToStages, CloneTruth DEF Create
<1>5. QED BY <1>1, <1>2, <1>3, <1>4

\* The generic settings.
LEMMA GenericTruth ==
    ASSUME TypeOK, NEW p \in Proc, kind' = kind, Truth(p),
           \/ First(p) \/ Addrs(p) \/ SetMtu(p) \/ FlagsGet(p) \/ FlagsSet(p) \/ SetFib(p)
           \/ Groups(p) \/ GroupAdd(p) \/ SetDescr(p)
    PROVE  Truth(p)'
<1> DEFINE n == Name(p)
           c == cmd[p]
           g == Settings(p)
           i == ic[p]
           r == attr[n]
<1>0. n \in Iface /\ r \in Attributes /\ i \in Configs
    BY NameTyped, FieldsTyped
<1>a. CASE Throw(p)
    BY <1>a DEF Throw, End, Goto, TypeOK, Truth, SetPc
<1>b. {"first", "addrs", "mtu", "flagsGet", "flagsSet", "fib", "groups", "groupAdd", "descr"}
        \subseteq Stages \cap BeforeDriver \cap There \cap Saving
    BY StageSets DEF Stages, SetPc
<1>c. ASSUME Standing(p), pc[p] \in Stages \cap BeforeDriver \cap There
      PROVE  /\ n \in present
             /\ ~CreatedBare(p) => Applies(pc[p], c, i, r)
             /\ Driven(p) => Drives(pc[p], g, i, r, K(p))
    BY <1>c, StageSets DEF Standing
<1> HIDE DEF n, c, g, i, r
<1>1. CASE First(p)
  <2>1. PICK a : \/ a \in i.first /\ Write(p, n, WithAddr(r, a, TRUE)) /\ UNCHANGED warned
                 \/ warned' = [warned EXCEPT ![p] = TRUE]
      BY <1>1 DEF First, n, i, r
  <2>2. /\ pc[p] = "first" /\ pc'[p] = ToAddrs(i) /\ ToAddrs(i) \in Stages
        /\ ic' = ic /\ cmd' = cmd /\ made' = made
      BY <1>1, ToStages DEF First, Goto, TypeOK, i
  <2> DEFINE s == WithAddr(r, a, TRUE)
  <2>3. a \in i.first => a \in Addr
      BY <1>0, Shape DEF Configs, Optional
  <2>4. ASSUME Standing(p), a \in i.first
        PROVE  /\ n \in present
               /\ ~CreatedBare(p) => Applies(ToAddrs(i), c, i, s)
               /\ Driven(p) => Drives(ToAddrs(i), g, i, s, K(p))
    <3>1. /\ n \in present
          /\ ~CreatedBare(p) => Applies("first", c, i, r)
          /\ Driven(p) => Drives("first", g, i, r, K(p))
        BY <1>b, <1>c, <2>2, <2>4
    <3>2. /\ s.addrs = r.addrs \cup {a} /\ s.groups = r.groups /\ s.mtu = r.mtu
          /\ s.fib = r.fib /\ s.descr = r.descr /\ s.up = r.up /\ s.items = r.items
        BY <1>0, <2>3, <2>4, WithAddrTyped
    <3> HIDE DEF s
    <3>3. ~CreatedBare(p) => Applies("addrs", c, i, s)
        BY <1>0, <2>3, <2>4, <3>1, <3>2, AppliesAddr
    <3>4. ~CreatedBare(p) => Applies(ToAddrs(i), c, i, s)
        BY <3>3, SkippedNothing
    <3>5. Driven(p) => Drives(ToAddrs(i), g, i, s, K(p))
        BY <1>b, <3>1, <3>2, LeadToDriver, DrivesOn
    <3>6. QED BY <3>1, <3>4, <3>5
  <2> HIDE DEF s
  <2>5. CASE a \in i.first /\ Write(p, n, s) /\ UNCHANGED warned
    <3>1. attr'[n] = s /\ present' = present /\ before'[p] = before[p] /\ warned' = warned
        BY <1>0, <2>5, WriteBefore DEF Write, TypeOK
    <3>2. QED BY <1>b, <2>2, <2>4, <2>5, <3>1, StageTruth DEF n, c, g, i
  <2>6. CASE warned'[p]
      BY <2>6 DEF Truth
  <2>7. QED BY <2>1, <2>5, <2>6 DEF TypeOK, s
<1>2. CASE Addrs(p)
  <2>1. PICK a \in i.addrs :
          LET j == [i EXCEPT !.addrs = @ \ {a}] IN
          /\ ic' = [ic EXCEPT ![p] = j]
          /\ Goto(p, ToAddrs(j))
          /\ \/ Write(p, n, WithAddr(r, a, a \notin V4 \/ a \in i.bare)) /\ UNCHANGED warned
             \/ Write(p, n, WithAddr(r, a, TRUE)) /\ UNCHANGED warned
             \/ warned' = [warned EXCEPT ![p] = TRUE]
      BY <1>2 DEF Addrs, n, i, r
  <2> DEFINE j == [i EXCEPT !.addrs = @ \ {a}]
  <2>2. /\ pc[p] = "addrs" /\ pc'[p] = ToAddrs(j) /\ ToAddrs(j) \in Stages
        /\ ic'[p] = j /\ cmd' = cmd /\ made' = made
      BY <1>2, <2>1, ToStages DEF Addrs, Goto, TypeOK
  <2>3. j.items = i.items /\ j.known = i.known /\ a \in Addr
      BY <1>0 DEF Configs
  <2>4. PICK b \in BOOLEAN : \/ Write(p, n, WithAddr(r, a, b)) /\ UNCHANGED warned
                            \/ warned' = [warned EXCEPT ![p] = TRUE]
    <3>1. CASE a \notin V4 \/ a \in i.bare
      <4>1. (a \notin V4 \/ a \in i.bare) = TRUE
          BY <3>1
      <4>2. QED BY <2>1, <4>1
    <3>2. CASE ~(a \notin V4 \/ a \in i.bare)
      <4>1. (a \notin V4 \/ a \in i.bare) = FALSE
          BY <3>2
      <4>2. QED BY <2>1, <4>1
    <3>3. QED BY <3>1, <3>2
  <2> DEFINE s == WithAddr(r, a, b)
  <2>5. ASSUME Standing(p)
        PROVE  /\ n \in present
               /\ ~CreatedBare(p) => Applies(ToAddrs(j), c, j, s)
               /\ Driven(p) => Drives(ToAddrs(j), g, j, s, K(p))
    <3>1. /\ n \in present
          /\ ~CreatedBare(p) => Applies("addrs", c, i, r)
          /\ Driven(p) => Drives("addrs", g, i, r, K(p))
        BY <1>b, <1>c, <2>2, <2>5
    <3>2. /\ s.addrs = r.addrs \cup {a} /\ s.groups = r.groups /\ s.mtu = r.mtu
          /\ s.fib = r.fib /\ s.descr = r.descr /\ s.up = r.up /\ s.items = r.items
        BY <1>0, <2>3, WithAddrTyped
    <3> HIDE DEF s
    <3>3. ~CreatedBare(p) => Applies("addrs", c, j, s)
        BY <1>0, <2>3, <3>1, <3>2, AppliesAddr
    <3>4. ~CreatedBare(p) => Applies(ToAddrs(j), c, j, s)
        BY <3>3, SkippedNothing
    <3>5. ToTheDriver(ToAddrs(j), j)
        BY LeadToDriver
    <3> HIDE DEF j
    <3>6. Driven(p) => Drives(ToAddrs(j), g, j, s, K(p))
        BY <1>b, <2>3, <3>1, <3>2, <3>5, DrivesOn
    <3>7. QED BY <3>1, <3>4, <3>6
  <2> HIDE DEF j, s
  <2>6. CASE Write(p, n, s) /\ UNCHANGED warned
    <3>1. attr'[n] = s /\ present' = present /\ before'[p] = before[p] /\ warned' = warned
        BY <1>0, <2>6, WriteBefore DEF Write, TypeOK
    <3>2. QED BY <1>b, <2>2, <2>3, <2>5, <3>1, StageTruth DEF n, c, g, i
  <2>7. CASE warned'[p]
      BY <2>7 DEF Truth
  <2>8. QED BY <2>4, <2>6, <2>7 DEF TypeOK, s
<1>3. CASE SetMtu(p)
  <2>1. PICK v \in i.mtu :
          Must(p, n, [r EXCEPT !.mtu = v], "flagsGet", [i EXCEPT !.mtu = {}])
      BY <1>3 DEF SetMtu, n, i, r
  <2> DEFINE j == [i EXCEPT !.mtu = {}]
             s == [r EXCEPT !.mtu = v]
  <2>2. j.items = i.items /\ j.known = i.known /\ s.items = r.items
      BY <1>0 DEF Configs, Attributes
  <2>3. pc[p] = "mtu" /\ ToTheDriver("flagsGet", j)
      BY <1>3, <1>b DEF SetMtu, ToTheDriver
  <2>4. ASSUME Standing(p)
        PROVE  /\ ~CreatedBare(p) => Applies("flagsGet", c, j, s)
               /\ Driven(p) => Drives("flagsGet", g, j, s, K(p))
    <3>1. /\ ~CreatedBare(p) => Applies("mtu", c, i, r)
          /\ Driven(p) => Drives("mtu", g, i, r, K(p))
        BY <1>b, <1>c, <2>3, <2>4
    <3>2. ~CreatedBare(p) => Applies("flagsGet", c, j, s)
        BY <1>0, <3>1, AppliesOn
    <3> HIDE DEF j, s
    <3>3. Driven(p) => Drives("flagsGet", g, j, s, K(p))
        BY <1>b, <2>2, <2>3, <3>1, DrivesOn
    <3>4. QED BY <3>2, <3>3
  <2> HIDE DEF j, s
  <2>5. Must(p, n, s, "flagsGet", j)
      BY <2>1 DEF j, s
  <2>6. QED BY <1>b, <2>2, <2>3, <2>4, <2>5, MustTruth DEF n, c, g, i
<1>4. CASE FlagsGet(p)
  <2>1. /\ pc[p] = "flagsGet" /\ UNCHANGED <<kernel, cmd, ic, left, history>>
        /\ pc'[p] = IF n \in present THEN "flagsSet" ELSE ToFib(i)
      BY <1>4 DEF FlagsGet, Goto, TypeOK, n, i
  <2>2. UNCHANGED <<present, attr, before, warned, made>>
      BY <2>1 DEF kernel, history
  <2>3. CASE n \in present
    <3>1. ASSUME Standing(p)
          PROVE  /\ ~CreatedBare(p) => Applies("flagsSet", c, i, r)
                 /\ Driven(p) => Drives("flagsSet", g, i, r, K(p))
      <4>1. /\ ~CreatedBare(p) => Applies("flagsGet", c, i, r)
            /\ Driven(p) => Drives("flagsGet", g, i, r, K(p))
          BY <1>b, <1>c, <2>1, <3>1
      <4>2. ToTheDriver("flagsSet", i)
          BY <1>b DEF ToTheDriver
      <4>3. QED BY <1>0, <1>b, <4>1, <4>2, AppliesOn, DrivesOn
    <3>2. QED BY <1>b, <2>1, <2>2, <2>3, <3>1, StageTruth DEF n, c, g, i, r
  <2>4. CASE n \notin present
      BY <1>b, <1>c, <2>1, <2>2, <2>4, StageSets DEF Truth
  <2>5. QED BY <2>3, <2>4
<1>5. CASE FlagsSet(p)
  <2> DEFINE s == [r EXCEPT !.up = TRUE]
  <2>1. s.items = r.items
      BY <1>0 DEF Attributes
  <2>2. pc[p] = "flagsSet" /\ Must(p, n, s, ToFib(i), i) /\ ToFib(i) \in Stages
      BY <1>5, ToStages DEF FlagsSet, n, i, r
  <2>3. ASSUME Standing(p)
        PROVE  /\ ~CreatedBare(p) => Applies(ToFib(i), c, i, s)
               /\ Driven(p) => Drives(ToFib(i), g, i, s, K(p))
    <3>1. /\ ~CreatedBare(p) => Applies("flagsSet", c, i, r)
          /\ Driven(p) => Drives("flagsSet", g, i, r, K(p))
        BY <1>b, <1>c, <2>2, <2>3
    <3>2. ~CreatedBare(p) => Applies("fib", c, i, s)
        BY <1>0, <3>1, AppliesOn
    <3> HIDE DEF s
    <3>3. ~CreatedBare(p) => Applies(ToFib(i), c, i, s)
        BY <3>2, SkippedNothing
    <3>4. Driven(p) => Drives(ToFib(i), g, i, s, K(p))
        BY <1>b, <2>1, <3>1, LeadToDriver, DrivesOn
    <3>5. QED BY <3>3, <3>4
  <2> HIDE DEF s
  <2>4. QED BY <1>b, <2>1, <2>2, <2>3, MustTruth DEF n, c, g, i
<1>6. CASE SetFib(p)
  <2>1. PICK v \in i.vrf :
          Must(p, n, [r EXCEPT !.fib = v], ToGroups(i), [i EXCEPT !.vrf = {}])
      BY <1>6 DEF SetFib, n, i, r
  <2> DEFINE j == [i EXCEPT !.vrf = {}]
             s == [r EXCEPT !.fib = v]
  <2>2. /\ j.items = i.items /\ j.known = i.known /\ s.items = r.items
        /\ j.groups = i.groups /\ j.descr = i.descr
      BY <1>0 DEF Configs, Attributes
  <2>3. pc[p] = "fib" /\ ToGroups(i) \in Stages
      BY <1>6, ToStages DEF SetFib
  <2>4. ToGroups(i) = ToGroups(j)
    <3> HIDE DEF j
    <3>1. QED BY <2>2 DEF ToGroups, ToDescr, ToDriver
  <2>5. ASSUME Standing(p)
        PROVE  /\ ~CreatedBare(p) => Applies(ToGroups(i), c, j, s)
               /\ Driven(p) => Drives(ToGroups(i), g, j, s, K(p))
    <3>1. /\ ~CreatedBare(p) => Applies("fib", c, i, r)
          /\ Driven(p) => Drives("fib", g, i, r, K(p))
        BY <1>b, <1>c, <2>3, <2>5
    <3>2. ~CreatedBare(p) => Applies("groups", c, j, s)
        BY <1>0, <3>1, AppliesOn
    <3> HIDE DEF j, s
    <3>3. ~CreatedBare(p) => Applies(ToGroups(i), c, j, s)
        BY <2>4, <3>2, SkippedNothing
    <3>4. Driven(p) => Drives(ToGroups(i), g, j, s, K(p))
        BY <1>b, <2>2, <2>4, <3>1, LeadToDriver, DrivesOn
    <3>5. QED BY <3>3, <3>4
  <2> HIDE DEF j, s
  <2>6. Must(p, n, s, ToGroups(i), j)
      BY <2>1 DEF j, s
  <2>7. QED BY <1>b, <2>2, <2>3, <2>5, <2>6, MustTruth DEF n, c, g, i
<1>7. CASE Groups(p)
  <2> DEFINE new == i.groups \ (IF n \in present THEN r.groups ELSE {})
             j == [i EXCEPT !.groups = new]
  <2>1. /\ pc[p] = "groups" /\ UNCHANGED <<kernel, cmd, left, history>>
        /\ pc'[p] = (IF new # {} THEN "groupAdd" ELSE ToDescr(i))
        /\ ic'[p] = j
      BY <1>7 DEF Groups, Goto, TypeOK, n, i, r
  <2>2. UNCHANGED <<present, attr, before, warned, made, cmd>>
      BY <2>1 DEF kernel, history
  <2>3. j.items = i.items /\ j.known = i.known /\ j.groups = new /\ j.descr = i.descr
      BY <1>0 DEF Configs
  <2>4. PICK l \in Stages : pc'[p] = l /\ l = IF new # {} THEN "groupAdd" ELSE ToDescr(i)
      BY <1>b, <2>1, ToStages
  <2>5. ASSUME Standing(p)
        PROVE  /\ n \in present
               /\ ~CreatedBare(p) => Applies(l, c, j, r)
               /\ Driven(p) => Drives(l, g, j, r, K(p))
    <3>1. /\ n \in present
          /\ ~CreatedBare(p) => Applies("groups", c, i, r)
          /\ Driven(p) => Drives("groups", g, i, r, K(p))
        BY <1>b, <1>c, <2>1, <2>5
    <3>2. j = [i EXCEPT !.groups = @ \ r.groups]
        BY <1>0, <3>1 DEF Configs
    <3>3. ~CreatedBare(p) => Applies("groupAdd", c, j, r)
        BY <1>0, <3>1, <3>2, AppliesOn
    <3>4. j \in Configs
        BY <1>0, ConfigTyped
    <3>5. ToDescr(i) = ToDescr(j)
      <4> HIDE DEF j
      <4>1. QED BY <2>3 DEF ToDescr, ToDriver
    <3> HIDE DEF j, new
    <3>6. new = {} /\ ~CreatedBare(p) => Applies("descr", c, j, r)
        BY <1>0, <2>3, <3>3, <3>4, AppliesOn
    <3>7. ~CreatedBare(p) => Applies(l, c, j, r)
        BY <2>4, <3>3, <3>5, <3>6, SkippedNothing
    <3>8. ToTheDriver(l, j)
        BY <1>b, <2>4, <3>5, LeadToDriver DEF ToTheDriver
    <3>9. Driven(p) => Drives(l, g, j, r, K(p))
        BY <1>b, <2>3, <3>1, <3>8, DrivesOn
    <3>10. QED BY <3>1, <3>7, <3>9
  <2> HIDE DEF j, new
  <2>6. QED BY <1>b, <2>1, <2>2, <2>3, <2>4, <2>5, StageTruth DEF n, c, g, i, r
<1>8. CASE GroupAdd(p)
  <2>1. ASSUME NEW x \in i.groups,
               Write(p, n, [r EXCEPT !.groups = @ \cup {x}]),
               ic' = [ic EXCEPT ![p].groups = i.groups \ {x}],
               Goto(p, IF i.groups \ {x} # {} THEN "groupAdd" ELSE ToDescr(i)),
               UNCHANGED <<cmd, left, warned, fell, made, gone>>
        PROVE  Truth(p)'
    <3> DEFINE j == [i EXCEPT !.groups = @ \ {x}]
               s == [r EXCEPT !.groups = @ \cup {x}]
    <3>1. ic'[p] = j
        BY <2>1 DEF TypeOK, i
    <3>2. /\ attr'[n] = s /\ present' = present /\ before'[p] = before[p]
          /\ warned' = warned /\ made' = made /\ cmd' = cmd
        BY <1>0, <2>1, WriteBefore DEF Write, TypeOK
    <3>3. /\ j.items = i.items /\ j.known = i.known /\ s.items = r.items
          /\ j.groups = i.groups \ {x} /\ j.descr = i.descr
        BY <1>0 DEF Configs, Attributes
    <3>4. PICK l \in Stages : pc'[p] = l /\ l = IF j.groups # {} THEN "groupAdd" ELSE ToDescr(i)
        BY <1>b, <2>1, <3>3, ToStages DEF Goto, TypeOK
    <3>5. pc[p] = "groupAdd"
        BY <1>8 DEF GroupAdd
    <3>6. ASSUME Standing(p)
          PROVE  /\ n \in present
                 /\ ~CreatedBare(p) => Applies(l, c, j, s)
                 /\ Driven(p) => Drives(l, g, j, s, K(p))
      <4>1. /\ n \in present
            /\ ~CreatedBare(p) => Applies("groupAdd", c, i, r)
            /\ Driven(p) => Drives("groupAdd", g, i, r, K(p))
          BY <1>b, <1>c, <3>5, <3>6
      <4>2. ~CreatedBare(p) => Applies("groupAdd", c, j, s)
          BY <1>0, <4>1, AppliesOn
      <4>3. j \in Configs /\ s \in Attributes
        <5>1. j \in Configs
            BY <1>0, ConfigTyped
        <5>2. x \in Group
            BY <1>0 DEF Configs
        <5>3. QED BY <1>0, <5>1, <5>2 DEF Attributes
      <4>4. ToDescr(i) = ToDescr(j)
        <5> HIDE DEF j
        <5>1. QED BY <3>3 DEF ToDescr, ToDriver
      <4> HIDE DEF j, s
      <4>5. j.groups = {} /\ ~CreatedBare(p) => Applies("descr", c, j, s)
          BY <4>2, <4>3, AppliesOn
      <4>6. ~CreatedBare(p) => Applies(l, c, j, s)
          BY <3>4, <4>2, <4>4, <4>5, SkippedNothing
      <4>7. ToTheDriver(l, j)
          BY <1>b, <3>4, <4>4, LeadToDriver DEF ToTheDriver
      <4>8. Driven(p) => Drives(l, g, j, s, K(p))
          BY <1>b, <3>3, <4>1, <4>7, DrivesOn
      <4>9. QED BY <4>1, <4>6, <4>8
    <3> HIDE DEF j, s
    <3>7. QED BY <1>b, <3>1, <3>2, <3>3, <3>4, <3>5, <3>6, StageTruth DEF n, c, g, i
  <2>2. QED BY <1>8, <1>a, <2>1 DEF GroupAdd, n, i, r
<1>9. CASE SetDescr(p)
  <2> DEFINE j == [i EXCEPT !.descr = {}]
  <2>1. /\ pc[p] = "descr" /\ pc'[p] = ToDriver(i) /\ ToDriver(i) \in Stages
        /\ ic'[p] = j /\ cmd' = cmd /\ made' = made
      BY <1>9, ToStages DEF SetDescr, Goto, TypeOK, i
  <2>2. j.items = i.items /\ j.known = i.known
      BY <1>0 DEF Configs
  <2>3. ToDriver(i) = ToDriver(j)
    <3> HIDE DEF j
    <3>1. QED BY <2>2 DEF ToDriver
  <2>4. CASE warned'[p]
      BY <2>4 DEF Truth
  <2>5. ASSUME NEW d \in i.descr, Write(p, n, [r EXCEPT !.descr = d]), UNCHANGED warned
        PROVE  Truth(p)'
    <3> DEFINE s == [r EXCEPT !.descr = d]
    <3>1. attr'[n] = s /\ present' = present /\ before'[p] = before[p] /\ warned' = warned
        BY <1>0, <2>5, WriteBefore DEF Write, TypeOK
    <3>2. s.items = r.items
        BY <1>0 DEF Attributes
    <3>3. ASSUME Standing(p)
          PROVE  /\ n \in present
                 /\ ~CreatedBare(p) => Applies(ToDriver(i), c, j, s)
                 /\ Driven(p) => Drives(ToDriver(i), g, j, s, K(p))
      <4>1. /\ n \in present
            /\ ~CreatedBare(p) => Applies("descr", c, i, r)
            /\ Driven(p) => Drives("descr", g, i, r, K(p))
          BY <1>b, <1>c, <2>1, <3>3
      <4>2. ~CreatedBare(p) => Applies("driver", c, j, s)
          BY <1>0, <4>1, AppliesOn
      <4> HIDE DEF j, s
      <4>3. ~CreatedBare(p) => Applies(ToDriver(i), c, j, s)
          BY <2>3, <4>2, SkippedNothing
      <4>4. Driven(p) => Drives(ToDriver(i), g, j, s, K(p))
          BY <1>b, <2>2, <2>3, <3>2, <4>1, LeadToDriver, DrivesOn
      <4>5. QED BY <4>1, <4>3, <4>4
    <3> HIDE DEF j, s
    <3>4. QED BY <1>b, <2>1, <2>2, <3>1, <3>3, StageTruth DEF n, c, g, i
  <2>6. QED BY <1>9, <2>4, <2>5 DEF SetDescr, TypeOK, n, i, r
<1>10. QED BY <1>1, <1>2, <1>3, <1>4, <1>5, <1>6, <1>7, <1>8, <1>9

\* The settings of the driver, and the report.
LEMMA DriverTruth ==
    ASSUME TypeOK, NEW p \in Proc, kind' = kind, Truth(p),
           \/ DriverItem(p) \/ DriverParam(p) \/ DriverRead(p) \/ DriverAll(p)
           \/ DriverTunnel6(p) \/ Report(p)
    PROVE  Truth(p)'
<1> DEFINE n == Name(p)
           c == cmd[p]
           g == Settings(p)
           i == ic[p]
           r == attr[n]
<1>0. n \in Iface /\ r \in Attributes /\ i \in Configs
    BY NameTyped, FieldsTyped
<1>a. CASE Throw(p)
    BY <1>a DEF Throw, End, Goto, TypeOK, Truth, SetPc
<1>b. /\ {"driver", "driverSet"} \subseteq Stages \cap BeforeDriver \cap There \cap Saving
      /\ "report" \in Stages \cap There \cap Saving /\ "report" \notin BeforeDriver
    BY StageSets DEF Stages, SetPc
<1>c. ASSUME Standing(p), pc[p] \in {"driver", "driverSet"}
      PROVE  /\ n \in present
             /\ ~CreatedBare(p) => Applies("driver", c, i, r)
             /\ Driven(p) => Drives("driver", g, i, r, K(p))
  <2>1. /\ n \in present
        /\ ~CreatedBare(p) => Applies(pc[p], c, i, r)
        /\ Driven(p) => Drives(pc[p], g, i, r, K(p))
      BY <1>b, <1>c DEF Standing
  <2>2. Drives(pc[p], g, i, r, K(p)) => Drives("driver", g, i, r, K(p))
      BY <1>b, <1>c DEF Drives
  <2>3. Applies(pc[p], c, i, r) => Applies("driver", c, i, r)
      BY <1>c DEF Applies, BeforeFirst, BeforeAddrs, BeforeMtu, BeforeUp, BeforeFib,
                  BeforeGroups, BeforeDescr
  <2>4. QED BY <2>1, <2>2, <2>3
<1> HIDE DEF n, c, g, i, r
<1>1. ASSUME pc[p] = "driver", K(p) \notin AllAtOnce, NEW x \in i.items,
             Write(p, n, [r EXCEPT !.items = @ \cup {x}]),
             ic' = [ic EXCEPT ![p].items = i.items \ {x}],
             Goto(p, IF i.items \ {x} # {} THEN "driver" ELSE "report"),
             UNCHANGED <<cmd, warned, made>>
      PROVE  Truth(p)'
  <2> DEFINE j == [i EXCEPT !.items = i.items \ {x}]
             s == [r EXCEPT !.items = r.items \cup {x}]
  <2>1. ic'[p] = j
      BY <1>1 DEF TypeOK, i
  <2>2. /\ attr'[n] = s /\ present' = present /\ before'[p] = before[p]
        /\ warned' = warned /\ made' = made /\ cmd' = cmd
      BY <1>0, <1>1, WriteBefore DEF Write, TypeOK
  <2>3. /\ j.items = i.items \ {x} /\ j.known = i.known /\ s.items = r.items \cup {x}
        /\ j \in Configs /\ s \in Attributes
      BY <1>0 DEF Configs, Attributes
  <2>4. PICK l \in {"driver", "report"} : pc'[p] = l /\ (l = "report" => j.items = {})
      BY <1>1, <2>3 DEF Goto, TypeOK
  <2>5. ASSUME Standing(p)
        PROVE  /\ n \in present
               /\ ~CreatedBare(p) => Applies(l, c, j, s)
               /\ Driven(p) => Drives(l, g, j, s, K(p))
    <3>1. ~CreatedBare(p) => Applies("driver", c, j, r)
        BY <1>0, <1>1, <1>c, <2>5, AppliesOn
    <3>2. ~CreatedBare(p) => Applies("driver", c, j, s)
      <4> HIDE DEF j
      <4>1. QED BY <1>0, <2>3, <3>1, AppliesOn
    <3> HIDE DEF j, s
    <3>3. Applies("driver", c, j, s) => Applies("report", c, j, s)
        BY <2>3, AppliesOn
    <3>4. Driven(p) => Drives(l, g, j, s, K(p))
        BY <1>1, <1>b, <1>c, <2>3, <2>4, <2>5 DEF Drives
    <3>5. l = "driver" \/ l = "report"
        OBVIOUS
    <3>6. QED BY <1>1, <1>c, <2>5, <3>2, <3>3, <3>4, <3>5
  <2> HIDE DEF j, s
  <2>6. QED BY <1>1, <1>b, <2>1, <2>2, <2>3, <2>4, <2>5, StageTruth DEF n, c, g, i
<1>2. CASE DriverItem(p)
  <2>1. pc[p] = "driver" /\ K(p) \notin AllAtOnce
      BY <1>2 DEF DriverItem, ItemByItem, AllAtOnce
  <2>2. QED BY <1>1, <1>2, <1>a, <2>1 DEF DriverItem, n, i, r
<1>3. CASE DriverParam(p)
  <2>1. pc[p] = "driver" /\ K(p) \notin AllAtOnce
      BY <1>3 DEF DriverParam, AllAtOnce
  <2>2. CASE warned'[p]
      BY <2>2 DEF Truth
  <2>3. QED BY <1>1, <1>3, <2>1, <2>2 DEF DriverParam, TypeOK, n, i, r
<1>4. CASE DriverRead(p)
  <2>1. PICK found : ic' = [ic EXCEPT ![p].items = @ \cup found]
      BY <1>4 DEF DriverRead
  <2> DEFINE j == [i EXCEPT !.items = @ \cup found]
  <2>2. j.items = i.items \cup found /\ j.known = i.known /\ ic'[p] = j
      BY <1>0, <2>1 DEF Configs, TypeOK, i
  <2>3. /\ pc[p] = "driver" /\ pc'[p] = "driverSet" /\ UNCHANGED <<kernel, cmd, left, history>>
        /\ K(p) \in AllAtOnce
      BY <1>4 DEF DriverRead, Goto, TypeOK, AllAtOnce
  <2>4. UNCHANGED <<present, attr, before, warned, made, cmd>>
      BY <2>3 DEF kernel, history
  <2>5. ASSUME Standing(p)
        PROVE  /\ n \in present
               /\ ~CreatedBare(p) => Applies("driverSet", c, j, r)
               /\ Driven(p) => Drives("driverSet", g, j, r, K(p))
    <3>1. ~CreatedBare(p) => Applies("driver", c, j, r)
        BY <1>0, <1>c, <2>3, <2>5, AppliesOn
    <3> HIDE DEF j
    <3>2. Applies("driver", c, j, r) => Applies("driverSet", c, j, r)
        BY DEF Applies, BeforeFirst, BeforeAddrs, BeforeMtu, BeforeUp, BeforeFib,
               BeforeGroups, BeforeDescr
    <3>3. Driven(p) => Drives("driverSet", g, j, r, K(p))
        BY <1>b, <1>c, <2>2, <2>3, <2>5 DEF Drives
    <3>4. QED BY <1>c, <2>3, <2>5, <3>1, <3>2, <3>3
  <2> HIDE DEF j
  <2>6. QED BY <1>b, <2>2, <2>3, <2>4, <2>5, StageTruth DEF n, c, g, i, r
<1>5. CASE DriverAll(p)
  <2> DEFINE j == [i EXCEPT !.items = {}]
             s == [r EXCEPT !.items = i.items]
  <2>1. j.known = i.known /\ s.items = i.items /\ j \in Configs /\ s \in Attributes
      BY <1>0 DEF Configs, Attributes
  <2>2. /\ pc[p] \in {"driver", "driverSet"} /\ K(p) \in AllAtOnce
        /\ Must(p, n, s, "report", j)
      BY <1>5 DEF DriverAll, n, i, r
  <2>3. ASSUME Standing(p)
        PROVE  /\ ~CreatedBare(p) => Applies("report", c, j, s)
               /\ Driven(p) => Drives("report", g, j, s, K(p))
    <3>1. ~CreatedBare(p) => Applies("driver", c, j, r)
        BY <1>0, <1>c, <2>2, <2>3, AppliesOn
    <3>2. ~CreatedBare(p) => Applies("driver", c, j, s)
      <4> HIDE DEF j
      <4>1. QED BY <1>0, <2>1, <3>1, AppliesOn
    <3> HIDE DEF j, s
    <3>3. ~CreatedBare(p) => Applies("report", c, j, s)
        BY <2>1, <3>2, AppliesOn
    <3>4. QED BY <1>b, <1>c, <2>1, <2>2, <2>3, <3>3 DEF Drives
  <2> HIDE DEF j, s
  <2>4. QED BY <1>b, <2>1, <2>2, <2>3, MustTruth DEF n, c, g, i
<1>6. CASE DriverTunnel6(p)
  <2>1. CASE warned'[p]
      BY <2>1 DEF Truth
  <2>2. QED BY <1>6, <1>a, <2>1 DEF DriverTunnel6, TypeOK
<1>7. CASE Report(p)
    BY <1>7 DEF Report, End, Goto, TypeOK, Truth, SetPc
<1>8. QED BY <1>2, <1>3, <1>4, <1>5, <1>6, <1>7

\* The steps of other commands.
LEMMA IdleTruth ==
    ASSUME TypeOK, NEW p \in Proc, kind' = kind,
           \/ \E c \in SetCmd : BeginSet(p, c)
           \/ \E c \in DelCmd : BeginDelete(p, c)
           \/ DelStep(p)
    PROVE  Truth(p)'
<1>1. CASE \E c \in SetCmd : BeginSet(p, c)
  <2>1. pc'[p] = "exists"
      BY <1>1 DEF BeginSet, Goto, TypeOK
  <2>2. QED BY <2>1, StageSets DEF Truth, Standing
<1>2. CASE \E c \in DelCmd : BeginDelete(p, c)
  <2>1. pc'[p] = "dexists"
      BY <1>2 DEF BeginDelete, Goto, TypeOK
  <2>2. QED BY <2>1 DEF Truth, SetPc
<1>3. CASE DelStep(p)
    BY <1>3, DelDoes DEF DelEffect, Truth
<1>4. QED BY <1>1, <1>2, <1>3

LEMMA TruthReported ==
    ASSUME ReportInv
    PROVE  ReportIsTrue
<1> SUFFICES ASSUME NEW p \in Proc, pc[p] = "report", Undisturbed(p), ~warned[p]
             PROVE  /\ Name(p) \in present
                    /\ ~CreatedBare(p) => Has(p)
                    /\ Driven(p) => Settings(p) \subseteq attr[Name(p)].items
    BY DEF ReportIsTrue, Driven
<1>1. "report" \in Saving \cap There \cap SetPc /\ "report" \notin BeforeDriver
    BY StageSets DEF SetPc
<1>2. Standing(p)
    BY <1>1 DEF ReportInv, Truth, Undisturbed
<1>3. /\ Name(p) \in present
      /\ ~CreatedBare(p) => Applies("report", cmd[p], ic[p], attr[Name(p)])
      /\ Driven(p) => Drives("report", Settings(p), ic[p], attr[Name(p)], K(p))
    BY <1>1, <1>2 DEF Standing
<1>4. Applies("report", cmd[p], ic[p], attr[Name(p)]) => Has(p)
    BY DEF Applies, Has, BeforeFirst, BeforeAddrs, BeforeMtu, BeforeUp, BeforeFib, BeforeGroups, BeforeDescr
<1>5. QED BY <1>1, <1>3, <1>4 DEF Drives

\* "set interface: created" or "updated" is true of a command nobody disturbed
\* and that gave no warning, but for what the code never applies: the status, VRF
\* 0, the settings in Dropped, those of kinds without a driver, and the prefix
\* length of an address (see ReportIsTrue).
THEOREM ReportsAreTrue == Spec => []ReportIsTrue
<1>1. Init => ReportInv
    BY InitTyped DEF Init, ReportInv, Truth
<1>2. ReportInv /\ [Next]_vars => ReportInv'
  <2> SUFFICES ASSUME ReportInv, [Next]_vars PROVE ReportInv'
      OBVIOUS
  <2>1. TypeOK /\ TypeOK' /\ \A q \in Proc : Truth(q)
      BY NextTyped DEF ReportInv
  <2>2. CASE Next
    <3>1. PICK p \in Proc : \/ \E c \in SetCmd : BeginSet(p, c)
                            \/ \E c \in DelCmd : BeginDelete(p, c)
                            \/ Step(p)
        BY <2>2 DEF Next
    <3>2. kind' = kind
        BY <2>2 DEF Next
    <3>3. Truth(p)'
        BY <2>1, <3>1, <3>2, IdleTruth, FindTruth, MakeTruth, GenericTruth, DriverTruth
           DEF Step, SetStep
    <3>4. \A q \in Proc \ {p} : Truth(q)'
        BY <2>1, <3>1, <3>2, Frame, ThereFrame, OthersTruth
    <3>5. QED BY <2>1, <3>3, <3>4 DEF ReportInv
  <2>3. CASE UNCHANGED vars
    <3>1. \A q \in Proc : Truth(q)'
      <4> SUFFICES ASSUME NEW q \in Proc PROVE Truth(q)'
          OBVIOUS
      <4>1. UNCHANGED <<kind, present, attr, pc, cmd, ic, left, before, warned, fell, made>>
          BY <2>3 DEF vars, kernel, work, history
      <4>2. Seen(q) /\ Kept(q) /\ StillThere(q)
          BY <4>1 DEF Seen, Kept, StillThere
      <4>3. QED BY <2>1, <4>1, <4>2, OthersTruth
    <3>2. QED BY <2>1, <3>1 DEF ReportInv
  <2>4. QED BY <2>2, <2>3
<1>3. ReportInv => ReportIsTrue
    BY TruthReported
<1>4. QED BY <1>1, <1>2, <1>3, PTL DEF Spec
=============================================================================
