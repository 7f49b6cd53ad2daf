--------------------------- MODULE DeviceCommands ---------------------------
(***************************************************************************)
(* The commands of the FreeBSD backend that make several kernel calls for  *)
(* one interface: an ipsec tunnel with its security associations and       *)
(* policies, an epair whose halves are renamed, a wireless interface whose *)
(* settings are read one ioctl at a time.  Any call may fail, and other    *)
(* programs, or the radio, act between two of them.  Nothing is rolled     *)
(* back but the first rename of an epair.                                  *)
(***************************************************************************)
EXTENDS Naturals, Sequences, FiniteSets

CONSTANTS
  Spis, Keys,      \* security associations: identifier, protocol and keys
  KnownKeys,       \* the keys whose protocol and algorithm libipsec knows
  Directions,      \* the directions of a policy that are typed
  Endpoints,       \* the families, if any, of a source and a destination
  TunnelFibs,      \* the tables `tunnel-vrf` is typed with
  Bases,           \* names, without "a" or "b", that an epair is asked for
  KernelBases,     \* the names the kernel gives pairs of its own accord
  Stations,        \* what a wireless interface may be associated with
  Drivers,         \* for each driver the queries it answers
  MaxRoams         \* bound: changes of station during one reading

\* The kernel refuses a name only if it is none of its own.
ASSUME BasesAssumption == Bases \cap KernelBases = {}

AtMostOne(S) == {{}} \cup {{x} : x \in S}

-----------------------------------------------------------------------------
(* ipsec: the handler and the backend, for the settings their token can    *)
(* hold.  The word `ipsec` itself is none interfaceTypeFromString knows, so*)
(* a command line does not get here yet (see Completion).                  *)

VARIABLES
  tunnel,   \* [exists, endpoints, fib, reqid] of the interface
  sad, spd, \* the associations and policies in the kernel
  ipsec     \* the command, and the tunnel's table when it began: IdleIpsec

ipsecVars == <<tunnel, sad, spd, ipsec>>

Association(i, k) == [spi |-> i, key |-> k]
IpsecWords ==
  {w \in [src : AtMostOne({"inet", "inet6"}), dst : AtMostOne({"inet", "inet6"}),
          vrf : AtMostOne(TunnelFibs), reqid : BOOLEAN,
          sa : AtMostOne({Association(i, k) : i \in Spis, k \in Keys}),
          sp : AtMostOne(Directions)] :
     <<w.src, w.dst>> \in Endpoints}

IdleIpsec == [step |-> "idle", cmd |-> {}, fib |-> 0, ok |-> TRUE, disturbed |-> FALSE]

TunnelInit == [exists |-> FALSE, endpoints |-> FALSE, fib |-> 0, reqid |-> FALSE]
IpsecInit == /\ tunnel = TunnelInit /\ sad = {} /\ spd = {}
             /\ ipsec = IdleIpsec

\* The next call, or the end of the command: "created" or "updated", or the
\* message of the exception.
Go(s) == ipsec' = [ipsec EXCEPT !.step = s]
Throw == ipsec' = [ipsec EXCEPT !.step = "idle", !.ok = FALSE]
Cmd == CHOOSE w \in ipsec.cmd : TRUE
At(s) == ipsec.step = s

\* setIpsecInterface builds the configuration from the command alone; SaveIpsec
\* creates the interface or saves its generic settings, one or the other.
StartIpsec(w) ==
  /\ At("idle")
  /\ ipsec' = [step |-> "create", cmd |-> {w}, fib |-> tunnel.fib, ok |-> TRUE,
                disturbed |-> FALSE]
  /\ UNCHANGED <<tunnel, sad, spd>>

SaveIpsec ==
  /\ At("create")
  /\ \/ /\ ~tunnel.exists /\ tunnel' = [TunnelInit EXCEPT !.exists = TRUE]
        /\ Go("endpoints")
     \/ tunnel.exists /\ UNCHANGED tunnel /\ Go("endpoints")
     \/ UNCHANGED tunnel /\ Throw
  /\ UNCHANGED <<sad, spd>>

\* Both are needed; a pair of IPv6 addresses is only warned about.  The table
\* of tunnel-vrf is in the configuration, and no call is made for it.
HasEndpoints(w) == w.src # {} /\ w.dst # {}
SetEndpoints ==
  /\ At("endpoints")
  /\ \/ ~HasEndpoints(Cmd) /\ UNCHANGED tunnel /\ Go("reqid")
     \/ HasEndpoints(Cmd) /\ Cmd.src # Cmd.dst /\ UNCHANGED tunnel /\ Throw
     \/ /\ HasEndpoints(Cmd) /\ Cmd.src = Cmd.dst /\ Cmd.src = {"inet6"}
        /\ UNCHANGED tunnel /\ Go("reqid")
     \/ /\ HasEndpoints(Cmd) /\ Cmd.src = Cmd.dst /\ Cmd.src = {"inet"}
        /\ \/ UNCHANGED tunnel /\ Throw
           \/ /\ tunnel.exists /\ tunnel' = [tunnel EXCEPT !.endpoints = TRUE]
              /\ Go("reqid")
  /\ UNCHANGED <<sad, spd>>

\* Mutant: a reqid the kernel refuses is passed over.
setIpsecReqidRegardless ==
  /\ At("reqid") /\ Go("sa")
  /\ UNCHANGED tunnel \/ (Cmd.reqid /\ tunnel.exists /\ tunnel' = [tunnel EXCEPT !.reqid = TRUE])
  /\ UNCHANGED <<sad, spd>>
setIpsecReqid ==
  /\ At("reqid")
  /\ \/ ~Cmd.reqid /\ UNCHANGED tunnel /\ Go("sa")
     \/ Cmd.reqid /\ tunnel.exists /\ tunnel' = [tunnel EXCEPT !.reqid = TRUE] /\ Go("sa")
     \/ Cmd.reqid /\ UNCHANGED tunnel /\ Throw
  /\ UNCHANGED <<sad, spd>>

\* An unknown protocol or algorithm, or an address that is not IPv4, is found
\* out before the message is sent.
KnownToLibrary(a) == a.key \in KnownKeys

\* A refusal is in the reply, which is read and thrown away.
Disturbed(c) == [c EXCEPT !.disturbed = TRUE]
pfkeyAddSA ==
  /\ At("sa")
  /\ \/ Cmd.sa = {} /\ UNCHANGED sad /\ Go("sp")
     \/ Cmd.sa # {} /\ UNCHANGED sad /\ Throw
     \/ \E a \in Cmd.sa :
          /\ KnownToLibrary(a)
          /\ \/ /\ \A b \in sad : b.spi # a.spi
                /\ sad' = sad \cup {a} /\ Go("sp")
             \/ /\ UNCHANGED sad
                /\ ipsec' = Disturbed([ipsec EXCEPT !.step = "sp"])
  /\ UNCHANGED <<tunnel, spd>>

KnownDirection(d) == d \in {"in", "out"}

\* A policy libipsec cannot read, an unknown direction and an address that is
\* not IPv4 are found out before the message is sent.
pfkeyAddSP ==
  /\ At("sp")
  /\ \/ Cmd.sp = {} /\ UNCHANGED spd /\ Go("idle")
     \/ Cmd.sp # {} /\ UNCHANGED spd /\ Throw
     \/ \E d \in Cmd.sp :
          /\ HasEndpoints(Cmd) /\ KnownDirection(d) /\ Cmd.src = {"inet"}
          /\ \/ d \notin spd /\ spd' = spd \cup {d} /\ Go("idle")
             \/ UNCHANGED spd /\ ipsec' = Disturbed([ipsec EXCEPT !.step = "idle"])
  /\ UNCHANGED <<tunnel, sad>>

\* setkey(8) and ifconfig(8), between two calls.
IpsecOthers ==
  /\ \/ \E a \in sad : sad' = sad \ {a} /\ UNCHANGED <<tunnel, spd>>
     \/ \E d \in spd : spd' = spd \ {d} /\ UNCHANGED <<tunnel, sad>>
     \/ /\ tunnel.exists
        /\ \/ tunnel' = TunnelInit
           \/ \E f \in TunnelFibs : tunnel' = [tunnel EXCEPT !.fib = f]
        /\ UNCHANGED <<sad, spd>>
  /\ ipsec' = [ipsec EXCEPT !.disturbed = TRUE]

IpsecNext ==
  \/ \E w \in IpsecWords : StartIpsec(w)
  \/ SaveIpsec \/ SetEndpoints \/ setIpsecReqid \/ pfkeyAddSA \/ pfkeyAddSP
  \/ IpsecOthers

-----------------------------------------------------------------------------
(* epair                                                                   *)

VARIABLES
  names,    \* the halves there are: [base, side]
  taken,    \* names other interfaces have
  epair,    \* the command, see IdleEpair
  split     \* whether a pair was left with its halves under two names

epairVars == <<names, taken, epair, split>>

Half(b, s) == [base |-> b, side |-> s]
Pair(b) == {Half(b, "a"), Half(b, "b")}
NoBase == "none"

IdleEpair == [step |-> "idle", base |-> NoBase, half |-> "a", made |-> NoBase,
              okA |-> TRUE, ok |-> TRUE, touched |-> FALSE]

EpairInit == names = {} /\ taken = {} /\ epair = IdleEpair /\ split = FALSE

EpairAt(s) == epair.step = s
EpairGo(s) == epair' = [epair EXCEPT !.step = s]
EpairThrow == epair' = [epair EXCEPT !.step = "idle", !.ok = FALSE]
Free(h) == h \notin names \cup taken

\* SaveEpair: the pair is looked for by the half that is named, the first one
\* if the name ends in neither letter; that half gets the settings.
Exists(b, h) == ~Free(Half(b, h))

SaveEpair(b, h) ==
  /\ EpairAt("idle")
  /\ epair' = [IdleEpair EXCEPT !.base = b, !.half = h,
                 !.step = IF Exists(b, h) THEN "settle" ELSE "create"]
  /\ UNCHANGED <<names, taken, split>>

\* Looked for once more; then SIOCIFCREATE2 under the name asked for, which the
\* kernel takes only without a letter.  EINVAL leads to a pair under a name of
\* the kernel, anything else to an exception.
CreateEpair ==
  /\ EpairAt("create")
  /\ \/ Exists(epair.base, epair.half) /\ UNCHANGED names /\ EpairGo("settle")
     \/ /\ epair.half = "a" /\ \A h \in Pair(epair.base) : Free(h)
        /\ names' = names \cup Pair(epair.base) /\ EpairGo("settle")
     \/ \E k \in KernelBases :
          /\ \A h \in Pair(k) : Free(h)
          /\ names' = names \cup Pair(k)
          /\ epair' = [epair EXCEPT !.step = "renameA", !.made = k]
     \/ UNCHANGED names /\ EpairThrow
  /\ UNCHANGED <<taken, split>>

\* SIOCSIFNAME fails if the name is taken or the interface gone, or otherwise.
Rename(x, y) == x \in names /\ Free(y) /\ names' = (names \ {x}) \cup {y}
Made(s) == Half(epair.made, s)
Wanted(s) == Half(epair.base, s)

renameA ==
  /\ EpairAt("renameA")
  /\ \/ Rename(Made("a"), Wanted("a")) /\ EpairGo("renameB")
     \/ UNCHANGED names /\ epair' = [epair EXCEPT !.step = "renameB", !.okA = FALSE]
  /\ UNCHANGED <<taken, split>>

\* Mutant: the first half keeps its new name.
renameBNotUndone ==
  /\ EpairAt("renameB")
  /\ \/ /\ Rename(Made("b"), Wanted("b"))
        /\ IF epair.okA THEN EpairGo("settle") ELSE EpairThrow
        /\ split' = (split \/ ~epair.okA)
     \/ UNCHANGED <<names, split>> /\ EpairThrow
  /\ UNCHANGED taken
\* The second half is renamed whether the first was or not; if only the first
\* was, it gets its name back, and whether it does is not looked at.
renameB ==
  /\ EpairAt("renameB")
  /\ \/ /\ Rename(Made("b"), Wanted("b"))
        /\ IF epair.okA THEN EpairGo("settle") ELSE EpairThrow
        /\ split' = (split \/ ~epair.okA)
     \/ /\ UNCHANGED <<names, split>>
        /\ IF epair.okA THEN EpairGo("renameBack") ELSE EpairThrow
  /\ UNCHANGED taken

renameBack ==
  /\ EpairAt("renameBack")
  /\ \/ Rename(Wanted("a"), Made("a")) /\ UNCHANGED split
     \/ UNCHANGED names /\ split' = TRUE
  /\ EpairThrow
  /\ UNCHANGED taken

\* SaveInterface of the half that is named.
SettleEpair ==
  /\ EpairAt("settle")
  /\ EpairGo("idle") \/ EpairThrow
  /\ UNCHANGED <<names, taken, split>>

\* Two names of one pair: the same, or those of the command under way, of which
\* one half is renamed.
HalfRenamed == {Wanted("a"), Made("b")}
Pairs == {Pair(b) : b \in Bases \cup KernelBases} \cup
         (IF epair.okA /\ (EpairAt("renameB") \/ EpairAt("renameBack")) THEN {HalfRenamed} ELSE {})

\* ifconfig(8): one half destroyed takes the other along, wherever it is.
EpairOthers ==
  /\ \/ /\ \E P \in Pairs : P \subseteq names /\ names' = names \ P
        /\ UNCHANGED taken
     \/ /\ \E b \in Bases, s \in {"a", "b"} :
             Free(Half(b, s)) /\ taken' = taken \cup {Half(b, s)}
        /\ UNCHANGED names
  /\ epair' = [epair EXCEPT !.touched = TRUE]
  /\ UNCHANGED split

EpairNext ==
  \/ \E b \in Bases, h \in {"a", "b"} : SaveEpair(b, h)
  \/ CreateEpair \/ renameA \/ renameB \/ renameBack \/ SettleEpair
  \/ EpairOthers

-----------------------------------------------------------------------------
(* wlan                                                                    *)

VARIABLES
  air,      \* the station the interface is associated with, if any
  driver,   \* the queries the driver answers
  reading   \* the query to come, what each setting was read from, the roaming

wlanVars == <<air, driver, reading>>

Query(k, f) == [kind |-> k, sets |-> f]

AssociationQueries ==
  <<Query("SSID", "ssid"), Query("CURCHAN", "channel"), Query("CHANNEL", "channel"),
    Query("BSSID", "bssid"), Query("IC_NAME", "parent"), Query("AUTHMODE", "authmode"),
    Query("WPA", "wpa_version"), Query("TXPOWER", "txpower"), Query("WEP", "privacy"),
    Query("ROAMING", "roaming")>>
CapabilityQueries ==
  <<Query("STATUS", "status"), Query("DEVCAPS", "drivercaps"),
    Query("REGDOMAIN", "regdomain"), Query("WEPTXKEY", "deftxkey")>>
CipherQueries == <<Query("WPAKEY", "cipher")>>
ParameterQueries ==
  <<Query("BMISSTHRESHOLD", "bmiss"), Query("SCANVALID", "scanvalid"),
    Query("TXPARAMS", "rates")>>
RadioQueries ==
  <<Query("HTCONF", "htconf"), Query("AMPDU", "ampdu"),
    Query("AMPDU_LIMIT", "ampdu_limit"), Query("AMPDU_DENSITY", "ampdu_density"),
    Query("AMSDU", "amsdu"), Query("SHORTGI", "shortgi"), Query("STBC", "stbc"), Query("LDPC", "ldpc"),
    Query("UAPSD", "uapsd"), Query("WME", "wme")>>
MediaQueries == <<Query("MEDIA", "media_mode")>>

Queries == AssociationQueries \o CapabilityQueries \o CipherQueries
             \o ParameterQueries \o RadioQueries \o MediaQueries

Settings == {Queries[i].sets : i \in DOMAIN Queries}
NotRead == [f \in Settings |-> {}]

WlanInit == /\ air \in AtMostOne(Stations) /\ driver \in Drivers
            /\ reading = [next |-> 0, of |-> NotRead, roams |-> 0]

\* GetWlanInterfaces begins with the snapshot of the generic settings.
StartReading == /\ reading.next = 0
                /\ reading' = [next |-> 1, of |-> NotRead, roams |-> 0]
                /\ UNCHANGED <<air, driver>>

\* Mutant: the request for the key has no address.
AnswerToAnyKey(q) ==
  CASE q.kind = "CHANNEL" -> IF reading.of["channel"] = {} THEN air ELSE reading.of["channel"]
    [] q.kind = "STATUS" -> reading.of["ssid"]
    [] q.kind = "TXPARAMS" -> reading.of["media_mode"]
    [] OTHER -> air
\* What the driver answers: the state of the air now, but the key of the station
\* whose address is in the request, and a mode's rates for the mode read so far.
Answer(q) ==
  CASE q.kind = "CHANNEL" -> IF reading.of["channel"] = {} THEN air ELSE reading.of["channel"]
    [] q.kind = "STATUS" -> reading.of["ssid"]
    [] q.kind = "WPAKEY" -> reading.of["bssid"] \cap air
    [] q.kind = "TXPARAMS" -> reading.of["media_mode"]
    [] OTHER -> air

\* populateWlanMetadata, one query; a setting that is not answered stays unset.
ReadSetting ==
  LET q == Queries[reading.next] IN
  /\ reading.next \in DOMAIN Queries
  /\ reading' = [reading EXCEPT
       !.next = (@ + 1) % (Len(Queries) + 1),
       !.of = IF q.kind \in driver \cup {"STATUS"} THEN [@ EXCEPT ![q.sets] = Answer(q)] ELSE @]
  /\ UNCHANGED <<air, driver>>

Roam == /\ air' \in AtMostOne(Stations) \ {air}
        /\ reading.roams < MaxRoams
        /\ reading' = [reading EXCEPT !.roams = @ + 1]
        /\ UNCHANGED driver

WlanNext == StartReading \/ ReadSetting \/ Roam

-----------------------------------------------------------------------------
deviceVars == <<ipsecVars, epairVars, wlanVars>>

DevicesInit == IpsecInit /\ EpairInit /\ WlanInit

\* The commands share no state of the kernel.
DevicesNext ==
  \/ IpsecNext /\ UNCHANGED <<epairVars, wlanVars>>
  \/ EpairNext /\ UNCHANGED <<ipsecVars, wlanVars>>
  \/ WlanNext /\ UNCHANGED <<ipsecVars, epairVars>>

DevicesSpec == DevicesInit /\ [][DevicesNext]_deviceVars

-----------------------------------------------------------------------------
(* Properties                                                              *)

\* Associations have different identifiers, a policy a direction the kernel
\* knows, no interface two names, and there is a command where one is running.
DevicesTypeOK ==
  /\ \A a, b \in sad : a.spi = b.spi => a = b
  /\ spd \subseteq {"in", "out"}
  /\ At("idle") \/ Cardinality(ipsec.cmd) = 1
  /\ names \cap taken = {}
  /\ EpairAt("idle") \/ epair.base \in Bases
  /\ epair.half \in {"a", "b"}
  /\ reading.next \in 0..Len(Queries)
  /\ \A f \in Settings : reading.of[f] \in AtMostOne(Stations)

\* An ipsec command goes on to the next call only after the last one worked, so
\* that "created" or "updated" stands for every part of it: endpoints (IPv4 ones),
\* reqid, association, policy; unless the kernel refused one in a reply nobody
\* reads, or another program undid it (SaveIpsec, pfkeyAddSA, pfkeyAddSP).  The
\* exception is tunnel-vrf: it is reported as done with the rest, and the tunnel
\* is in the table it was in, the default one if the command created it.
Steps == <<"create", "endpoints", "reqid", "sa", "sp", "idle">>
Past(s) == ipsec.ok /\ \E i, j \in DOMAIN Steps : i < j /\ Steps[i] = s /\ At(Steps[j])
IpsecAsTold ==
  \A w \in ipsec.cmd : ~ipsec.disturbed =>
    /\ Past("create") => tunnel.exists /\ tunnel.fib = ipsec.fib
    /\ Past("endpoints") /\ HasEndpoints(w) =>
         w.src = w.dst /\ (w.src = {"inet"} => tunnel.endpoints)
    /\ Past("reqid") /\ w.reqid => tunnel.reqid
    /\ Past("sa") => w.sa \subseteq sad
    /\ Past("sp") => w.sp \subseteq spd /\ (w.sp # {} => w.src = {"inet"})

\* The halves of an epair are both there, under one name, when no command runs,
\* and a success means the name asked for: a failed rename of the second half is
\* undone.  The exceptions are a second half renamed although the first was not,
\* and a first half that could not get its name back (CreateEpair).
HalvesTogether ==
  EpairAt("idle") =>
    /\ ~split => \A b \in Bases \cup KernelBases :
         Pair(b) \subseteq names \/ Pair(b) \cap names = {}
    /\ epair.ok /\ ~epair.touched /\ ~split /\ epair.base # NoBase =>
         Pair(epair.base) \subseteq names \/ Wanted(epair.half) \in taken

\* The cipher shown is that of the station shown, and "associated" goes with the
\* SSID it was concluded from, however the station changes during the reading
\* (populateWlanMetadata).
ReadingOfOneStation ==
  /\ reading.of["cipher"] \subseteq reading.of["bssid"]
  /\ reading.of["status"] \subseteq reading.of["ssid"]

=============================================================================
