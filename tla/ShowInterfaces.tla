--------------------------- MODULE ShowInterfaces ---------------------------
(***************************************************************************)
(* `show interfaces` with a name, a type, a group or nothing: which        *)
(* interfaces it is about, which table or summary they go to, and what that*)
(* shows.  The generic settings come from one snapshot of all interfaces;  *)
(* those of a type are read afterwards, interface by interface and by name,*)
(* while others destroy and create interfaces.                             *)
(*                                                                         *)
(* What a setting is does not matter, only whose it is: each interface ever*)
(* created has an identity, and a cell shows the identity of the interface *)
(* its value was read from, Missing or Default.  Every setting of every    *)
(* interface has a value, so a cell without one is one not read, or one    *)
(* whose value is zero in a format that prints no zero there.              *)
(***************************************************************************)
EXTENDS CommandLanguage, Formatters, FiniteSets

CONSTANTS
  Names,      \* of interfaces
  Kinds,      \* the types of this instance, among Types and "epair"
  Base(_),    \* a name without a last letter "a" or "b"
  Half(_),    \* that letter; "a" also for a name that ends otherwise
  Zero(_),    \* of an interface, by its number: its settings that are zero
  MaxBirths   \* bound: interfaces ever created

ASSUME KindsAssumption == Kinds \subseteq Types \cup {"epair"}
ASSUME NamesAssumption == IsFiniteSet(Names)
ASSUME BirthsAssumption == MaxBirths \in Nat

VARIABLES
  kernel,     \* name |-> the interface there, or Gone
  births,     \* interfaces created so far
  phase,      \* "idle", "read" or "shown"
  words,      \* the words of the command
  snapshot,   \* what GetInterfaces returned
  todo,       \* names of which the settings of the type are still to be read
  loaded,     \* name |-> the interface they were read from, or Gone
  had,        \* <<name, interface>> there at some time since the snapshot
  output      \* what was printed: its format and its rows

showVars == <<kernel, births, phase, words, snapshot, todo, loaded, had, output>>

Gone == [type |-> "none", grouped |-> FALSE, id |-> 0]
Interface == [type : Kinds, grouped : BOOLEAN, id : 1..MaxBirths]
There(k) == {n \in Names : k[n] # Gone}

-----------------------------------------------------------------------------
(* The handlers of each type: its summary, its table, and whether the table*)
(* gets interfaces read by the backend of the type or the snapshot.        *)

Shown(summary, table, reads) == [summary |-> summary, table |-> table, reads |-> reads]
NoSummary == Summary({}, {}, {})

showBridgeInterfaces == Shown(BridgeSummary, BridgeTable, TRUE)
showLaggInterfaces == Shown(LaggSummary, LaggTable, TRUE)
showVlanInterfaces == Shown(VlanSummary, VlanTable, TRUE)
showTunInterfaces == Shown(TunSummary, TunTable, TRUE)
showGifInterfaces == Shown(GifSummary, GifTable, TRUE)
showOvpnInterfaces == Shown(OvpnSummary, OvpnTable, TRUE)
showIpsecInterfaces == Shown(IpsecSummary, IpsecTable, TRUE)
showGreInterfaces == Shown(GreSummary, GreTable, TRUE)
showVxlanInterfaces == Shown(VxlanSummary, VxlanTable, TRUE)
showWlanInterfaces == Shown(WlanSummary, WlanTable, TRUE)
showCarpInterfaces == Shown(CarpSummary, CarpTable, FALSE)
showEpairInterfaces == Shown(EpairSummary, EpairTable, FALSE)
showTapInterfaces == Shown(NoSummary, TapTable, FALSE)
showPflogInterfaces == Shown(NoSummary, PflogTable, FALSE)
showPfsyncInterfaces == Shown(NoSummary, PfsyncTable, FALSE)
showWireGuardInterfaces == Shown(NoSummary, WireGuardTable, FALSE)
showSixToFourInterfaces == Shown(NoSummary, SixToFourTable, FALSE)
showLoopbackInterfaces == Shown(NoSummary, LoopBackTable, FALSE)
showNothingSpecial == Shown(NoSummary, InterfaceTable, FALSE)

handlers(t) ==
  CASE t = "bridge" -> showBridgeInterfaces [] t = "lagg" -> showLaggInterfaces
    [] t = "vlan" -> showVlanInterfaces     [] t = "tun" -> showTunInterfaces
    [] t = "gif" -> showGifInterfaces       [] t = "ovpn" -> showOvpnInterfaces
    [] t = "ipsec" -> showIpsecInterfaces   [] t = "gre" -> showGreInterfaces
    [] t = "vxlan" -> showVxlanInterfaces   [] t = "wlan" -> showWlanInterfaces
    [] t = "carp" -> showCarpInterfaces     [] t = "epair" -> showEpairInterfaces
    [] t = "tap" -> showTapInterfaces       [] t = "pflog" -> showPflogInterfaces
    [] t = "pfsync" -> showPfsyncInterfaces [] t = "wg" -> showWireGuardInterfaces
    [] t = "stf" -> showSixToFourInterfaces [] t = "loopback" -> showLoopbackInterfaces
    [] OTHER -> showNothingSpecial

\* Types whose interfaces formatInterfaces prints in the table of all types
\* although they have one of their own.
Unlisted == {"loopback", "pflog", "pfsync", "wg"}
formatOf(types) ==
  IF Cardinality(types) = 1 /\ types \cap Unlisted = {}
  THEN handlers(CHOOSE t \in types : TRUE)
  ELSE showNothingSpecial

-----------------------------------------------------------------------------
(* Selection                                                               *)

\* Words that are not there are "".  A type is followed by a name, so there
\* is no command with a type and a group alone.
Commands ==
  {w \in [name : Names \cup {""}, type : Kinds \cup {""}, group : BOOLEAN] :
     w.type # "" /\ w.group => w.name # ""}

selected(w, s) ==
  {n \in There(s) :
     IF w.name # "" THEN n = w.name
     ELSE IF w.type # "" THEN s[n].type = w.type
     ELSE w.group => s[n].grouped}

TypesOf(s, chosen) == {s[n].type : n \in chosen}

\* How the interfaces selected are shown: "summary" or "table", and whose.
presentation(w, s) ==
  LET chosen == selected(w, s) IN
  IF w.group /\ w.type = "" THEN [as |-> "table", of |-> showNothingSpecial]
  ELSE IF w.name # "" /\ chosen # {}
  THEN [as |-> "summary", of |-> handlers(s[w.name].type)]
  ELSE [as |-> "table", of |-> IF w.type # "" THEN handlers(w.type)
                               ELSE formatOf(TypesOf(s, chosen))]

\* A summary is of the interface as its backend read it.
reads(p) == IF p.as = "summary" THEN p.of.summary # NoSummary ELSE p.of.reads

-----------------------------------------------------------------------------
(* Rows                                                                    *)

\* Settings the backend of a type reads beside those a command can set.
ReadOnly(t) ==
  CASE t = "vlan" -> {"proto", "options"} [] t = "lagg" -> {"hash"}
    [] t = "wlan" -> {"bssid", "caps"} [] t = "carp" -> {"state"} [] OTHER -> {}
Reads(t) == BackendOf(t).loads \cup ReadOnly(t)

\* Those in the snapshot, of all types.
Generic == InterfaceSummary.keys \cup {"index", "pair"}

Missing == 0               \* "-", or no line in a summary
Default == MaxBirths + 1

\* The value of a setting of `from`, an interface, in the format f, or what is
\* printed where there is none.
Cell(from, k, known, f) ==
  IF from # Gone /\ known
  THEN IF k \in f.nonzero \cap Zero(from.id) THEN Missing ELSE from.id
  ELSE IF k \in f.always THEN Default ELSE Missing

Row(n, keys, f) ==
  [k \in keys |-> IF k \in Generic THEN Cell(snapshot[n], k, TRUE, f)
                  ELSE Cell(loaded[n], k, k \in Reads(snapshot[n].type), f)]

CellsOf(table) == {table.cells[i] : i \in DOMAIN table.cells}
NamedRow(n, keys, f) == [of |-> n, row |-> Row(n, keys, f)]

\* A lagg of which nothing can be read is left out.
Readable(chosen) ==
  {n \in chosen : snapshot[n].type = "lagg" => loaded[n] # Gone}

\* Of the names that go to one half of a pair, the last one stays, and the
\* interfaces are in no order.
\* Mutant: a name that ends in neither "a" nor "b" is no half of a pair.
SurvivorsLettered(chosen) ==
  {S \in SUBSET {m \in chosen : Base(m) # m} :
     \A n \in chosen :
       Cardinality({m \in S : Base(m) = Base(n) /\ Half(m) = Half(n)}) <= 1}

Survivors(chosen) ==
  {S \in SUBSET chosen :
     \A n \in chosen :
       Cardinality({m \in S : Base(m) = Base(n) /\ Half(m) = Half(n)}) = 1}

tableRows(p, chosen) ==
  {NamedRow(n, CellsOf(p.of.table), p.of.table) : n \in chosen}
\* Without a summary of its own, or without an interface to put there, the
\* summary all types have.
summaryRow(p, n) ==
  LET s == IF p.of.summary = NoSummary \/ Readable({n}) = {} THEN InterfaceSummary
           ELSE p.of.summary
  IN {NamedRow(n, s.keys, s)}

-----------------------------------------------------------------------------
(* The command                                                             *)

Start(w) ==
  /\ phase = "idle"
  /\ words' = w
  /\ snapshot' = kernel
  /\ had' = {<<n, kernel[n]>> : n \in There(kernel)}
  /\ todo' = IF reads(presentation(w, kernel)) THEN selected(w, kernel) ELSE {}
  /\ phase' = "read"
  /\ UNCHANGED <<kernel, births, loaded, output>>

\* Only the driver of its type answers what is asked for a type; the end
\* points of a gif tunnel others know as well.
Answers(t, asked) == t = asked \/ (asked = "gif" /\ t \in {"gre", "ipsec"})

\* Mutant: when nothing answers, what the last answer left in the buffer.
LoadSettingsStale(n) ==
  /\ phase = "read" /\ n \in todo
  /\ todo' = todo \ {n}
  /\ loaded' = [loaded EXCEPT ![n] =
                  IF Answers(kernel[n].type, snapshot[n].type) THEN kernel[n]
                  ELSE IF \E m \in Names : loaded[m] # Gone
                  THEN CHOOSE i \in {loaded[m] : m \in Names} : i # Gone ELSE Gone]
  /\ UNCHANGED <<kernel, births, phase, words, snapshot, had, output>>

\* One step of Get<Type>Interfaces, taken as one: what is there under that
\* name now.
LoadSettings(n) ==
  /\ phase = "read" /\ n \in todo
  /\ todo' = todo \ {n}
  /\ loaded' = [loaded EXCEPT ![n] =
                  IF Answers(kernel[n].type, snapshot[n].type) THEN kernel[n] ELSE Gone]
  /\ UNCHANGED <<kernel, births, phase, words, snapshot, had, output>>

ShowOutput ==
  LET p == presentation(words, snapshot)
      chosen == selected(words, snapshot)
      listed == IF reads(p) THEN Readable(chosen) ELSE chosen
  IN /\ phase = "read" /\ todo = {}
     /\ IF p.as = "summary" THEN output' = summaryRow(p, words.name)
        ELSE \E S \in IF p.of.table = EpairTable THEN Survivors(listed) ELSE {listed} :
               output' = tableRows(p, S)
     /\ phase' = "shown"
     /\ UNCHANGED <<kernel, births, words, snapshot, todo, loaded, had>>

-----------------------------------------------------------------------------
(* Others                                                                  *)

\* The group of an interface that was not there for the snapshot is not asked
\* for any more.
Create(n, t) ==
  /\ phase = "read" /\ kernel[n] = Gone /\ births < MaxBirths
  /\ births' = births + 1
  /\ kernel' = [kernel EXCEPT ![n] = [type |-> t, grouped |-> FALSE, id |-> births']]
  /\ had' = had \cup {<<n, kernel'[n]>>}
  /\ UNCHANGED <<phase, words, snapshot, todo, loaded, output>>

Destroy(n) ==
  /\ phase = "read" /\ kernel[n] # Gone
  /\ kernel' = [kernel EXCEPT ![n] = Gone]
  /\ UNCHANGED <<births, phase, words, snapshot, todo, loaded, had, output>>

-----------------------------------------------------------------------------

ShowInit(Kernels) ==
  /\ kernel \in Kernels
  /\ births = Cardinality(There(kernel))
  /\ phase = "idle" /\ words = [name |-> "", type |-> "", group |-> FALSE]
  /\ snapshot = [n \in Names |-> Gone] /\ loaded = [n \in Names |-> Gone]
  /\ todo = {} /\ had = {} /\ output = {}

ShowNext ==
  \/ \E w \in Commands : Start(w)
  \/ \E n \in Names : LoadSettings(n)
  \/ ShowOutput
  \/ \E n \in Names, t \in Kinds : Create(n, t)
  \/ \E n \in Names : Destroy(n)

-----------------------------------------------------------------------------
(* Properties                                                              *)

\* Types of the state.
ShowTypeOK ==
  /\ kernel \in [Names -> Interface \cup {Gone}]
  /\ births \in 0..MaxBirths
  /\ phase \in {"idle", "read", "shown"}
  /\ words \in Commands
  /\ snapshot \in [Names -> Interface \cup {Gone}]
  /\ loaded \in [Names -> Interface \cup {Gone}]
  /\ todo \subseteq There(snapshot)
  /\ had \subseteq Names \X Interface

Undisturbed(n) == kernel[n] = snapshot[n]
RowsOf(n) == {r \in output : r.of = n}
Rivals(n) ==
  {m \in selected(words, snapshot) : Base(m) = Base(n) /\ Half(m) = Half(n)}

\* Every interface the words select and that stays while the command runs is
\* in exactly one row, and no other is in any; in the table of epairs, two
\* whose names say the same half of the same pair share one row, which is of
\* one of them (executeShow, Get...Interfaces, the formatters).
AllSelectedShown ==
  phase = "shown" =>
    /\ \A r \in output : r.of \in selected(words, snapshot)
    /\ \A n \in selected(words, snapshot) :
         Undisturbed(n) => \/ Cardinality(RowsOf(n)) = 1
                          \/ /\ snapshot[n].type = "epair"
                             /\ Cardinality(UNION {RowsOf(m) : m \in Rivals(n)}) = 1

\* The settings of an interface of type t of which a zero is not told from a
\* value not read: in a summary the metric, the speed, the capabilities and the
\* tag of a VLAN; in a table the FIB of stf, the flags of the first member of
\* lagg, and what an interface of vlan or wlan is capable of.
ZeroUnshown(t) ==
  {"metric", "baudrate", "capabilities"} \cup
  (CASE t = "stf" -> {"vrf"} [] t = "lagg" -> {"flags"} [] t = "vlan" -> {"vid", "options"}
     [] t = "wlan" -> {"caps"} [] OTHER -> {})

\* What is shown of a name was read from an interface that had it since the
\* command began; of an interface that stays, no setting its backend reads is
\* shown as missing, except a zero among ZeroUnshown, and its summary has a
\* line for each of those a command can set, with the same exception
\* (executeShow, Get...Interfaces, the formatters).
ShownIsRead ==
  phase = "shown" =>
    \A r \in output :
      LET n == r.of
          t == snapshot[n].type IN
      /\ \A k \in DOMAIN r.row :
           r.row[k] \notin {Missing, Default} => \E h \in had : h[1] = n /\ h[2].id = r.row[k]
      /\ Undisturbed(n) =>
           /\ \A k \in DOMAIN r.row :
                k \in (Generic \cup Reads(t)) \ (ZeroUnshown(t) \cap Zero(snapshot[n].id))
                  => r.row[k] = snapshot[n].id
           /\ words.name # "" /\ ~ (words.group /\ words.type = "")
                => BackendOf(t).loads \subseteq DOMAIN r.row

=============================================================================
