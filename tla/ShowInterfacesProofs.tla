------------------------ MODULE ShowInterfacesProofs ------------------------
(***************************************************************************)
(* Proofs about `show interfaces`, for any names, types and number of      *)
(* interfaces.  They rest on two things: no table or summary prints a      *)
(* setting its type has to be asked for without asking, and an interface   *)
(* that is not there now as it was in the snapshot will never be again.    *)
(***************************************************************************)
EXTENDS ShowInterfaces, FiniteSetTheorems, TLAPS

-----------------------------------------------------------------------------
(* The tables and summaries of each type                                   *)

USE DEF Format, Column, Summary, Also, Shown

\* A table for which nothing is read, and one that is no table of epairs.
Simple(table) == CellsOf(table) \subseteq Generic
Single(table) == table.cells[1] # "pair"

LEMMA PlainTablesSimple ==
  /\ Simple(InterfaceTable) /\ Simple(CarpTable) /\ Simple(TapTable) /\ Simple(PflogTable)
  /\ Simple(PfsyncTable) /\ Simple(WireGuardTable) /\ Simple(LoopBackTable)
  /\ Simple(SixToFourTable) /\ Simple(EpairTable)
<1> USE DEF Simple, CellsOf, Generic, InterfaceSummary
<1>1. Simple(InterfaceTable)
  BY DEF InterfaceTable
<1>2. Simple(CarpTable)
  BY DEF CarpTable, PlainColumns, PlainCells
<1>3. Simple(LoopBackTable)
  BY DEF LoopBackTable
<1>4. Simple(SixToFourTable)
  BY DEF SixToFourTable
<1>5. Simple(EpairTable)
  BY DEF EpairTable
<1>6. QED
  BY <1>1, <1>2, <1>3, <1>4, <1>5
  DEF CarpTable, TapTable, PflogTable, PfsyncTable, WireGuardTable

\* What the handler h of type t shows of an interface of that type.
Shows(h, t) ==
  /\ ~h.reads => Simple(h.table)
  /\ h.table = EpairTable => t = "epair"
  /\ BackendOf(t).loads \subseteq
       IF h.summary = NoSummary THEN InterfaceSummary.keys ELSE h.summary.keys

\* Every other table begins with a column of its own.
LEMMA OtherTables ==
  /\ Single(InterfaceTable) /\ Single(BridgeTable) /\ Single(LaggTable) /\ Single(VlanTable)
  /\ Single(WlanTable) /\ Single(GreTable) /\ Single(VxlanTable) /\ Single(LoopBackTable)
  /\ Single(SixToFourTable) /\ Single(TunTable) /\ Single(CarpTable)
  /\ Single(GifTable) /\ Single(OvpnTable) /\ Single(IpsecTable)
  /\ Single(TapTable) /\ Single(PflogTable) /\ Single(PfsyncTable) /\ Single(WireGuardTable)
  /\ ~Single(EpairTable)
BY DEF Single, InterfaceTable, BridgeTable, LaggTable, VlanTable, WlanTable, GreTable,
       VxlanTable, LoopBackTable, SixToFourTable, TunTable, GifTable, OvpnTable,
       IpsecTable, TunnelCells, CarpTable, TapTable, PflogTable, PfsyncTable,
       WireGuardTable, PlainCells, EpairTable

LEMMA NotEpairs ==
  ASSUME NEW table, Single(table)
  PROVE  table # EpairTable
BY OtherTables

LEMMA Backends ==
  /\ BackendOf("bridge") = BridgeBackend /\ BackendOf("lagg") = LaggBackend
  /\ BackendOf("vlan") = VlanBackend /\ BackendOf("tun") = TunBackend
  /\ BackendOf("ovpn") = OvpnBackend /\ BackendOf("gif") = GifBackend
  /\ BackendOf("ipsec") = IpsecBackend /\ BackendOf("gre") = GreBackend
  /\ BackendOf("vxlan") = VxlanBackend /\ BackendOf("wlan") = WlanBackend
  /\ BackendOf("carp") = CarpBackend
  /\ \A t \in {"tap", "pflog", "pfsync", "wg", "stf", "loopback", "ethernet", "epair"} :
       BackendOf(t) = GenericOnly
BY DEF BackendOf

LEMMA TypeShows ==
  ASSUME NEW t \in Types \cup {"epair"}
  PROVE  Shows(handlers(t), t)
<1> USE OtherTables, NotEpairs, PlainTablesSimple, Backends DEF Shows, handlers
<1>0. \A table : Single(table) => table # EpairTable
  BY NotEpairs
<1>1. CASE t = "bridge"
  <2>1. BridgeBackend.loads \subseteq BridgeSummary.keys
    BY DEF BridgeBackend, Backend, Endpoints, GenericOnly, BridgeSummary, InterfaceSummary
  <2>2. QED
    BY <1>0, <1>1, <2>1 DEF showBridgeInterfaces, BridgeSummary, InterfaceSummary, NoSummary
<1>2. CASE t = "lagg"
  <2>1. LaggBackend.loads \subseteq LaggSummary.keys
    BY DEF LaggBackend, Backend, Endpoints, GenericOnly, LaggSummary, InterfaceSummary
  <2>2. QED
    BY <1>0, <1>2, <2>1 DEF showLaggInterfaces, LaggSummary, InterfaceSummary, NoSummary
<1>3. CASE t = "vlan"
  <2>1. VlanBackend.loads \subseteq VlanSummary.keys
    BY DEF VlanBackend, Backend, Endpoints, GenericOnly, VlanSummary, InterfaceSummary
  <2>2. QED
    BY <1>0, <1>3, <2>1 DEF showVlanInterfaces, VlanSummary, InterfaceSummary, NoSummary
<1>4. CASE t = "tun"
  <2>1. TunBackend.loads \subseteq TunSummary.keys
    BY DEF TunBackend, Backend, Endpoints, GenericOnly, TunSummary, InterfaceSummary
  <2>2. QED
    BY <1>0, <1>4, <2>1 DEF showTunInterfaces, TunSummary, InterfaceSummary, NoSummary
<1>5. CASE t = "gif"
  <2>1. GifBackend.loads \subseteq GifSummary.keys
    BY DEF GifBackend, Backend, Endpoints, GenericOnly, GifSummary, InterfaceSummary
  <2>2. QED
    BY <1>0, <1>5, <2>1 DEF showGifInterfaces, GifSummary, InterfaceSummary, NoSummary
<1>6. CASE t = "ovpn"
  <2>1. OvpnBackend.loads \subseteq OvpnSummary.keys
    BY DEF OvpnBackend, Backend, Endpoints, GenericOnly, OvpnSummary, InterfaceSummary
  <2>2. QED
    BY <1>0, <1>6, <2>1 DEF showOvpnInterfaces, OvpnSummary, InterfaceSummary, NoSummary
<1>7. CASE t = "ipsec"
  <2>1. IpsecBackend.loads \subseteq IpsecSummary.keys
    BY DEF IpsecBackend, Backend, Endpoints, GenericOnly, IpsecSummary, InterfaceSummary
  <2>2. QED
    BY <1>0, <1>7, <2>1 DEF showIpsecInterfaces, IpsecSummary, InterfaceSummary, NoSummary
<1>8. CASE t = "gre"
  <2>1. GreBackend.loads \subseteq GreSummary.keys
    BY DEF GreBackend, Backend, Endpoints, GenericOnly, GreSummary, InterfaceSummary
  <2>2. QED
    BY <1>0, <1>8, <2>1 DEF showGreInterfaces, GreSummary, InterfaceSummary, NoSummary
<1>9. CASE t = "vxlan"
  <2>1. VxlanBackend.loads \subseteq VxlanSummary.keys
    BY DEF VxlanBackend, Backend, Endpoints, GenericOnly, VxlanSummary, InterfaceSummary
  <2>2. QED
    BY <1>0, <1>9, <2>1 DEF showVxlanInterfaces, VxlanSummary, InterfaceSummary, NoSummary
<1>10. CASE t = "wlan"
  <2>1. WlanBackend.loads \subseteq WlanSummary.keys
    BY DEF WlanBackend, Backend, Endpoints, GenericOnly, WlanSummary, InterfaceSummary
  <2>2. QED
    BY <1>0, <1>10, <2>1 DEF showWlanInterfaces, WlanSummary, InterfaceSummary, NoSummary
<1>11. CASE t = "carp"
  <2>1. CarpBackend.loads \subseteq CarpSummary.keys
    BY DEF CarpBackend, Backend, CarpSummary, InterfaceSummary
  <2>2. CarpSummary # NoSummary
    BY DEF CarpSummary, InterfaceSummary, NoSummary
  <2>3. handlers(t) = showCarpInterfaces
    BY <1>11
  <2>4. QED
    BY <1>0, <1>11, <2>1, <2>2, <2>3 DEF showCarpInterfaces
<1>12. CASE t \in {"tap", "pflog", "pfsync", "wg", "stf", "loopback", "ethernet"}
  <2>1. \E table \in {TapTable, PflogTable, PfsyncTable, WireGuardTable, SixToFourTable,
                     LoopBackTable, InterfaceTable} :
          handlers(t) = [summary |-> NoSummary, table |-> table, reads |-> FALSE]
    BY <1>12
    DEF showTapInterfaces, showPflogInterfaces, showPfsyncInterfaces,
        showWireGuardInterfaces, showSixToFourInterfaces, showLoopbackInterfaces,
        showNothingSpecial
  <2>2. BackendOf(t).loads = {}
    BY <1>12 DEF GenericOnly, Backend
  <2> HIDE DEF handlers
  <2>3. QED
    BY <1>0, <2>1, <2>2
<1>13. CASE t = "epair"
  <2>1. BackendOf(t).loads = {}
    BY <1>13 DEF GenericOnly, Backend
  <2>2. handlers(t) = showEpairInterfaces
    BY <1>13
  <2> HIDE DEF handlers
  <2>3. QED
    BY <1>13, <2>1, <2>2 DEF showEpairInterfaces
<1> QED
  BY <1>1, <1>2, <1>3, <1>4, <1>5, <1>6, <1>7, <1>8, <1>9, <1>10, <1>11, <1>12, <1>13
  DEF Types

\* A format leaves no zero out but those of ZeroUnshown.
Faithful(f, t) == f.nonzero \subseteq ZeroUnshown(t)

LEMMA SummaryFaithful ==
  ASSUME NEW t
  PROVE  Faithful(InterfaceSummary, t)
BY DEF Faithful, ZeroUnshown, InterfaceSummary

LEMMA TypeFaithful ==
  ASSUME NEW t \in Types \cup {"epair"}
  PROVE  Faithful(handlers(t).table, t) /\ Faithful(handlers(t).summary, t)
<1> USE DEF Faithful, handlers
<1>1. InterfaceSummary.nonzero = {"metric", "baudrate", "capabilities"}
  BY DEF InterfaceSummary
<1>2. CASE t = "bridge"
  BY <1>1, <1>2 DEF ZeroUnshown, showBridgeInterfaces, BridgeSummary, BridgeTable
<1>3. CASE t = "lagg"
  BY <1>1, <1>3 DEF ZeroUnshown, showLaggInterfaces, LaggSummary, LaggTable
<1>4. CASE t = "vlan"
  BY <1>1, <1>4 DEF ZeroUnshown, showVlanInterfaces, VlanSummary, VlanTable
<1>5. CASE t = "tun"
  BY <1>1, <1>5 DEF ZeroUnshown, showTunInterfaces, TunSummary, TunTable
<1>6. CASE t = "gif"
  BY <1>1, <1>6 DEF ZeroUnshown, showGifInterfaces, GifSummary, GifTable
<1>7. CASE t = "ovpn"
  BY <1>1, <1>7 DEF ZeroUnshown, showOvpnInterfaces, OvpnSummary, OvpnTable
<1>8. CASE t = "ipsec"
  BY <1>1, <1>8 DEF ZeroUnshown, showIpsecInterfaces, IpsecSummary, IpsecTable
<1>9. CASE t = "gre"
  BY <1>1, <1>9 DEF ZeroUnshown, showGreInterfaces, GreSummary, GreTable
<1>10. CASE t = "vxlan"
  BY <1>1, <1>10 DEF ZeroUnshown, showVxlanInterfaces, VxlanSummary, VxlanTable
<1>11. CASE t = "wlan"
  BY <1>1, <1>11 DEF ZeroUnshown, showWlanInterfaces, WlanSummary, WlanTable
<1>12. CASE t = "carp"
  BY <1>1, <1>12 DEF ZeroUnshown, showCarpInterfaces, CarpSummary, CarpTable
<1>13. CASE t = "epair"
  BY <1>1, <1>13 DEF ZeroUnshown, showEpairInterfaces, EpairSummary, EpairTable
<1>14. CASE t \in {"tap", "pflog", "pfsync", "wg", "loopback", "ethernet"}
  BY <1>14
  DEF ZeroUnshown, NoSummary, showTapInterfaces, showPflogInterfaces, showPfsyncInterfaces,
      showWireGuardInterfaces, showLoopbackInterfaces, showNothingSpecial, TapTable,
      PflogTable, PfsyncTable, WireGuardTable, LoopBackTable, InterfaceTable
<1>15. CASE t = "stf"
  BY <1>15 DEF ZeroUnshown, NoSummary, showSixToFourInterfaces, SixToFourTable
<1> QED
  BY <1>2, <1>3, <1>4, <1>5, <1>6, <1>7, <1>8, <1>9, <1>10, <1>11, <1>12, <1>13, <1>14,
     <1>15
  DEF Types

-----------------------------------------------------------------------------
(* Which of them is used                                                   *)

Kernels == [Names -> Interface \cup {Gone}]

LEMMA SelectedThere ==
  ASSUME NEW w \in Commands, NEW s \in Kernels
  PROVE  /\ selected(w, s) \subseteq There(s) /\ IsFiniteSet(selected(w, s))
         /\ w.name # "" => selected(w, s) \subseteq {w.name}
         /\ w.name = "" /\ w.type # "" => \A n \in selected(w, s) : s[n].type = w.type
         /\ \A n \in There(s) : s[n] \in Interface /\ s[n].type \in Types \cup {"epair"}
<1>1. selected(w, s) \subseteq There(s)
  BY DEF selected
<1>2. There(s) \subseteq Names
  BY DEF There
<1>3. IsFiniteSet(selected(w, s))
  BY <1>1, <1>2, FS_Subset, NamesAssumption
<1>4. \A n \in There(s) : s[n] \in Interface /\ s[n].type \in Types \cup {"epair"}
  BY KindsAssumption DEF There, Kernels, Interface
<1>5. QED
  BY <1>1, <1>3, <1>4 DEF selected

\* Where one type is selected, its table is used.
LEMMA FormatOfTypes ==
  ASSUME NEW s \in Kernels, NEW chosen \in SUBSET There(s), IsFiniteSet(chosen),
         NEW n \in chosen
  PROVE  formatOf(TypesOf(s, chosen)) \in {handlers(s[n].type), showNothingSpecial}
<1> DEFINE types == TypesOf(s, chosen)
           f == [m \in chosen |-> s[m].type]
<1>1. f \in Surjection(chosen, types)
  BY DEF Surjection, TypesOf
<1> HIDE DEF f
<1>2. IsFiniteSet(types)
  BY <1>1, FS_Surjection
<1>3. s[n].type \in types
  BY DEF TypesOf
<1> HIDE DEF types
<1>4. CASE Cardinality(types) = 1
  <2>1. types = {s[n].type}
    BY <1>2, <1>3, <1>4, FS_Singleton
  <2>2. (CHOOSE t \in types : TRUE) = s[n].type
    BY <2>1
  <2>3. QED
    BY <2>2 DEF formatOf, types
<1>5. CASE Cardinality(types) # 1
  BY <1>5 DEF formatOf, types
<1>6. QED
  BY <1>4, <1>5

\* What is used to show the interface n.
LEMMA Presented ==
  ASSUME NEW w \in Commands, NEW s \in Kernels, NEW n \in selected(w, s)
  PROVE  LET p == presentation(w, s) IN
         /\ p.as \in {"summary", "table"}
         /\ p.as = "table" => /\ Faithful(p.of.table, s[n].type)
                              /\ p.of.reads \/ Simple(p.of.table)
                              /\ p.of.table = EpairTable => s[n].type = "epair"
         /\ p.as = "summary" => n = w.name /\ p.of = handlers(s[n].type)
         /\ w.name # "" /\ ~(w.group /\ w.type = "") => p.as = "summary"
<1> DEFINE p == presentation(w, s)
           chosen == selected(w, s)
           Fits(h) == /\ Faithful(h.table, s[n].type)
                      /\ h.reads \/ Simple(h.table)
                      /\ h.table = EpairTable => s[n].type = "epair"
<1>1. /\ chosen \subseteq There(s) /\ IsFiniteSet(chosen) /\ n \in There(s)
      /\ w.name # "" => n = w.name
      /\ w.name = "" /\ w.type # "" => s[n].type = w.type
      /\ s[n].type \in Types \cup {"epair"}
  BY SelectedThere
<1>2. Fits(showNothingSpecial)
  <2>1. Faithful(InterfaceTable, s[n].type)
    BY DEF Faithful, InterfaceTable
  <2>2. QED
    BY <2>1, PlainTablesSimple, OtherTables, NotEpairs DEF showNothingSpecial
<1>3. Fits(handlers(s[n].type))
  BY <1>1, TypeShows, TypeFaithful DEF Shows
<1>4. Fits(formatOf(TypesOf(s, chosen)))
  <2>1. formatOf(TypesOf(s, chosen)) \in {handlers(s[n].type), showNothingSpecial}
    BY <1>1, FormatOfTypes
  <2> HIDE DEF Fits
  <2>2. QED
    BY <1>2, <1>3, <2>1
<1> HIDE DEF Fits
<1>5. CASE w.group /\ w.type = ""
  BY <1>2, <1>5 DEF presentation, Fits
<1>6. CASE ~(w.group /\ w.type = "") /\ w.name # ""
  BY <1>1, <1>6 DEF presentation
<1>7. CASE ~(w.group /\ w.type = "") /\ w.name = ""
  <2> DEFINE h == IF w.type # "" THEN handlers(w.type) ELSE formatOf(TypesOf(s, chosen))
  <2>1. p = [as |-> "table", of |-> h]
    BY <1>7 DEF presentation
  <2> HIDE DEF p, h
  <2>2. p.as = "table" /\ p.of = h
    BY <2>1
  <2>3. w.type # "" => w.type = s[n].type
    BY <1>1, <1>7
  <2>4. Fits(p.of)
    BY <1>3, <1>4, <2>2, <2>3 DEF h
  <2>5. QED
    BY <1>7, <2>2, <2>4 DEF Fits, p
<1>8. QED
  BY <1>5, <1>6, <1>7

-----------------------------------------------------------------------------
(* The invariant                                                           *)

\* The interfaces there when the program starts have been created.
Booted == {k \in Kernels : /\ Cardinality(There(k)) \in 0..MaxBirths
                           /\ \A n \in There(k) : k[n].id <= Cardinality(There(k))}

\* For any such kernels.
ShowSpec(Starts) == ShowInit(Starts) /\ [][ShowNext]_showVars

\* Every interface known was there since the snapshot, and was created.
Known ==
  \A n \in Names :
    /\ kernel[n] # Gone => kernel[n].id <= births
    /\ snapshot[n] # Gone => snapshot[n].id <= births
    /\ phase = "idle" => loaded[n] = Gone
    /\ phase # "idle" => \A i \in {kernel[n], snapshot[n], loaded[n]} :
                           i # Gone => <<n, i>> \in had

\* What was read of an interface that stays is its own.
Fetched ==
  phase # "idle" /\ reads(presentation(words, snapshot)) =>
    \A n \in selected(words, snapshot) \ todo : Undisturbed(n) => loaded[n] = snapshot[n]

ShowInv == ShowTypeOK /\ Known /\ Fetched

LEMMA InitShowInv ==
  ASSUME NEW Starts \in SUBSET Booted, ShowInit(Starts)
  PROVE  ShowInv
<1>1. kernel \in Booted
  BY DEF ShowInit
<1>2. ShowTypeOK
  BY <1>1 DEF ShowInit, ShowTypeOK, Booted, Kernels, Commands, There
<1>3. Known
  BY <1>1 DEF ShowInit, Known, Booted, There
<1>4. Fetched
  BY DEF ShowInit, Fetched
<1>5. QED
  BY <1>2, <1>3, <1>4 DEF ShowInv

LEMMA StartInv ==
  ASSUME ShowInv, NEW w \in Commands, Start(w)
  PROVE  ShowInv'
<1>1. kernel \in Kernels /\ UNCHANGED <<kernel, births, loaded>> /\ snapshot' = kernel
      /\ phase = "idle" /\ phase' = "read" /\ words' = w
      /\ had' = {<<n, kernel[n]>> : n \in There(kernel)}
  BY DEF Start, ShowInv, ShowTypeOK, Kernels
<1>2. selected(w, kernel) \subseteq There(kernel)
  BY <1>1, SelectedThere
<1>3. \A n \in There(kernel) : n \in Names /\ kernel[n] \in Interface
  BY <1>1 DEF There, Kernels
<1>4. ShowTypeOK'
  BY <1>1, <1>2, <1>3 DEF Start, ShowInv, ShowTypeOK, There
<1>5. Known'
  BY <1>1 DEF ShowInv, Known, There
<1>6. Fetched'
  BY <1>1 DEF Start, Fetched
<1>7. QED
  BY <1>4, <1>5, <1>6 DEF ShowInv

LEMMA LoadInv ==
  ASSUME ShowInv, NEW n \in Names, LoadSettings(n)
  PROVE  ShowInv'
<1>1. /\ phase = "read" /\ n \in todo /\ todo' = todo \ {n}
      /\ loaded' \in [Names -> Interface \cup {Gone}]
      /\ loaded'[n] \in {kernel[n], Gone}
      /\ kernel[n].type = snapshot[n].type => loaded'[n] = kernel[n]
      /\ \A m \in Names \ {n} : loaded'[m] = loaded[m]
      /\ UNCHANGED <<kernel, births, phase, words, snapshot, had, output>>
  BY DEF LoadSettings, ShowInv, ShowTypeOK, Answers
<1>2. ShowTypeOK'
  BY <1>1 DEF ShowInv, ShowTypeOK
<1>3. Known'
  BY <1>1 DEF ShowInv, Known
<1>4. selected(words, snapshot) \subseteq Names
  BY SelectedThere DEF ShowInv, ShowTypeOK, Kernels, There
<1>5. Fetched'
  BY <1>1, <1>4 DEF ShowInv, Fetched, Undisturbed
<1>6. QED
  BY <1>2, <1>3, <1>5 DEF ShowInv

\* What another does to the interface n: it is created, or destroyed.
Disturbs(n) ==
  /\ phase = "read"
  /\ UNCHANGED <<phase, words, snapshot, todo, loaded, output>>
  /\ kernel' \in [Names -> Interface \cup {Gone}]
  /\ \A m \in Names \ {n} : kernel'[m] = kernel[m]
  /\ births' \in 0..MaxBirths /\ births <= births'
  /\ had' \subseteq Names \X Interface /\ had \subseteq had'
  /\ \/ kernel'[n] = Gone /\ kernel[n] # Gone
     \/ kernel'[n].id = births' /\ births' = births + 1 /\ <<n, kernel'[n]>> \in had'

LEMMA OthersDisturb ==
  ASSUME ShowInv, NEW n \in Names,
         Destroy(n) \/ \E t \in Kinds : Create(n, t)
  PROVE  Disturbs(n)
<1>1. CASE Destroy(n)
  BY <1>1 DEF Destroy, ShowInv, ShowTypeOK, Disturbs
<1>2. ASSUME NEW t \in Kinds, Create(n, t) PROVE Disturbs(n)
  <2> DEFINE i == [type |-> t, grouped |-> FALSE, id |-> births']
  <2>1. births' = births + 1 /\ births' \in 1..MaxBirths /\ births <= births'
    BY <1>2, BirthsAssumption DEF Create, ShowInv, ShowTypeOK
  <2>2. i \in Interface /\ i.id = births'
    BY <2>1 DEF Interface
  <2>3. kernel' = [kernel EXCEPT ![n] = i] /\ had' = had \cup {<<n, kernel'[n]>>}
    BY <1>2 DEF Create
  <2> HIDE DEF i
  <2>4. /\ kernel' \in [Names -> Interface \cup {Gone}] /\ kernel'[n] = i
        /\ \A m \in Names \ {n} : kernel'[m] = kernel[m]
    BY <2>2, <2>3 DEF ShowInv, ShowTypeOK
  <2>5. had' \subseteq Names \X Interface /\ had \subseteq had' /\ <<n, kernel'[n]>> \in had'
    BY <2>2, <2>3, <2>4 DEF ShowInv, ShowTypeOK
  <2>6. QED
    BY <1>2, <2>1, <2>2, <2>4, <2>5 DEF Create, Disturbs
<1>3. QED
  BY <1>1, <1>2

\* What another makes of an interface is not what was in the snapshot.
LEMMA OthersInv ==
  ASSUME ShowInv, NEW n \in Names, Disturbs(n)
  PROVE  ShowInv'
<1>1. ShowTypeOK'
  BY DEF Disturbs, ShowInv, ShowTypeOK
<1>2. Known'
  <2> SUFFICES ASSUME NEW m \in Names
               PROVE  /\ kernel'[m] # Gone => kernel'[m].id <= births'
                      /\ snapshot'[m] # Gone => snapshot'[m].id <= births'
                      /\ \A i \in {kernel'[m], snapshot'[m], loaded'[m]} :
                           i # Gone => <<m, i>> \in had'
    BY DEF Known, Disturbs
  <2>1. /\ kernel[m] # Gone => kernel[m].id \in Int
        /\ snapshot[m] # Gone => snapshot[m].id \in Int
        /\ births \in Int /\ births' \in Int
    BY <1>1 DEF ShowInv, ShowTypeOK, Interface
  <2>2. CASE m = n
    <3>1. /\ births <= births' /\ UNCHANGED <<snapshot, loaded>> /\ had \subseteq had'
          /\ kernel'[n] # Gone => kernel'[n].id = births' /\ <<n, kernel'[n]>> \in had'
      BY DEF Disturbs
    <3>2. /\ snapshot[n] # Gone => snapshot[n].id <= births /\ <<n, snapshot[n]>> \in had
          /\ loaded[n] # Gone => <<n, loaded[n]>> \in had
      BY DEF Disturbs, ShowInv, Known
    <3>3. QED
      BY <2>1, <2>2, <3>1, <3>2
  <2>3. CASE m # n
    BY <2>1, <2>3 DEF Disturbs, ShowInv, Known
  <2>4. QED
    BY <2>2, <2>3
<1>3. ~ (kernel'[n] = snapshot[n] /\ snapshot[n] # Gone)
  <2>1. births \in Int /\ (snapshot[n] # Gone => snapshot[n].id \in Int)
    BY DEF ShowInv, ShowTypeOK, Interface
  <2>2. snapshot[n] # Gone => snapshot[n].id <= births
    BY DEF ShowInv, Known
  <2>3. QED
    BY <2>1, <2>2 DEF Disturbs
<1>4. selected(words, snapshot) \subseteq There(snapshot)
  BY SelectedThere DEF ShowInv, ShowTypeOK, Kernels
<1>5. Fetched'
  BY <1>3, <1>4 DEF Disturbs, ShowInv, Fetched, Undisturbed, There
<1>6. QED
  BY <1>1, <1>2, <1>5 DEF ShowInv

LEMMA OutputInv ==
  ASSUME ShowInv, ShowOutput
  PROVE  ShowInv'
<1>1. /\ phase = "read" /\ phase' = "shown"
      /\ UNCHANGED <<kernel, births, words, snapshot, todo, loaded, had>>
  BY DEF ShowOutput
<1>2. ShowTypeOK'
  BY <1>1 DEF ShowInv, ShowTypeOK
<1>3. Known'
  BY <1>1 DEF ShowInv, Known
<1>4. Fetched'
  BY <1>1 DEF ShowInv, Fetched, Undisturbed
<1>5. QED
  BY <1>2, <1>3, <1>4 DEF ShowInv

LEMMA StepShowInv ==
  ASSUME ShowInv, [ShowNext]_showVars
  PROVE  ShowInv'
<1>1. CASE UNCHANGED showVars
  BY <1>1 DEF showVars, ShowInv, ShowTypeOK, Known, Fetched, Undisturbed
<1>2. QED
  BY <1>1, StartInv, LoadInv, OthersDisturb, OthersInv, OutputInv DEF ShowNext

\* Only ShowOutput prints.
LEMMA StepPrints ==
  ASSUME ShowInv, ShowNext, phase' = "shown"
  PROVE  ShowOutput
<1>1. ASSUME NEW w, Start(w) PROVE FALSE
  BY <1>1 DEF Start
<1>2. ASSUME NEW n, LoadSettings(n) PROVE FALSE
  BY <1>2 DEF LoadSettings
<1>3. ASSUME NEW n \in Names, Disturbs(n) PROVE FALSE
  BY <1>3 DEF Disturbs
<1>4. QED
  BY <1>1, <1>2, <1>3, OthersDisturb DEF ShowNext

LEMMA ShowInvHolds ==
  ASSUME NEW Starts \in SUBSET Booted
  PROVE  ShowSpec(Starts) => []ShowInv
<1>1. ShowInit(Starts) => ShowInv
  BY InitShowInv
<1>2. QED
  BY <1>1, StepShowInv, PTL DEF ShowSpec

\* With any names, types and number of interfaces, the variables hold what their
\* comments say.
THEOREM ShowTypeCorrect ==
  ASSUME NEW Starts \in SUBSET Booted
  PROVE  ShowSpec(Starts) => []ShowTypeOK
<1>1. ShowInv => ShowTypeOK
  BY DEF ShowInv
<1>2. QED
  BY <1>1, ShowInvHolds, PTL

-----------------------------------------------------------------------------
(* What is printed                                                         *)

\* The row r about n says what was read.
Read(r, n) ==
  /\ \A k \in DOMAIN r :
       r[k] \notin {Missing, Default} => \E h \in had : h[1] = n /\ h[2].id = r[k]
  /\ Undisturbed(n) =>
       \A k \in DOMAIN r :
         k \in (Generic \cup Reads(snapshot[n].type))
                 \ (ZeroUnshown(snapshot[n].type) \cap Zero(snapshot[n].id))
           => r[k] = snapshot[n].id

LEMMA RowRead ==
  ASSUME ShowInv, phase # "idle", NEW n \in There(snapshot), NEW keys, NEW f,
         Faithful(f, snapshot[n].type),
         \/ keys \subseteq Generic
         \/ Undisturbed(n) => loaded[n] = snapshot[n]
  PROVE  DOMAIN Row(n, keys, f) = keys /\ Read(Row(n, keys, f), n)
<1> DEFINE r == Row(n, keys, f)
<1>1. DOMAIN r = keys
  BY DEF Row
<1>2. n \in Names /\ snapshot[n] # Gone
  BY DEF There
<1>3. \A i \in {snapshot[n], loaded[n]} : i # Gone => \E h \in had : h[1] = n /\ h[2].id = i.id
  <2>1. \A i \in {snapshot[n], loaded[n]} : i # Gone => <<n, i>> \in had
    BY <1>2 DEF ShowInv, Known
  <2>2. QED
    BY <2>1
<1>4. ASSUME NEW k \in keys, k \in Generic
      PROVE  /\ r[k] \in {Missing, snapshot[n].id}
             /\ k \notin f.nonzero \cap Zero(snapshot[n].id) => r[k] = snapshot[n].id
  <2>1. r[k] = Cell(snapshot[n], k, TRUE, f)
    BY <1>4 DEF Row
  <2>2. QED
    BY <1>2, <2>1 DEF Cell
<1>5. ASSUME NEW k \in keys, k \notin Generic
      PROVE  /\ r[k] \in {Missing, Default} \/ (loaded[n] # Gone /\ r[k] = loaded[n].id)
             /\ loaded[n] # Gone /\ k \in Reads(snapshot[n].type)
                  /\ k \notin f.nonzero \cap Zero(loaded[n].id) => r[k] = loaded[n].id
  <2>1. r[k] = Cell(loaded[n], k, k \in Reads(snapshot[n].type), f)
    BY <1>5 DEF Row
  <2>2. QED
    BY <2>1 DEF Cell
<1> HIDE DEF r
<1>6. ASSUME NEW k \in keys, r[k] \notin {Missing, Default}
      PROVE  \E h \in had : h[1] = n /\ h[2].id = r[k]
  BY <1>2, <1>3, <1>4, <1>5, <1>6
<1>7. ASSUME Undisturbed(n), NEW k \in keys, k \in Generic \cup Reads(snapshot[n].type),
             k \notin ZeroUnshown(snapshot[n].type) \cap Zero(snapshot[n].id)
      PROVE  r[k] = snapshot[n].id
  <2>1. k \notin f.nonzero \cap Zero(snapshot[n].id)
    BY <1>7 DEF Faithful
  <2>2. CASE k \in Generic
    BY <1>4, <2>1, <2>2
  <2>3. CASE k \notin Generic
    BY <1>2, <1>5, <1>7, <2>1, <2>3
  <2>4. QED
    BY <2>2, <2>3
<1>8. Read(r, n)
  BY <1>1, <1>6, <1>7 DEF Read
<1>9. QED
  BY <1>1, <1>8 DEF r

\* Nothing is missing of an interface that stays.
LEMMA StaysReadable ==
  ASSUME ShowInv, phase = "read", todo = {}, reads(presentation(words, snapshot)),
         NEW n \in selected(words, snapshot), Undisturbed(n)
  PROVE  loaded[n] = snapshot[n] /\ loaded[n] # Gone
<1>1. selected(words, snapshot) \subseteq There(snapshot)
  BY SelectedThere DEF ShowInv, ShowTypeOK, Kernels
<1>2. QED
  BY <1>1 DEF ShowInv, Fetched, There

\* A summary is of the interface named.
LEMMA SummaryPrints ==
  ASSUME ShowInv, ShowOutput, presentation(words, snapshot).as = "summary",
         NEW n \in selected(words, snapshot)
  PROVE  \E r : /\ output' = {[of |-> n, row |-> r]}
                /\ Read(r, n)
                /\ Undisturbed(n) => BackendOf(snapshot[n].type).loads \subseteq DOMAIN r
<1> DEFINE p == presentation(words, snapshot)
           h == handlers(snapshot[n].type)
           sum == IF p.of.summary = NoSummary \/ Readable({n}) = {} THEN InterfaceSummary
                  ELSE p.of.summary
           row == Row(n, sum.keys, sum)
<1>1. words \in Commands /\ snapshot \in Kernels /\ phase = "read" /\ todo = {}
  BY DEF ShowInv, ShowTypeOK, Kernels, ShowOutput
<1>2. n = words.name /\ p.of = h
  BY <1>1, Presented
<1>3. n \in There(snapshot) /\ snapshot[n].type \in Types \cup {"epair"}
  BY <1>1, SelectedThere
<1>4. output' = {[of |-> n, row |-> row]}
  BY <1>2 DEF ShowOutput, summaryRow, NamedRow
<1>5. reads(p) <=> h.summary # NoSummary
  BY <1>2 DEF reads
<1>6. Undisturbed(n) /\ h.summary # NoSummary => loaded[n] = snapshot[n] /\ Readable({n}) # {}
  BY <1>1, <1>5, StaysReadable DEF Readable
<1>7. DOMAIN row = sum.keys /\ Read(row, n)
  <2>1. InterfaceSummary.keys \subseteq Generic
    BY DEF Generic
  <2>2. sum.keys \subseteq Generic \/ (Undisturbed(n) => loaded[n] = snapshot[n])
    BY <1>2, <1>6, <2>1
  <2>3. Faithful(sum, snapshot[n].type)
    BY <1>2, <1>3, SummaryFaithful, TypeFaithful
  <2> HIDE DEF sum
  <2>4. QED
    BY <1>1, <1>3, <2>2, <2>3, RowRead
<1>8. Undisturbed(n) => BackendOf(snapshot[n].type).loads \subseteq sum.keys
  BY <1>2, <1>3, <1>6, TypeShows DEF Shows
<1> HIDE DEF row, sum
<1>9. QED
  BY <1>4, <1>7, <1>8

\* A table has a row of each interface in S: those selected of which something
\* could be read; in the table of epairs, one of each half of a pair.
LEMMA TablePrints ==
  ASSUME ShowInv, ShowOutput, presentation(words, snapshot).as # "summary"
  PROVE  LET p == presentation(words, snapshot)
             listed == IF reads(p) THEN Readable(selected(words, snapshot))
                       ELSE selected(words, snapshot)
         IN \E S \in SUBSET listed :
              /\ output' = {NamedRow(n, CellsOf(p.of.table), p.of.table) : n \in S}
              /\ IF p.of.table = EpairTable THEN S \in Survivors(listed) ELSE S = listed
BY DEF ShowOutput, tableRows, Survivors

\* In a table, each row is of an interface selected and says what was read of it.
LEMMA TableRead ==
  ASSUME ShowInv, ShowOutput, presentation(words, snapshot).as # "summary",
         NEW r \in output'
  PROVE  r.of \in selected(words, snapshot) /\ Read(r.row, r.of)
<1> DEFINE p == presentation(words, snapshot)
           chosen == selected(words, snapshot)
           keys == CellsOf(p.of.table)
<1>1. words \in Commands /\ snapshot \in Kernels /\ phase = "read" /\ todo = {}
  BY DEF ShowInv, ShowTypeOK, Kernels, ShowOutput
<1>2. PICK n \in chosen : r = NamedRow(n, keys, p.of.table)
  <2>1. Readable(chosen) \subseteq chosen
    BY DEF Readable
  <2>2. QED
    BY <2>1, TablePrints
<1>3. p.as = "table" /\ n \in There(snapshot)
  BY <1>1, <1>2, Presented, SelectedThere
<1>4. keys \subseteq Generic \/ (Undisturbed(n) => loaded[n] = snapshot[n])
  <2>1. p.of.reads => reads(p)
    BY <1>3 DEF reads
  <2>2. CASE p.of.reads
    BY <1>1, <1>2, <2>1, <2>2, StaysReadable
  <2>3. CASE ~p.of.reads
    BY <1>1, <1>2, <1>3, <2>3, Presented DEF Simple
  <2>4. QED
    BY <2>2, <2>3
<1> HIDE DEF p, keys
<1>5. Read(Row(n, keys, p.of.table), n)
  <2>1. Faithful(p.of.table, snapshot[n].type)
    BY <1>1, <1>2, <1>3, Presented DEF p
  <2>2. QED
    BY <1>1, <1>3, <1>4, <2>1, RowRead
<1>6. r.of = n /\ r.row = Row(n, keys, p.of.table)
  BY <1>2 DEF NamedRow
<1>7. QED
  BY <1>2, <1>5, <1>6

\* There is a row of an interface that stays, or of one that shares its half of
\* a pair.
LEMMA TableComplete ==
  ASSUME ShowInv, ShowOutput, presentation(words, snapshot).as # "summary",
         NEW n \in selected(words, snapshot), Undisturbed(n)
  PROVE  \/ Cardinality(RowsOf(n)') = 1
         \/ /\ snapshot[n].type = "epair"
            /\ Cardinality(UNION {RowsOf(m)' : m \in Rivals(n)}) = 1
<1> DEFINE p == presentation(words, snapshot)
           chosen == selected(words, snapshot)
           listed == IF reads(p) THEN Readable(chosen) ELSE chosen
           R(m) == NamedRow(m, CellsOf(p.of.table), p.of.table)
<1>1. words \in Commands /\ snapshot \in Kernels /\ phase = "read" /\ todo = {}
  BY DEF ShowInv, ShowTypeOK, Kernels, ShowOutput
<1>2. PICK S \in SUBSET listed :
        /\ output' = {R(m) : m \in S}
        /\ IF p.of.table = EpairTable THEN S \in Survivors(listed) ELSE S = listed
  BY TablePrints
<1>3. listed \subseteq chosen /\ IsFiniteSet(chosen)
  BY <1>1, SelectedThere DEF Readable
<1>4. n \in listed
  BY <1>1, StaysReadable DEF Readable
<1>5. \A m : R(m).of = m
  BY DEF NamedRow
<1> HIDE DEF R, listed
<1>6. \A m : /\ m \in S => RowsOf(m)' = {R(m)}
             /\ m \notin S => RowsOf(m)' = {}
  BY <1>2, <1>5 DEF RowsOf
<1>7. CASE p.of.table # EpairTable
  <2>1. RowsOf(n)' = {R(n)}
    BY <1>2, <1>4, <1>6, <1>7
  <2>2. QED
    BY <2>1, FS_Singleton
<1>8. CASE p.of.table = EpairTable
  <2> DEFINE T == {m \in S : Base(m) = Base(n) /\ Half(m) = Half(n)}
  <2>1. Cardinality(T) = 1
    BY <1>2, <1>4, <1>8 DEF Survivors
  <2>2. IsFiniteSet(T)
    BY <1>2, <1>3, FS_Subset
  <2>3. PICK m0 : T = {m0}
    BY <2>1, <2>2, FS_Singleton
  <2>4. m0 \in Rivals(n) /\ \A m \in Rivals(n) : m \in S => m = m0
    BY <1>2, <1>3, <2>3 DEF Rivals
  <2>5. UNION {RowsOf(m)' : m \in Rivals(n)} = {R(m0)}
    BY <1>6, <2>3, <2>4
  <2>6. snapshot[n].type = "epair"
    BY <1>1, <1>8, Presented
  <2>7. QED
    BY <2>5, <2>6, FS_Singleton
<1>9. QED
  BY <1>7, <1>8

-----------------------------------------------------------------------------

LEMMA OutputShowsAll ==
  ASSUME ShowInv, ShowOutput
  PROVE  AllSelectedShown'
<1> DEFINE p == presentation(words, snapshot)
           chosen == selected(words, snapshot)
<1>1. UNCHANGED <<kernel, words, snapshot>>
  BY DEF ShowOutput
<1>2. words \in Commands /\ snapshot \in Kernels
  BY DEF ShowInv, ShowTypeOK, Kernels
<1>3. \A r \in output' : r.of \in chosen
  <2>1. CASE p.as # "summary"
    BY <2>1, TableRead
  <2>2. CASE p.as = "summary"
    <3>1. PICK n \in chosen : TRUE
      BY <2>2 DEF presentation
    <3>2. QED
      BY <2>2, <3>1, SummaryPrints
  <2>3. QED
    BY <2>1, <2>2
<1>4. ASSUME NEW n \in chosen, Undisturbed(n)
      PROVE  \/ Cardinality(RowsOf(n)') = 1
             \/ /\ snapshot[n].type = "epair"
                /\ Cardinality(UNION {RowsOf(m)' : m \in Rivals(n)}) = 1
  <2>1. CASE p.as # "summary"
    BY <1>4, <2>1, TableComplete
  <2>2. CASE p.as = "summary"
    <3>1. PICK r : output' = {[of |-> n, row |-> r]}
      BY <1>4, <2>2, SummaryPrints
    <3>2. RowsOf(n)' = {[of |-> n, row |-> r]}
      BY <3>1 DEF RowsOf
    <3>3. QED
      BY <3>2, FS_Singleton
  <2>3. QED
    BY <2>1, <2>2
<1>5. \A n : Rivals(n)' = Rivals(n) /\ (Undisturbed(n)' <=> Undisturbed(n))
  BY <1>1 DEF Rivals, Undisturbed
<1>6. selected(words, snapshot)' = chosen
  BY <1>1
<1>7. QED
  BY <1>1, <1>3, <1>4, <1>5, <1>6 DEF AllSelectedShown

LEMMA OutputIsRead ==
  ASSUME ShowInv, ShowOutput
  PROVE  ShownIsRead'
<1> DEFINE p == presentation(words, snapshot)
           chosen == selected(words, snapshot)
<1>1. UNCHANGED <<kernel, words, snapshot, had>>
  BY DEF ShowOutput
<1>2. words \in Commands /\ snapshot \in Kernels
  BY DEF ShowInv, ShowTypeOK, Kernels
<1>3. ASSUME NEW r \in output'
      PROVE  /\ Read(r.row, r.of)
             /\ Undisturbed(r.of) /\ words.name # "" /\ ~ (words.group /\ words.type = "")
                  => BackendOf(snapshot[r.of].type).loads \subseteq DOMAIN r.row
  <2>1. CASE p.as # "summary"
    <3>1. r.of \in chosen /\ Read(r.row, r.of)
      BY <2>1, <1>3, TableRead
    <3>2. ~ (words.name # "" /\ ~ (words.group /\ words.type = ""))
      BY <1>2, <2>1, <3>1, Presented
    <3>3. QED
      BY <3>1, <3>2
  <2>2. CASE p.as = "summary"
    <3>1. PICK n \in chosen : TRUE
      BY <2>2 DEF presentation
    <3>2. PICK x : /\ output' = {[of |-> n, row |-> x]}
                   /\ Read(x, n)
                   /\ Undisturbed(n) => BackendOf(snapshot[n].type).loads \subseteq DOMAIN x
      BY <2>2, <3>1, SummaryPrints
    <3>3. r.of = n /\ r.row = x
      BY <1>3, <3>2
    <3>4. QED
      BY <3>2, <3>3
  <2>3. QED
    BY <2>1, <2>2
<1>4. \A n : Undisturbed(n)' <=> Undisturbed(n)
  BY <1>1 DEF Undisturbed
<1>5. QED
  BY <1>1, <1>3, <1>4 DEF ShownIsRead, Read

\* Every interface selected that stays while the command runs is in exactly one
\* row, and no other is in any.
THEOREM AllSelectedAreShown ==
  ASSUME NEW Starts \in SUBSET Booted
  PROVE  ShowSpec(Starts) => []AllSelectedShown
<1>1. ShowInit(Starts) => AllSelectedShown
  BY DEF ShowInit, AllSelectedShown
<1>2. ShowInv /\ AllSelectedShown /\ [ShowNext]_showVars => AllSelectedShown'
  <2> SUFFICES ASSUME ShowInv, AllSelectedShown, [ShowNext]_showVars
               PROVE  AllSelectedShown'
    OBVIOUS
  <2>1. CASE UNCHANGED showVars
    BY <2>1 DEF showVars, AllSelectedShown, Undisturbed, RowsOf, Rivals
  <2>2. CASE ShowNext
    <3>1. CASE phase' = "shown"
      BY <2>2, <3>1, StepPrints, OutputShowsAll
    <3>2. QED
      BY <3>1 DEF AllSelectedShown
  <2>3. QED
    BY <2>1, <2>2
<1>3. QED
  BY <1>1, <1>2, ShowInvHolds, PTL DEF ShowSpec

\* What is shown of a name was read from an interface that had it since the
\* command began, and of one that stays no setting its backend reads is shown
\* as missing, except a zero among those of ZeroUnshown: in the tables and the
\* summaries of all nineteen types, whatever is zero.
THEOREM ShownWasRead ==
  ASSUME NEW Starts \in SUBSET Booted
  PROVE  ShowSpec(Starts) => []ShownIsRead
<1>1. ShowInit(Starts) => ShownIsRead
  BY DEF ShowInit, ShownIsRead
<1>2. ShowInv /\ ShownIsRead /\ [ShowNext]_showVars => ShownIsRead'
  <2> SUFFICES ASSUME ShowInv, ShownIsRead, [ShowNext]_showVars
               PROVE  ShownIsRead'
    OBVIOUS
  <2>1. CASE UNCHANGED showVars
    BY <2>1 DEF showVars, ShownIsRead, Undisturbed
  <2>2. CASE ShowNext
    <3>1. CASE phase' = "shown"
      BY <2>2, <3>1, StepPrints, OutputIsRead
    <3>2. QED
      BY <3>1 DEF ShownIsRead
  <2>3. QED
    BY <2>1, <2>2
<1>3. QED
  BY <1>1, <1>2, ShowInvHolds, PTL DEF ShowSpec
=============================================================================
