# A TLA+ development of Stelleri

Stelleri is a router configuration environment for FreeBSD: the `net` command
reads commands (`set`, `show`, `delete`) and applies them with ioctls, sysctls
and routing-socket messages; `netd` is a NETCONF server. This directory holds
TLA+ models of the parts of it that keep state or have failure, ordering or
concurrency behaviour, the TLC runs that check them, and TLAPS proofs.

Paths below are relative to the repository root.

## Inventory

| component | code | state | operations | how it meets the others |
|---|---|---|---|---|
| NETCONF server | `src/server/` | pollsession set, `g_running`, running and candidate datastores, loop flag | accept, poll, one handler per RPC, signal, shutdown | libnetconf2 calls `server_rpc_callback` from `nc_ps_poll` |
| NETCONF client | `src/system/netconf/`, `include/Client.hpp`, `src/main.cpp` | one global client with its session, the trees of a reply | connect (unix, fd, ssh, tls), get-config, shutdown | behind `ConfigurationManager` in the NETCONF build; options and `set target` choose the server |
| interface manager (FreeBSD) | `src/system/freebsd/SystemInterfaces.cpp` | none: the kernel's interface table | save, create, destroy, addresses, groups, enumerate | a command calls it; each ioctl may fail, other processes change the kernel in between |
| type handlers | `src/parser/*InterfaceToken.cpp`, `src/system/freebsd/System{Bridges,Laggs,Vlans,Epair,...}.cpp` | kernel driver state | per-type create and save | called by `InterfaceToken::executeSet` |
| routes, ARP, NDP | `src/system/freebsd/System{Routes,Arp,Ndp}.cpp` | kernel tables | add, delete, list | routing socket |
| command language | `src/parser/`, `src/executive/` | none | parse a line, dispatch, execute | the CLI feeds it, it calls the manager |
| generator | `src/generator/` | set of interfaces already written | print the configuration as commands | its output is input of the command language |
| line editor | `src/CLI.cpp` | buffer, cursor, history, preview, search | keys, completion, history, search, run | reads a terminal, asks the tokens of the command language what may follow |
| configuration data | `src/data/`, `include/*Config.hpp` | values | copies and comparisons | passed between all of them |
| Linux backend | `src/system/linux/` | kernel | the same as FreeBSD, with netlink and stubs | another build |
| formatters | `src/formatter/`, `include/TableFormatter.hpp` | columns and their widths | tables, summaries | `show` gives them what a backend read |

What makes each of them correct, and what is hard about it:

| component | correct if | hard because |
|---|---|---|
| NETCONF server | edits are published by a commit and only then, none is lost, a signal stops it | sessions share one candidate, duplications fail, signals come at any time |
| interface commands | a success was done, a set harms nothing it does not name, what was deleted stays away | other processes change the kernel between two calls, each of which may fail |
| tables of routes and neighbours | what was answered "added" is there, and shown | the answer of a call is not looked at; routing daemons |
| IPsec, epair, wireless | a command is done whole or undone; what is read belongs together | several calls of which one fails; a driver that roams |
| generator and parser | the output, run again, gives back the configuration | two grammars, one printed, one parsed, and listings that change |
| line editor | what is run is what was typed | text in the buffer that was not typed; signals |
| completion | what is offered can be typed | three lists of words, in the token, in its completion and in the type |
| formatters | every interface once, in its own cell; the table fits | the interfaces are read one after the other; widths give way in turns |
| NETCONF client | requests go to the server named; each tree is freed once | owners of trees, exceptions; options in any order |

## The NETCONF server

`NetconfServer` models `netd`: `main()` of `src/server/main.cpp` as a loop with
two places (`accept`, `poll`), `Server::server_rpc_callback` and the handlers
of `NetconfExecutor`.

| variable | code |
|---|---|
| `pc`, `gRunning` | where `main()` is; the atomic the signal handlers clear |
| `ps`, `status` | the `nc_pollsession`; the life of every `nc_session` |
| `request` | an RPC the client sent and the server did not read |
| `running`, `candidate` | the two static tree pointers, as sets of top-level nodes, the empty set being the null pointer |
| `reply` | the last reply and its kind |
| `discarded` | history variable: nodes whose last edit was thrown away |

The server is one thread, so a handler is one action; what interleaves is the
sessions' requests, hang-ups and the signals. An RPC is chosen when it is read:
nothing in the code depends on it earlier. An edit-config is its first child and
the nodes in its `<config>`: the callback copies the first child without its
children (`Payload`), which is why the nodes in `<config>` never arrive. Which
child comes first is libyang's business, so the model allows any.
`DupMayFail` says whether a `lyd_dup_*` call whose result is ignored may run out
of memory; when the payload's own copy does, edit-config answers OK with nothing
merged (`EditNothing`). libyang and libnetconf2 are external and modelled by their results.

`ConfigStore` is the abstract store: a running configuration and a set of
pending edits. `NetconfServer` implements it with
`pending <- candidate \ running`; the step that makes this true is that a
candidate always contains running (`CandidateExtendsRunning`), since otherwise a
commit would drop nodes.

### Runs

| run | question | bounds |
|---|---|---|
| `netconf_store` | do types, the poll set, the candidate and the refinement hold when duplications succeed? | 2 sessions, 3 nodes, with symmetry |
| `netconf_live` | with failing duplications: does a signal stop the server, is every request read, does what was discarded or refused stay out? | 2 sessions, 1 node, no symmetry |
| `netconf_edit_reach` | does an edit reach the candidate? No | 1 session, 2 nodes |

Two sessions are enough for every interference between an editor, a committer
and a reader, as the datastores are shared and do not know who calls; two nodes
separate what is running from what is pending, the third makes proper subsets
of both possible.

### Fairness

`main()` never waits longer than the timeouts it passes, so `MainStep` is weakly
fair. Strong fairness of serving one session is the promise of `nc_ps_poll`,
which resumes after the session it served last; it is an assumption about the
library. Clients and signals are not fair.

### Proofs

`NetconfProofs` reduces every step of the server to one of six datastore
steps (`NextIsStoreStep`) and proves from them, for any sessions and nodes:
`TypeCorrect`, `DiscardIsFinal`, `OnlyCandidatePublished`, `FailedEditIsNoEdit`
and, when `DupMayFail = FALSE`, `CandidateKeepsRunning` and `ImplementsStore`. The
refinement needs `CandidateExtendsRunning` as its invariant: a commit replaces
running by the candidate, which is only an addition if the candidate holds
running. `PollsTheLiving` needs an invariant that also covers the start, before
the loop. The liveness properties are model-checked.

## Interface commands on FreeBSD

`InterfaceManager` models `set interface` and `delete interface`: the two
functions `executeSet` and `executeDelete` of `src/parser/InterfaceToken.cpp`,
the save of each type, and `SaveInterface` and the other system calls of
`src/system/freebsd/SystemInterfaces.cpp`. A step is one system call. Several
processes run commands on one kernel, so anything may happen between two calls,
and each call may fail.

| variable | code |
|---|---|
| `kind` | the type the kernel has for a name: fixed, chosen at the start |
| `present`, `attr` | the kernel's interfaces and their addresses, flags, MTU, FIB, groups, description and driver settings; `bare` are the addresses whose prefix length is that of their class (IPv4) or whose lifetimes are endless (IPv6) |
| `pc` | where a process is: the call it makes next |
| `cmd` | the parsed command (the token) |
| `ic` | the `InterfaceConfig` in hand, less what has been applied: the loops over addresses and groups are this shrinking record; `first` is its primary IPv4 address, `addrs` the aliases and every IPv6 address |
| `left` | the addresses a delete has still to remove |
| `before`, `warned`, `fell`, `made`, `gone` | history variables: the interface as the command found it while nobody else changed it, whether a failure was only printed, whether an alias went by the fallback without a mask, what was cloned, what was deleted for good |

The stages of `SaveInterface` are the operators `ToFirst` ... `ToDescr`: each
says which call follows, in the order of the code, and skips what has nothing to
do. `Must` is a call whose failure throws; the other calls print a warning and
go on. `Throw` ends the command and leaves what was applied. `First` gives the
primary IPv4 address to SIOCSIFADDR, which takes no mask; `Addrs` gives the others
to SIOCAIFADDR, with a fallback that takes none either. What a command asks for
includes its `status`, which the parser takes and no save reads, so that it
gets no further than `cmd`; an address that is none (`typo`) is left out
with a message.

The types fall into groups by the shape of their save. `clone` stands for those
that create and then save the generic settings. `CreateOrSave` (lagg, vlan, gif,
tun, ovpn) save them only if the interface was there already. `ItemByItem`
(bridge, lagg, gre) give their driver settings to the kernel one by one,
`AllAtOnce` (vlan, carp, the tunnels) in one call, for carp after reading what it
has (`DriverRead`), so that what is not given stays. The parameters of a bridge and
the STP flag of its members (`Param`) only warn when they fail (`DriverParam`).
`Dropped` are the settings a save passes over in silence: `stp off` of a
bridge and `stp on` without a member, `protocol none` of a lagg, the `tunnel-vrf` of a
tunnel. A bridge is created under a name the kernel picks. An `ethernet` interface is always there.

### Runs

| run | question | bounds |
|---|---|---|
| `if_kinds` | is a success reported only of what was done, does a snapshot written back harm nothing, do deleted things stay deleted? | 2 processes with symmetry, 1 interface that is a card or cloned, 2 set and 2 delete commands, among them `status down` and an address that is none; 4.6 million states |
| `if_drivers` | the same for every type with driver settings, and does every command end? | 2 processes, 2 names (bridges may be renamed), one set with two settings and one its save may drop, one delete; 0.45 million states, fairness |

| property | says |
|---|---|
| `ReportIsTrue` | "created" or "updated" without a warning means that what was asked for is on the interface. The exceptions, reported though never applied: `status down` (the interface comes up), `vrf 0`, the settings in `Dropped`, those of kinds without a driver, the generic settings of a lagg, vlan or tunnel the command creates, and the prefix length of an address |
| `SnapshotHarmless` | a set writes back all it found, and until somebody else interferes nothing is lost or changes but as asked. Done without being asked: the interface comes up, IPv6 addresses may get endless lifetimes, the primary IPv4 address (any, if the fallback was used) the prefix length of its class |
| `DeletedStaysGone` | what was deleted while no set was under way stays away until a command names it |
| `FamilyDeleted` | deleting the IPv4 addresses leaves none, if nothing failed and nobody interfered |
| `CommandEnds` | every command comes to its end |

Two processes are enough: the code has no state shared between processes but
the kernel, and each property speaks of one command and of what others did to
its interface. The commands are chosen so that every loop of calls runs at least
once with something left over, addresses of both families are written back, one is added
and removed (the deletion of one address by its text is a shorter loop of the same
calls, and left to the proofs), and between the two runs the initial interface differs from a fresh one in every attribute.

The fairness is weak fairness of each process' steps: the kernel answers each
call, with success or an error, and schedules every process. Giving commands is
not fair.

### Proofs

`InterfaceManagerProofs` proves for any processes, interfaces, kinds, values and
commands:

- `TypeCorrect`. Each action has a typing lemma; `TypeOK` also says that a
  process is at a stage of the command it was given and that an absent
  interface has no attributes, which makes it inductive.
- `DeletionIsFinal`: `DeletedStaysGone`. The strengthening `GoneInv` says that
  nothing in the configuration of a set under way, and nothing the command names,
  is in `gone`. The lemma `SetEffect` says that a step of a set adds to an
  interface only what its configuration or its command holds, `DelEffect` that a step of a delete
  adds nothing.
- `SnapshotIsHarmless`: `SnapshotHarmless`. The strengthening `SnapInv` relates
  the configuration at each stage to the interface as it was found (`Seen`,
  `Kept`), as long as nobody else wrote to it; `Bare` says which of its addresses have
  lost their prefix length or lifetimes by then.
- `FamilyIsDeleted`: `FamilyDeleted`. `FamilyInv` says that the addresses of the
  family that are left on the interface are those still in the list.

- `ReportsAreTrue`: `ReportIsTrue`. `Truth` says of a set that nobody disturbed
  and that gave no warning where it is (`Standing`): whatever the command
  gives is on the interface if its stage is past, and still in the configuration
  in hand if it is not (`Applies`; `Drives` for the settings of a driver, which a
  save all at once replaces, and of those only what the save does not drop). `Advance` is the step from a stage to the next, and
  `SkippedNothing` says that the stages it passes over had nothing to apply.

`CommandEnds` is liveness and model-checked only.

## The line editor

`LineEditor` models the interactive prompt of `src/CLI.cpp`: the key handlers it
binds in libedit, the inline preview, the reverse search, SIGINT and the loop of
`CLI::run`. `EditLine` holds what it uses of libedit: the buffer with its cursor
and the three calls `el_cursor`, `el_insertstr`, `el_deletestr`, and the
history file that the search reads. libedit is external: these operators follow
its documented behaviour.

| variable | code |
|---|---|
| `mode` | `el_gets` in `run()`, `runReverseSearch`, or the program has exited |
| `line` | libedit's buffer and cursor |
| `preview` | `preview_len_` |
| `hist` | the history, oldest first; the file is a function of it (`HistoryFile`) |
| `ran` | the last line given to the dispatcher |
| `sigint` | `g_sigint_received` |
| `saved`, `query`, `index` | `saved_line`, `search_query_` and the line that `search_matches_[search_index_]` is |

In the code a preview is ordinary text in the buffer, and only `preview_len_`
says how much of what follows the cursor was not typed. In the model its
characters are `Ghost`, so that one can say what the code relies on:
`PreviewExact`. Which preview a word gets depends on the grammar and on the
interfaces of the machine; the model allows any length.

`PlainLine` is the abstract specification: a prompt without previews, where keys
edit the line, a search may replace it or give it back, Enter runs exactly what
the line shows, and a signal costs the line. `LineEditor` implements it under the mapping
`line <- Visible`, the line without its preview, and `before <- saved`.

That holds for a *careful* user, the constant `Careful`: one who, while a
preview is shown, does not move the cursor, kill, or recall history with keys
the CLI leaves to libedit, and who presses Enter only at the end of what was
typed. Those keys do not know of `preview_len_`. Without the assumption it does
not hold, and a preview can be executed; the run `line_careless` shows the
shortest way: type a character, go to its front, type another, which gets a
preview, press Enter. `run()` strips the preview's length off the end of the
line, but the preview is in the middle.

| run | question | bounds |
|---|---|---|
| `line_editor` | types, `PreviewExact`, `PreviewNeverRuns` and the refinement of `PlainLine`, for a careful user | lines of 2 typed characters, previews of 2, queries of 1, 4 history entries (2 commands), 3 characters: bound to the preview, not bound, space; 0.67 million states |
| `line_careless` | is a preview never executed? It is | lines of 3 characters |

Two characters and a preview of two are enough for text before and behind the
cursor with a preview between and for a preview longer than what was typed; one
command may be `exit`. There is no liveness: a user need not press a key.

`LineEditorProofs` proves, for any alphabet and any bounds: `TypeCorrect` for
every user and, for a careful one, `PreviewIsExact`, `CarefulNeverRunsPreview` and
`ImplementsPlain`. The lemmas first give the text that each call of libedit
leaves, element by element (`InsertText`, `DeleteText`), then that clearing,
adding and typing before a preview leave the visible line what it should be
(`ClearedIsShown`, `PreviewAdded`, `InsertedBefore`). The inductive invariant
`Good` adds to `PreviewExact` that a search has no preview and that nothing kept
(history, last command, saved line) contains one: recalling an entry or giving a
line back would otherwise bring a `Ghost` into the line with no length to account for it.

libedit is assumed to keep its buffer terminated where the text ends, as the code
does (`strlen` at `src/CLI.cpp:310`, `445`, `493`). Ctrl-L changes nothing that
is modelled. Input that is not a terminal is `Run` of `ConfigReplay`. Not modelled: an unset `HOME`, end of file from a hang-up, and the line that Down brings back.

## Generated configurations, run again

`CommandLanguage` is the grammar as data: for each interface type and each other
target the settings its printer writes, the keywords its parser takes, those its
handler insists on, and which settings the FreeBSD backend reads from the kernel
and writes to it. A line is a sequence of clauses, a keyword with its values;
`Taken` is the prefix that `parseFromTokens` reads, which ends at the first keyword
it does not take.

`ConfigReplay` composes generator, parser, execution and kernel: commands are
typed, `net -g` prints the configuration section by section, and what it printed
is run, while it is still printing (`net -g | net`), or from a file after a
restart, any number of times.

| variable | code |
|---|---|
| `typeOf` | the type `GetInterfaces` finds for a name |
| `sys`, `fibs`, `entries` | the kernel: interfaces, `net.fibs`, routes, each in its FIB, and neighbours |
| `section`, `fetched`, `seen`, `pending`, `sorted` | where `generateConfiguration` is, and what `mgr.GetInterfaces()` returned for this section |
| `script`, `next` | standard output of `net -g`; how far it has been run |
| `phase`, `typed` | what is going on; how many commands were typed |
| `orig` | history variable: the system when `net -g` began |

Each section lists the system anew (`Fetch`), in any order, since the list comes
out of a hash map; `Arrange` is one step of the insertion sort by which
`std::stable_sort` of libc++ orders up to 128 VLANs, with the comparison of
`generateVLANs`. A command is one step and its calls succeed, but for a FIB the kernel
does not have: the calls one by one, with their failures, are `InterfaceManager`. Words
no property tells apart (type names, `up`) are one value `Word`. epair
interfaces are left out: creating one renames two.

### Runs

| run | question | bounds |
|---|---|---|
| `config_replay` | types and FIBs; what running the output on the live system changes; what a restart and a replay leave; is anything missing from the output; VLANs after their parents | a card, an interface of each of the 18 types in turn, a VLAN; two typed commands, routes in FIBs 0 and up among them; 2 FIBs after a restart, 2 or 3 before; 1.15 million states |
| `config_replay_restore` | does the replay reproduce the configuration, as `README.md:307` says? It does not | the same |

Two typed commands reach every pair that matters: the same interface twice (a
second address, an MTU on top of a group), or a parent and the VLAN in it. The
commands give the generic settings and all those of the type. One FIB more than a
restart leaves makes a printed FIB one the kernel refuses.

`LiveReplayOnlyBringsUp` is what one may rely on: `net -g | net` never changes
an interface but for bringing it up (`SaveInterface` sets `IFF_UP`).
`RestoredExactly` says what is left after a restart: of a cloned interface its existence,
of a card the MTU, the FIB if the kernel still has it and, without an address, the last
of its groups; and that nothing comes back wrong or was not there before. `ScriptComplete` says what is lost in the printing: every
interface and address is on exactly one line, and so is every exported entry of FIB 0, but no
line is about a route that only another FIB has, since the generator lists the
routes without a VRF (`GenerateRouteCommands.cpp:20`, `SystemRoutes.cpp:31`). All
other losses are in the reading.

### Proofs

`ConfigReplayProofs` proves for any interfaces, values, typed commands and numbers of FIBs:
`Typing`, `LiveReplay`, `ReplayAfterRestart`, `ScriptIsComplete` and
`ParentsComeFirst`. There is no induction over the
clauses of a line. What is read of a printed line is determined by
its first clauses: for a type with a handler the second word is `type`, so nothing
is read (and a type that insists on a setting refuses); for
Ethernet `vrf` and `mtu` are read, and the groups only if no `address` stands
before them. The invariant `IInv` adds to the types

- `Listings`: what is pending or sorted was there when `net -g` began, up to its
  administrative state, although it was listed while the pipe ran;
- `Scripted`: what is read of each printed line is at most the FIB, MTU and
  last group its interface had then (`Reads`), so that running it changes nothing;
- `Covered`: every interface there was is still due, listed or printed;
- `Restoring`: after a restart an interface is as it booted or as `Restored` says,
  and the latter once a line of it has run, which makes running the file again
  harmless. With `Covered`, a full run restores every interface.

The last two rest on a second invariant, `ScriptInv`, which is inductive together
with `IInv` (TLC has checked its parts on the instance of `config_replay`):

- `Queued`: a section lists nothing twice and nothing that was not there;
- `Once`: whatever has to be printed waits (its section is due, or it is pending or
  sorted) exactly as long as no line is about it, so nothing is lost or
  printed again;
- `Wholes`, `Genuine`: the lines about an interface follow each other, the i-th with
  its i-th address; the lines of routes and neighbours are about entries that were there;
- `Tiers`: whatever else the comparison of the sort does, in `sorted` the VLANs whose
  parents are VLANs come after all others. This needs no bound on the depth; that a
  parent comes before its VLAN (`Ordered`) follows from it when they go two deep.

`ParentsFirst` is about a VLAN in a VLAN at most: `generateVLANs` sorts by a comparison of parents
only, and with a VLAN in a VLAN in a VLAN the order in which they come out of the
hash map can put one before its parent.

## Routes, neighbours and devices

`KernelTables` is what a routing socket and sysctl change and read of the kernel:
a routing table for each FIB and the ARP and NDP tables. `TableCommands` is `set`, `delete`
and `show` for them: what becomes of the words on their way into a message
(`IPNetwork::fromString` keeps eight bits of a prefix length; a next hop of the
other family becomes `0.0.0.0`; a FIB the kernel does not have is passed over),
one message for a set or a delete, two sysctl calls for a show, and
other programs before, between and after them. The kernel may refuse anything.
`DeviceCommands` has three sequences of calls that fail half-way: `SaveIpsec`
with its PF_KEY messages, `CreateEpair` with the renaming of both halves and its
rollback, and the reading of a wireless interface, setting by setting, while the
driver roams.

| variable | code |
|---|---|
| `routes`, `fibs`, `processFib`, `entries` | the kernel: routes of each FIB, `net.fibs`, the FIB of the process, neighbours |
| `listing`, `answer` | a show between its two calls; what the last one printed |
| `told` | history variable: what was answered "added" and not undone since |
| `tunnel`, `sad`, `spd`, `ipsec` | an ipsec interface, security associations and policies, where the command is |
| `names`, `taken`, `epair`, `split` | the epair halves there are, the names other interfaces have, where the command is, whether a pair was left under two names |
| `air`, `driver`, `reading` | who the interface is associated with, which questions its driver answers, what has been read and of whom |

`KernelCommands` composes them: each behaviour is about one of the five
subjects, since the program runs one command at a time and the tables have
nothing in common. One run, `kernel_commands`, checks it with the addresses and
names of `MCKernelCommands` (0.43 million states).

| property | says |
|---|---|
| `AddedIsThere` | a route or entry answered "added" is in the table it named, with the destination, gateway, MAC and `pub` typed, until somebody takes it away. The exceptions: the FIB does not exist, or the prefix or gateway is no proper one; the interface of a route is the kernel's choice; an entry typed `temp` is permanent |
| `DeletesOnlyItsOwn` | a deletion of a route takes only routes to the destination typed, over the gateway typed, from the table named |
| `ShownAsTold` | a show of the table a set named lists what was set, the whole table or the entry asked for as the program prints it, unless the table grew between its two calls. Any other spelling finds nothing: the comparison is of texts |
| `IpsecAsTold` | each part of an ipsec command reported done was done, unless the kernel refused it in a reply nobody reads. The exception is `tunnel-vrf`, which is reported and never applied: the tunnel's FIB stays as it was |
| `HalvesTogether` | an epair is there whole under one name, or not at all, when no command runs; two failures are the exceptions |
| `ReadingOfOneStation` | the cipher shown is one of the station shown |

Two FIBs are enough for a route in the wrong one; of the destinations one has a
length in range, one a length beyond the width of its family, and one a length
that loses its ninth bit; one remembered success and one route in a table are enough
for it to be taken away or hidden by another. The properties with two of them
are left to the proofs, which have no bounds.

A show may name a prefix or an address as the program prints it or otherwise
(`printed`), since only the first is found. An epair may be asked for by either half
(`half`): a name that ends in `b` is looked up by that half, which then gets the settings.

`TableCommandsProofs` proves `AddedStaysThere` for any FIBs, destinations,
neighbours and interference. A destination and a gateway that were typed as
what they are reach the message unchanged (`DestAsTyped`, `GatewayAsTyped`,
`FibAsTyped`); the invariant `ToldInv` says that every success remembered is in
the tables, `RemovalKeeps` that what a deletion takes is forgotten with it.
It also proves `ShowsWhatWasTold`, from `ToldInv` and two facts more: the tables
stay finite, and a table that is being read has, unless it grew, at most the size
the first call of the show was told (`ListingInv`), so that the second call finds
room for all of it. `DeletionTakesItsOwn` needs the invariant `OneEach`: the
kernel keeps at most one route to a destination over a gateway, so that the one a
deletion finds is the only one it can mean.
`TablesTypeCorrect` says that the tables hold only what a kernel can hold: the
words of a command may name a length beyond the width of any family, and the
lemma `MessageNetwork` says that the network which comes out of
`IPNetwork::fromString` and goes into the message is one there can be, whatever
was typed.
`KernelCommandsProofs` proves `HalvesStayTogether`, `IpsecDoesAsTold` and
`OneStationIsRead`. The invariant of the first follows the pair the command works on
through every failure of a rename; that of the second says at each step what
of the command has been done by then; that of the third that the key is asked
for after the address of the station. `DevicesTypeCorrect` puts the three together
and adds what they leave out: the kernel keeps security associations with one
identifier apart (`KernelDatabases`), no half of an epair has the name of another
interface (`NamesApart`), and each setting read is of one station at most
(`OneStationEach`). `CommandsRunTheirParts` shows that the composition
implements the specification of each module, so that all these theorems hold
in it; `CommandsTypeCorrect` is its type invariant.

## The client program

Four modules that have no state in common. `ClientProgram` composes them, each
behaviour being about one; the run `client_program` (3.3 million states) checks it
with the interfaces and cells of `MCClient`, and `client_freed` is the same instance.

- `ShowInterfaces`: `show interfaces` takes one snapshot, then reads the
  settings of a type interface by interface and by name, while others destroy
  and create interfaces. A cell shows the identity of the interface its value
  was read from. `Formatters` holds, as data, the columns of every table and
  the lines of every summary, and of which settings a zero is printed as `-` or not at all.
  The snapshot is one step, although `GetInterfaces` asks for the metadata by
  name after `getifaddrs` (`SystemInterfaces.cpp:792`).
- `TableLayout`: `TableFormatter::renderTable`, which takes one character at a
  time from the columns of low priority first.
- `Completion`: which words TAB offers after a line, and how the parser reads
  the line with one of them added.
- `NetconfClient`: the options, `set target`, and one request: who owns the
  trees of its reply.

| property | says |
|---|---|
| `AllSelectedShown`, `ShownIsRead` | each selected interface that stays is in one row; a row shows only values read from an interface of that name, and misses none its backend reads, except a zero among `ZeroUnshown` (FIB 0 of an stf, a zero metric or speed in a summary) |
| `TableFits`, `HigherResists` | a shrunk table is as wide as the page; a column gives way only as much as those of lower priority, or they are at their least width |
| `OffersFitTheType` | where a keyword is expected, all those the parser has for the type of the line are offered and none of another type |
| `NamedServerAnswers` | a request goes to the server named last of those reached; the default one replaces only servers named with `--ssh` and `--tls` |
| `NothingLeaks` | each tree of a reply is freed on every path out of `GetInterfaces` |
| `FreedOnce` (`client_freed`) | no tree is freed twice. It does not hold: see below |

Three names (a pair of epairs and a name that is neither half), one or two of them there at first, five types
(with a backend, with one that may leave an interface out, a pair, one
without a table of its own, and stf, whose table hides a zero), interfaces whose settings
are zero and others, and three interfaces ever created reach every case
of the selection and a name that changes its type during the command. Every
table of the program that is not of unlimited width is laid out, with short and
long lines in each column. One server on the machine and one over the network
suffice to name one after the other in either order; two interfaces in a reply
make a tree freed by one of them read for the next.

`ClientProgramProofs` proves of the layout, for any table and cells,
`WidthsAreBounded`, `HigherPriorityResists` and `PageIsUsed`, and for every table
of the program, with lines of any length, `TablesFit`: the run has lines of two
lengths. The invariant `LayoutInv` counts the passes (`InTurn`): a column has given a
character in every pass it had a turn in, until it was at its least width; and it
says that `total`, which the code only counts down, is still the sum of the
widths (`TotalKept`). `std::accumulate` is a recursive function, and what the lemmas
say of it (one column narrower by one makes the sum less by one; narrower columns
make a smaller sum) goes by the least number of columns for which it would
fail (`LeastOf`). When no column can give way any more, the widths are at most the
least ones, so the table fits if those fit the page: `TablesHaveRoom` goes through the
tables of `Formatters` and adds up the least widths of each.

`NetconfProofs` proves `NamedServerIsAsked` and `NoTreeLeaks`.

`ShowInterfacesProofs` proves `ShowTypeCorrect`, `AllSelectedAreShown` and
`ShownWasRead` for any finite set of names, any number of interfaces created
meanwhile, and all nineteen types, of which the run has five, whichever interfaces
have a zero where one is not shown. A show may
start from any of the kernels `Booted`: those whose interfaces have been created
before. The invariant says that no interface is created twice (`Known`), so that one
which is the same at the end as in the snapshot was there all the time; and that
what has been read of such a one is its own (`Fetched`). The lemma `TypeShows`
goes through the types: every table that prints a setting the snapshot does not hold
asks for it, and the summary has a line for each setting of the type. `TypeFaithful` goes
through them once more: the settings whose zero a table or a summary hides are
among `ZeroUnshown`, so that every other cell shows what was read.

`OfferedIsParsed` proves `OffersFitTheType`. `Completion` has no constants but the
words of the program, so that TLC's check leaves nothing out either; the proof says
why it holds. `AllAgree` goes through the types: a token offers all keywords its parser has,
and else only those that stand inside a clause of it, as `members` in `lagg`. The invariant
`CompletionInv` says that where a keyword is expected the word before it is not
one that asks for a value, and that the type of the line is one
`interfaceTypeFromString` knows, which `ipsec` is not.

`ProgramRunsItsParts` shows that the composition implements the specifications of
its four modules, so that their theorems hold in it; `ClientTypeCorrect` is its type
invariant, for any interfaces to start with and any cells.

## Where the code and its text disagree

Four runs end in a counterexample; PROJECT.json lists them under "findings":
an edit does not reach the candidate, a preview is executed, a replay does not
reproduce the configuration, and a reply of the NETCONF server is freed twice
(`Client::getConfig` gives it to a `YangData` and frees it as well; each
`IetfInterfaces` frees the tree it was read from). Others follow from reading, or were seen
as exceptions a property needs:

- `status down` never takes an interface down: `SystemInterfaces.cpp:579` sets
  `IFF_UP` whatever was asked; `README.md:123` documents the status.
- The first IPv4 address of an interface is set without its mask
  (`SystemInterfaces.cpp:487`), and every set of the interface writes it so; IPv6
  addresses get endless lifetimes (`SystemInterfaces.cpp:324`).
- `stp off`, `protocol none` and `tunnel-vrf` of an interface are taken and never
  applied; of an ipsec interface `tunnel-vrf` is parsed and shown
  (`IpsecInterfaceToken.cpp:63`, `175`), and `SaveIpsec` does not read it.
- `net -g` prints the routes of FIB 0 only (`GenerateRouteCommands.cpp:20`), though
  `README.md:307` speaks of a complete set.
- An ARP or NDP entry typed `temp` is permanent: `SystemArp.cpp:211` only clears
  `RTF_STATIC`, and the NDP code does not look at it; `README.md:125` documents the word.
- `show route` compares texts (`ExecuteShowRoute.cpp:64`): a route to `192.0.2.7` is listed
  as `192.0.2.7/32`, and `show route 192.0.2.7` finds no route.
- The table of stf interfaces shows `-` for FIB 0 (`SixToFourTableFormatter.cpp:72`).
- Removing an IPv6 address throws "not implemented"
  (`SystemInterfaces.cpp:722`), though `README.md:133` shows the command.
- `CreateBridge` goes on with the requested name although the kernel picked
  another; the bridge made first stays behind (`SystemBridges.cpp:93`).
- `NetconfExecutor.cpp:63` clones "the entire tree" for a get-config; the reply
  that is sent holds only its first top-level node, because
  `NetconfServerReply::setData` clones with `lyd_dup_single`.
- The reverse search says that Right accepts (`CLI.cpp:474`, `CLI.hpp:110`);
  the first character of an arrow key is Escape, which cancels
  (`CLI.cpp:562`). "EOF or error" is commented as cancel (`CLI.cpp:545`) and
  leaves the match in the line.
- Each command enters the history twice (`CLI.cpp:654` and `CLI.cpp:97`), so
  Ctrl-R again shows the same line again; the search reads the file in its
  encoded form, with `\040` for a space, and inserts it so.
- SIGINT while a command runs makes `run()` drop the next line that is
  entered (`CLI.cpp:623`).
- In the NETCONF build `--ssh` and `--tls` do not set `client_initialized`, so
  the client they made is replaced by one for the default unix socket
  (`main.cpp:171`), and a port that is no number ends the program; `-g` runs
  before any default client exists, and nobody catches the exception of that.
- `set commit` is answered by the client process from datastores of its own
  (`CommitToken.cpp:22`); nothing is sent.
- A set of an existing interface writes the whole snapshot back, the FIB among
  it, so that a setting another process changed in between is undone
  (`InterfaceToken.cpp:521`).
- A vlan, lagg, gif, tun or ovpn interface gets no address from the command that
  creates it (`SystemVlans.cpp:104`): generic settings are saved only to one
  that exists.
- `vlan parent x` without `id`, and `lagg protocol p` without members, are dropped
  without a message.
- A set without `vrf` goes to the FIB of the process, a show without one reads
  FIB 0 (`SystemRoutes.cpp:31`). A set for a FIB the kernel does not have goes to that of the process
  and succeeds (`SystemRoutes.cpp:293`), though `README.md:124` documents `vrf`.
- The interface typed for a route is not sent, nor is that of a deletion of a neighbour; a
  next hop of the other family becomes zero; `/280` is read as `/24`.
- `sp.reqid` of an ipsec policy is never sent, and the reply of the kernel to a
  PF_KEY message is read and not looked at (`SystemIpsec.cpp:332`).
- The bit rate of a wireless interface is read for the mode of `media_mode`
  (`SystemWlan.cpp:254`), which is filled in later (`SystemWlan.cpp:380`).
- Completion offers `protocols` after `set`, keywords behind one that needs a
  value, `address` without `inet`, and `members` for a lagg, none of which the parser takes, and
  the types `ipsec`, `loopback`, `wireless`, `tunnel` and `virtual`, which
  `interfaceTypeFromString` does not know (`include/InterfaceType.hpp:135`).
- Two epairs whose names agree up to the last letter share a row of the table
  (`EpairTableFormatter.cpp:76`).

## What is not modelled

| part | why |
|---|---|
| capabilities, metric, other flags, the point-to-point destination | carried along unchanged by the same code as what is modelled |
| the bytes of the dumps of sysctl and of socket addresses | conversions; the tables they make are modelled row by row |
| the bits of a VLAN tag | a setting is an element; the kernel looks at the tag, and no text says what becomes of an identifier over 4095 |
| VRF creation and policy | empty functions; their words are in `Completion` |
| how a line is cut into words | no state; no property depends on it |
| the other requests of the NETCONF client | each throws NotImplementedError or is empty; only direct leaves of an interface are read |
| Linux backend | save, create and destroy are empty (`src/system/linux/SystemInterfaces.cpp:278`), the rest lists; the project is for FreeBSD |
| YANG value types, enumerations, flag masks, logging | no behaviour of their own |

Every invariant and every action property of the passing runs is also a theorem,
for every value of the constants of its module. The MC modules only choose values; the
specification a run checks is that of the theorem, or, where the run starts from
fewer states (`MCInit`), implies it. Left to TLC is liveness:
`ShutdownCompletes`, `RequestServed` and `CommandEnds`.

## Order of the development

In the order of what matters most:

1. `NetconfServer`, `ConfigStore`: sessions, datastores, shutdown.
2. `InterfaceManager`: commands against a kernel that others change.
3. `LineEditor`, `PlainLine`, `EditLine`: the prompt.
4. `CommandLanguage`, `ConfigReplay`: the generator, the printing of tokens, the
   parser and the execution composed.
5. `KernelTables`, `TableCommands`, `DeviceCommands`: routes, neighbours and
   devices; `KernelCommands` composes them.
6. `Formatters`, `ShowInterfaces`, `TableLayout`, `Completion`, `NetconfClient`:
   the client program; `ClientProgram` composes them.

What one could add: a second command of one user after a failed one, the Linux
backend once it writes.
