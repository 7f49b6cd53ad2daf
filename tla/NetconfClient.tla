---------------------------- MODULE NetconfClient ----------------------------
(***************************************************************************)
(* The program built for NETCONF: the servers its options and `set target` *)
(* lead to, and `GetInterfaces`, one request to the server and what becomes*)
(* of the reply.  It is the one question this client can ask: every other  *)
(* operation of its configuration manager does nothing, and every other    *)
(* request says that it is not implemented.                                *)
(*                                                                         *)
(* A YANG tree is freed by whoever owns it.  `freed` counts how often, so  *)
(* that a tree freed twice can be told; the program may survive that, or   *)
(* end there.                                                              *)
(***************************************************************************)
EXTENDS Naturals

CONSTANTS
  Nodes,          \* bound: the interfaces a reply can hold
  UnixSockets,    \* servers on this machine
  RemoteServers   \* servers over ssh or tls

VARIABLES
  client,   \* the server there is a client of, or NoServer
  initialized, \* an option -U reached its server
  generate, \* the program is to print the configuration
  named,    \* the server named last of those that were reached, and in what way
  stage,    \* what is done next, or how GetInterfaces ended
  freed,    \* tree |-> how often it was freed
  left,     \* interfaces of the reply still to be read
  stale,    \* an interface was read from a tree that was freed before
  report    \* interfaces read

serverVars == <<client, initialized, generate, named>>
callVars == <<freed, left, stale, report>>
clientVars == <<serverVars, stage, callVars>>

NoServer == "none"
default_unix_socket == "/var/run/stelleri/netconf.sock"
Servers == UnixSockets \cup RemoteServers \cup {default_unix_socket}
Named(server, way) == [server |-> server, way |-> way]

Trees == {"filter", "envelope", "reply", "copy", "data"}
Nothing == [t \in {} |-> 0]
Allocated == DOMAIN freed
Allocate(T) == [t \in Allocated \cup T |-> IF t \in T THEN 0 ELSE freed[t]]

\* lyd_free_all of some trees that are there; freeing one again, the program may end.
Free(f, T) == [t \in DOMAIN f |-> IF t \in T THEN f[t] + 1 ELSE f[t]]
Go(next, f) ==
  /\ freed' = f
  /\ stage' \in {next} \cup (IF \E t \in DOMAIN f : f[t] > 1 THEN {"aborted"} ELSE {})

-----------------------------------------------------------------------------
(* Options and targets                                                     *)

\* init_unix, init_ssh, init_tls: a server that is not reached leaves the client
\* as it was; one that is reached takes its place, whose session nobody ends.
Reach(server, way) ==
  \/ client' = server /\ named' = Named(server, way)
  \/ UNCHANGED <<client, named>>

\* Mutant: that the server of -U was reached is forgotten.
OptionUnixForgotten(server) ==
  /\ stage = "options"
  /\ Reach(server, "unix")
  /\ UNCHANGED <<initialized, generate, stage, callVars>>
OptionUnix(server) ==
  /\ stage = "options"
  /\ \/ client' = server /\ named' = Named(server, "unix") /\ initialized' = TRUE
     \/ UNCHANGED <<client, named, initialized>>
  /\ UNCHANGED <<generate, stage, callVars>>

\* --ssh and --tls; a port that is no number ends the program.
OptionRemote(server) ==
  /\ stage = "options"
  /\ \/ Reach(server, "remote") /\ UNCHANGED stage
     \/ UNCHANGED <<client, named>> /\ stage' = "aborted"
  /\ UNCHANGED <<initialized, generate, callVars>>

OptionGenerate ==
  /\ stage = "options" /\ generate' = TRUE
  /\ UNCHANGED <<client, initialized, named, stage, callVars>>

\* The end of the options.  A configuration is generated with the client there
\* is; commands get the default one unless an option -U reached its server.
Begin ==
  /\ stage = "options"
  /\ stage' = "asking"
  /\ client' \in {client} \cup (IF generate \/ initialized THEN {} ELSE {default_unix_socket})
  /\ UNCHANGED <<initialized, generate, named, callVars>>

\* `set target`, between two requests; a port that is no number is an error of
\* the command only.
SetTarget(server) ==
  /\ stage = "asking" /\ ~generate
  /\ Reach(server, "target")
  /\ UNCHANGED <<initialized, generate, stage, callVars>>

-----------------------------------------------------------------------------
(* GetInterfaces                                                           *)

\* Without a client, a module or a filter there is an exception; nothing was
\* made then.  Only commands catch it.
Ask ==
  /\ stage = "asking"
  /\ \/ /\ stage' = IF generate THEN "aborted" ELSE "failed"
        /\ UNCHANGED freed
     \/ /\ client # NoServer
        /\ freed' = Allocate({"filter"})
        /\ stage' = "waiting"
  /\ UNCHANGED <<serverVars, left, stale, report>>

\* Mutant: of a message that is no reply, the tree is not freed.
ReceiveLeaky ==
  /\ stage = "waiting"
  /\ \E T \in SUBSET {"envelope", "reply"}, message \in {"reply", "other"}, copied \in BOOLEAN :
       IF message = "reply" /\ "reply" \in T
       THEN Go(IF copied THEN "reading" ELSE "returning",
               Free(Allocate(T \cup IF copied THEN {"copy"} ELSE {}), T))
       ELSE Go("returning", Free(Allocate(T), T \ {"reply"}))
  /\ UNCHANGED <<serverVars, left, stale, report>>

\* Client::getConfig: the message may not be sent, or what comes is no reply,
\* or one without data, or one with data, of which the reply keeps a copy;
\* the tree it came in is freed by its YangData once more.
Receive ==
  /\ stage = "waiting"
  /\ \/ Go("returning", freed)
     \/ \E T \in SUBSET {"envelope", "reply"}, message \in {"reply", "other"}, copied \in BOOLEAN :
          IF message = "reply" /\ "reply" \in T
          THEN Go(IF copied THEN "reading" ELSE "returning",
                  Free(Free(Allocate(T \cup IF copied THEN {"copy"} ELSE {}), T), {"reply"}))
          ELSE Go("returning", Free(Allocate(T), T))
  /\ UNCHANGED <<serverVars, left, stale, report>>

\* A copy of the copy, in which the interfaces are looked for.
getData ==
  /\ stage = "reading"
  /\ \/ /\ freed' = Allocate({"data"}) /\ left' \in SUBSET Nodes
        /\ stage' = "walking"
     \/ UNCHANGED <<freed, left>> /\ stage' = "returning"
  /\ UNCHANGED <<serverVars, stale, report>>

\* One interface, made into an IetfInterfaces, whose destructor frees the tree
\* it is in.
toInterfaceConfig(n) ==
  /\ stage = "walking" /\ n \in left
  /\ stale' = (stale \/ freed["data"] > 0)
  /\ report' = report \cup {n}
  /\ left' = left \ {n}
  /\ Go("walking", Free(freed, {"data"}))
  /\ UNCHANGED serverVars

\* Leaving the scope of the data.
EndWalk ==
  /\ stage = "walking" /\ left = {}
  /\ Go("returning", Free(freed, {"data"}))
  /\ UNCHANGED <<serverVars, left, stale, report>>

\* Leaving GetInterfaces: its reply and its filter.
Return ==
  /\ stage = "returning"
  /\ Go("returned", Free(freed, {"copy", "filter"}))
  /\ UNCHANGED <<serverVars, left, stale, report>>

\* The next command, or the next interfaces the generator asks for.
Again ==
  /\ stage \in {"returned", "failed"}
  /\ stage' = "asking"
  /\ freed' = Nothing /\ left' = {} /\ stale' = FALSE /\ report' = {}
  /\ UNCHANGED serverVars

-----------------------------------------------------------------------------

ClientInit ==
  /\ client = NoServer /\ initialized = FALSE /\ generate = FALSE
  /\ named = Named(NoServer, "no")
  /\ stage = "options"
  /\ freed = Nothing /\ left = {} /\ stale = FALSE /\ report = {}

ClientNext ==
  \/ \E server \in UnixSockets : OptionUnix(server)
  \/ \E server \in RemoteServers : OptionRemote(server)
  \/ OptionGenerate
  \/ Begin
  \/ \E server \in UnixSockets \cup RemoteServers : SetTarget(server)
  \/ Ask
  \/ Receive
  \/ getData
  \/ \E n \in Nodes : toInterfaceConfig(n)
  \/ EndWalk
  \/ Return
  \/ Again

ClientSpec == ClientInit /\ [][ClientNext]_clientVars

-----------------------------------------------------------------------------
(* Properties                                                              *)

\* On every way out of GetInterfaces, with or without a reply, every tree it
\* made or was given has been freed (NetconfInterfaces.cpp, Client::getConfig).
NothingLeaks ==
  stage \in {"returned", "failed"} => \A t \in Allocated : freed[t] >= 1

\* A request goes to the server named last of those that were reached, by an
\* option or by `set target`, and with -g to no other.  The exception is a server
\* over ssh or tls named by an option, whose place the default one takes if it
\* can be reached (main, TargetToken::executeSet, Client::init_unix).
NamedServerAnswers ==
  stage = "waiting" =>
    \/ client = named.server
    \/ client = default_unix_socket /\ named.way \in {"no", "remote"} /\ ~generate

\* "Wrap the created filter node in a YangData so its destructor will free the
\* libyang data tree": who has made a YangData of a tree does not free it as
\* well, and no tree is read after that (Client::getConfig, GetInterfaces).
FreedOnce == (\A t \in Allocated : freed[t] <= 1) /\ ~stale

=============================================================================
