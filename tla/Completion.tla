----------------------------- MODULE Completion -----------------------------
(***************************************************************************)
(* What TAB and the inline preview offer, and what the parser makes of it. *)
(* A line is typed word by word: a word offered, or one the user knows (a  *)
(* name, a number).  `at` is where the parser is before the next word;     *)
(* autoComplete looks at the token the parser made so far and at the last  *)
(* two words.                                                              *)
(*                                                                         *)
(* Names and numbers are the word "x"; inet6 is inet; `interfaces` is      *)
(* `interface`; lists of the names and groups there are hold "x" alone.    *)
(***************************************************************************)
EXTENDS CommandLanguage

VARIABLES
  at,          \* "verb", "target", "first", "type", "typed", "name", "keyword",
               \* "inet", "value", "block", "blockvalue", a target, or "over"
  known,       \* type of the token, "" when unknown
  hasName,     \* the token has a name
  block,       \* the clause being read, of those that hold others; in a line about
               \* a table of the kernel, the keyword whose value is next
  last, prior, \* the last two words
  meant        \* the last word was read as what it was offered as; a line in which
               \* one was not is at its end here

completionVars == <<at, known, hasName, block, last, prior, meant>>

-----------------------------------------------------------------------------
(* Type words                                                              *)

TypeWords == {"ethernet", "loopback", "bridge", "lagg", "vlan", "tunnel", "tun", "gif",
              "gre", "vxlan", "ipsec", "epair", "virtual", "wireless", "tap", "ppp", "stf",
              "ovpn", "carp", "pflog", "pfsync", "wg"}

\* The words interfaceTypeFromString knows, beside those that are the type
\* itself; "" for the others.
Themselves == {"ethernet", "ppp", "bridge", "vlan", "lagg", "gif", "tun", "gre", "vxlan",
               "epair", "carp", "tap", "stf", "ovpn", "pflog", "pfsync", "wg", "enc", "wlan"}
interfaceTypeFromString(w) ==
  IF w \in Themselves THEN w ELSE IF w = "lo" THEN "loopback" ELSE ""

-----------------------------------------------------------------------------
(* The completions of each type: its keywords, and values of keywords      *)

Offers(keywords, values) == [keywords |-> keywords, values |-> values]
NoValues == [k \in {} |-> {}]

bridgeCompletions ==
  Offers({"member", "stp", "priority"}, [k \in {"stp"} |-> {"on", "off"}])
laggCompletions ==
  Offers({"lagg", "members", "protocol"},
         [k \in {"protocol"} |-> {"lacp", "failover", "loadbalance", "roundrobin",
                                  "broadcast", "none"}])
vlanCompletions == Offers({"vid", "parent", "vlan", "pcp"}, NoValues)
tunCompletions == Offers({"source", "destination", "tunnel-vrf"}, NoValues)
gifCompletions == Offers({"source", "destination", "tunnel-vrf"}, NoValues)
ovpnCompletions == Offers({"source", "destination", "tunnel-vrf"}, NoValues)
ipsecCompletions ==
  Offers({"source", "destination", "tunnel-vrf", "sa", "sp", "reqid"}, NoValues)
greCompletions == Offers({"source", "destination", "key"}, NoValues)
\* Mutant: one keyword of the parser is forgotten.
vxlanCompletionsShort == Offers({"vni", "local", "remote"}, NoValues)
vxlanCompletions == Offers({"vni", "local", "remote", "port"}, NoValues)
wlanCompletions ==
  Offers({"ssid", "channel", "parent", "authmode"},
         [k \in {"authmode"} |-> {"open", "shared", "wpa", "wpa2"}])
carpCompletions == Offers({"vhid", "advskew", "advbase", "key"}, NoValues)
wireGuardCompletions == Offers({"listen-port"}, NoValues)
noCompletions == Offers({}, NoValues)

typeCompletions(t) ==
  CASE t = "bridge" -> bridgeCompletions [] t = "lagg" -> laggCompletions
    [] t = "vlan" -> vlanCompletions     [] t = "tun" -> tunCompletions
    [] t = "gif" -> gifCompletions       [] t = "ovpn" -> ovpnCompletions
    [] t = "ipsec" -> ipsecCompletions   [] t = "gre" -> greCompletions
    [] t = "vxlan" -> vxlanCompletions   [] t = "wlan" -> wlanCompletions
    [] t = "carp" -> carpCompletions     [] t = "wg" -> wireGuardCompletions
    [] OTHER -> noCompletions

-----------------------------------------------------------------------------
(* What autoComplete offers                                                *)

generalKeywords ==
  {"inet", "address", "mtu", "vrf", "group", "up", "down", "status", "description"}

SetOptions == {"interface", "route", "arp", "ndp", "vrf", "policy", "protocols"}
ShowOptions == {"interface", "route", "arp", "ndp", "vrf", "policy"}
DeleteOptions == {"interface", "route", "arp", "ndp", "vrf", "policy"}
RouteOptions == {"interface", "next-hop", "blackhole", "reject", "vrf"}
ArpOptions == {"ip", "mac", "interface", "permanent", "temp", "pub"}
NdpOptions == {"ip", "mac", "interface", "permanent", "temp", "router"}
PolicyOptions == {"access-list"}
VrfOptions == {}

AnyName == {"x"}

\* InterfaceToken::autoComplete: in the order of its branches.
autoComplete ==
  CASE last = "type" -> TypeWords
    [] known # "" /\ last \in DOMAIN typeCompletions(known).values ->
         typeCompletions(known).values[last]
    [] last = "status" -> {"up", "down"}
    [] last \in {"group", "name", "member", "parent", "members"} -> AnyName
    [] OTHER ->
         IF prior = "name"
         THEN generalKeywords \cup {"type", "group"} \cup typeCompletions(known).keywords
         ELSE IF known # "" THEN generalKeywords \cup typeCompletions(known).keywords
         ELSE IF hasName THEN generalKeywords \cup {"type", "group"}
         ELSE {"name", "group", "type"}

\* CLI::getCompletions: the last token of the line decides.
getCompletions ==
  CASE at = "verb" -> {"show", "set", "delete", "exit", "quit"}
    [] at = "target" -> (CASE last = "set" -> SetOptions [] last = "show" -> ShowOptions
                           [] last = "delete" -> DeleteOptions)
    [] at = "route" -> RouteOptions
    [] at = "arp" -> ArpOptions
    [] at = "ndp" -> NdpOptions
    [] at = "policy" -> PolicyOptions
    [] at = "vrf" -> VrfOptions
    [] at = "over" -> {}
    [] OTHER -> autoComplete

-----------------------------------------------------------------------------
(* What the parser reads                                                   *)

Flags == {"up", "down"}

\* The keywords of a type as its parser has them, and those of a clause that
\* holds others.
ParsedKeywords(t) ==
  CASE t = "lagg" -> {"lagg", "protocol"}
    [] t = "vlan" -> dispatch(t).takes \cup {"vlan"}
    [] t = "ipsec" -> dispatch(t).takes \cup {"sa", "sp"}
    [] OTHER -> dispatch(t).takes
Inside(k) ==
  CASE k = "lagg" -> {"members", "protocol"}
    [] k = "vlan" -> {"id", "parent"}
    [] k = "sa" -> {"source", "destination", "protocol", "spi", "algorithm", "key",
                    "enc-algorithm", "enc-key"}
    [] k = "sp" -> {"direction", "policy", "reqid"}
    [] OTHER -> {}

\* Where the parser is after a keyword of the part common to all types, or of
\* the type; "over" when it stops there.
parseKeywords(w) ==
  IF block # "" /\ w \in Inside(block) THEN "blockvalue"
  ELSE
  CASE at = "inet" /\ w = "address" -> "value"
    [] w = "inet" -> "inet"
    [] w \in Flags -> "keyword"
    [] w \in General \ ({"inet"} \cup Flags) -> "value"
    [] w \in ParsedKeywords(known) -> IF Inside(w) # {} THEN "block" ELSE "value"
    [] OTHER -> "over"

\* InterfaceToken::parseFromTokens, word by word: the state after word w.
parseFromTokens(w) ==
  LET Go(a, t, n, ok) ==
        /\ at' = a /\ known' = t /\ hasName' = n /\ meant' = ok
        /\ block' = IF a = "block" THEN w ELSE IF a = "blockvalue" THEN block ELSE ""
      keywordOffered == w \notin AnyName
  IN
  CASE at = "first" ->
         Go(CASE w \in {"type", "name", "group"} -> w [] OTHER -> "over", "", FALSE,
            w \in {"type", "name", "group"})
    [] at = "type" ->
         LET t == interfaceTypeFromString(w) IN
         Go(IF t = "" THEN "over" ELSE "typed", t, FALSE, t # "")
    [] at = "typed" ->
         IF w = "name" THEN Go("name", known, FALSE, TRUE)
         ELSE Go("keyword", known, TRUE, ~keywordOffered)
    [] at = "name" -> Go("keyword", known, TRUE, ~keywordOffered)
    [] at = "group" -> Go("over", "", FALSE, TRUE)
    [] at = "value" ->
         Go("keyword", known, hasName,
            \/ ~keywordOffered
            \/ last = "status" /\ w \in Flags
            \/ known # "" /\ last \in DOMAIN typeCompletions(known).values
                          /\ w \in typeCompletions(known).values[last])
    [] at = "blockvalue" ->
         /\ at' = "block" /\ known' = known /\ hasName' = hasName /\ block' = block
         /\ meant' = \/ ~keywordOffered
                     \/ /\ last \in DOMAIN typeCompletions(known).values
                        /\ w \in typeCompletions(known).values[last]
    [] OTHER -> LET a == parseKeywords(w) IN Go(a, known, hasName, a # "over")

\* The keywords of the other targets, and those without a value.
Words(target) ==
  CASE target = "route" -> dispatch("route").takes \cup {"next-hop"}
    [] target = "policy" -> {"access-list"}
    [] OTHER -> dispatch(target).takes
Bare == {"blackhole", "reject", "permanent", "temp", "pub", "router"}

\* Parser::parse, and the parsers of the other targets: one keyword after the
\* other, each with its value.  A policy has its keyword once, and after it
\* words that are never offered.
parse(w) ==
  /\ UNCHANGED <<known, hasName>>
  /\ CASE at = "verb" ->
            /\ at' = IF w \in {"show", "set", "delete"} THEN "target" ELSE "over"
            /\ meant' = TRUE /\ block' = ""
       [] at = "target" ->
            /\ at' = CASE w = "interface" -> "first" [] w = "protocols" -> "over" [] OTHER -> w
            /\ meant' = (w # "protocols") /\ block' = ""
       [] OTHER ->
            /\ at' = at
            /\ meant' = IF block # "" THEN w \in AnyName ELSE w \in Words(at)
            /\ block' = IF block = "" /\ w \notin Bare THEN w ELSE ""

KernelTargets == {"route", "arp", "ndp", "policy"}

\* The next word.
Type(w) ==
  /\ at # "over" /\ meant
  /\ last' = w /\ prior' = last
  /\ IF at \in {"verb", "target"} \cup KernelTargets THEN parse(w) ELSE parseFromTokens(w)

\* completeCommand: one of the words offered.
Choose == \E w \in getCompletions : Type(w)

\* A word the user knows: a name, a number or, behind a type, `name`.
Enter ==
  \/ /\ \/ at \in {"name", "group", "value", "blockvalue", "typed"}
        \/ at \in KernelTargets /\ block # ""
     /\ Type("x")
  \/ at = "typed" /\ Type("name")

CompletionInit ==
  /\ at = "verb" /\ known = "" /\ hasName = FALSE /\ block = ""
  /\ last = "" /\ prior = "" /\ meant = TRUE

CompletionNext == Choose \/ Enter

-----------------------------------------------------------------------------
(* Properties                                                              *)

TypedKeywords == UNION {typeCompletions(t).keywords : t \in Types}

\* Where a keyword is expected, all the keywords the parser has for the type of
\* the line are offered, and none of another type; "Type-specific keywords are
\* never offered until a type is known" (InterfaceToken::autoComplete).
OffersFitTheType ==
  meant /\ at \in {"keyword", "inet", "block"} =>
    /\ ParsedKeywords(known) \subseteq getCompletions
    /\ getCompletions \cap TypedKeywords \subseteq
         ParsedKeywords(known) \cup UNION {Inside(k) : k \in ParsedKeywords(known)}

=============================================================================
