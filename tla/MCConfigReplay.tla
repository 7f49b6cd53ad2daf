--------------------------- MODULE MCConfigReplay ---------------------------
(***************************************************************************)
(* A network card, an interface of any type and a VLAN that may be in it.  *)
(***************************************************************************)
EXTENDS ConfigReplay

CONSTANTS em0, x, y, a, b, g, h, v, word

MCName == {em0, x, y}
MCTypesOf == [n \in MCName |-> IF n = em0 THEN {"ethernet"}
                               ELSE IF n = y THEN {"vlan"} ELSE Types]
MCValue == {em0, x, y, a, b, g, h, v, word}
MCAddr == {a, b}
MCGroup == {g, h}
MCMtu == {1, 2}
MCCloneable == Types \ {"ethernet", "wlan", "carp"}
MCLearned == {[of |-> "route", n |-> b, fib |-> 0, shown |-> FALSE]}

Cmd(n, t, cs) == [of |-> "interface", n |-> n, as |-> t, clauses |-> cs]
Entry(o, cs) == [of |-> o, n |-> a, as |-> "unknown", clauses |-> cs]

\* All the settings of a type, with em0 for a parent or member.
Own(t) ==
  [i \in DOMAIN dispatch(t).prints |->
     LET k == dispatch(t).prints[i] IN
     Clause(k, {IF k \in {"parent", "member", "members"} THEN em0 ELSE v})]

Rich == <<Clause("inet", {a}), Clause("vrf", {1}), Clause("group", {g})>>

MCTyped ==
  {Cmd(em0, "unknown", cs) :
     cs \in {<<Clause("mtu", {2}), Clause("vrf", {1})>>,
             <<Clause("vrf", {2}), Clause("group", {g})>>,
             <<Clause("group", {h})>>, <<Clause("inet", {a})>>}}
  \cup {Cmd(x, t, Own(t)) : t \in Types \ {"ethernet"}}
  \cup {Cmd(x, t, Rich \o Own(t)) : t \in Types \ {"ethernet"}}
  \cup {Cmd(x, "unknown", Rich), Cmd(x, "unknown", <<Clause("inet", {b}), Clause("mtu", {2})>>)}
  \cup {Cmd(y, "vlan", <<Clause("vid", {v}), Clause("parent", {p})>>) : p \in {em0, x}}
  \cup {Entry("route", <<Clause("dest", {a}), Clause("nexthop", {b})>> \o cs) :
          cs \in {<<>>, <<Clause("vrf", {1})>>, <<Clause("vrf", {2})>>}}
  \cup {Entry("arp", <<Clause("ip", {a}), Clause("mac", {v})>>),
        Entry("arp", <<Clause("ip", {a}), Clause("mac", {v}), Clause("pub", {word})>>),
        Entry("ndp", <<Clause("ip", {a}), Clause("mac", {v})>>)}

=============================================================================
