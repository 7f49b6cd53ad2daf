------------------------- MODULE MCInterfaceManager -------------------------
(***************************************************************************)
(* Small instances of InterfaceManager: one interface that may be of any   *)
(* kind and, for the bridges, a second name the kernel may choose.         *)
(***************************************************************************)
EXTENDS InterfaceManager, TLC

CONSTANTS p1, p2, ifx, ify, a4, a6, g1, i4, i6, i0

\* An interface that was configured before and is down. Either address may be the
\* first.
Plain == [addrs |-> {a4, a6}, bare |-> {}, up |-> FALSE, mtu |-> 2, fib |-> 0,
          groups |-> {g1}, descr |-> 0, items |-> {}]
MCStart == {Plain}

\* A physical interface and a type without driver settings of its own; the types
\* with ports, members and settings.
MCKind == (ifx :> {"ethernet", "clone"})
MCDriverKind == (ifx :> {"bridge", "lagg", "gre", "carp", "vlan", "tunnel"})
                  @@ (ify :> {"bridge"})
MCDriverStart == {[Plain EXCEPT !.addrs = {a6}, !.groups = {}, !.fib = 1,
                                  !.descr = 1]}

Set == [n |-> ifx, typed |-> TRUE, addr |-> {}, typo |-> FALSE, group |-> {},
        mtu |-> {}, vrf |-> {}, status |-> {}, descr |-> {}, items |-> {}]
Del == [n |-> ifx, what |-> "iface", of |-> {}]

\* A typed set and an update by name, with an address that is none; everything or
\* the IPv4 addresses deleted.
MCSet ==
  {[Set EXCEPT !.addr = {a4}, !.vrf = {1}, !.group = {g1}, !.status = {FALSE}],
   [Set EXCEPT !.mtu = {1}, !.typed = FALSE, !.typo = TRUE]}
MCDel == {[Del EXCEPT !.what = "family", !.of = V4], Del}

\* Enough to run through every loop of calls: two driver settings (as tunnel
\* endpoints they are of two families, as settings of a bridge a member and a
\* parameter) and one that some saves drop.
MCDriverSet == {[Set EXCEPT !.items = {i4, i6, i0}]}
MCDriverDel == {[Del EXCEPT !.what = "group", !.of = {g1}]}

ProcSymmetry == Permutations(Proc)
=============================================================================
