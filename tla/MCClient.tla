------------------------------ MODULE MCClient ------------------------------
(***************************************************************************)
(* ClientProgram for TLC: a pair of halves, at most two interfaces at      *)
(* first, and the tables of up to 999 columns of characters.               *)
(***************************************************************************)
EXTENDS ClientProgram

\* A pair and an interface whose name says neither half of it; the interfaces
\* there are have their numbers in the order of the names.
MCNames == {"w", "wa", "wb"}
MCBase(n) == "w"
MCHalf(n) == IF n = "wb" THEN "b" ELSE "a"
MCNumber == [n \in MCNames |-> CASE n = "w" -> 1 [] n = "wa" -> 2 [] n = "wb" -> 3]
MCThere(S) ==
  {[n \in Names |->
      IF n \in S THEN [type |-> t[n], grouped |-> g[n],
                       id |-> Cardinality({m \in S : MCNumber[m] <= MCNumber[n]})]
      ELSE Gone] : t \in [S -> Kinds], g \in [S -> BOOLEAN]}
\* "w" and "wa" may change places, so of the kernels with one interface it is "w",
\* and of those with two, the two rivals for one half, or one of each half.
MCKernels == UNION {MCThere(S) : S \in {{"w"}, {"w", "wa"}, {"wa", "wb"}}}
\* The settings of an interface with an even number are zero.
MCZero(i) ==
  IF i % 2 = 0 THEN {"vrf", "metric", "baudrate", "capabilities", "flags", "mtu"} ELSE {}
MCNothing == [n \in Names |-> Gone]

\* Every table that asks for less than 1000 columns of characters, with short
\* and long lines in each of its columns.
MCInputs ==
  UNION {{[table |-> t, lengths |-> l] : l \in [DOMAIN t.columns -> {1, 39}]} :
           t \in {u \in Tables : u.maxWidth < 1000}}

\* There are interfaces for `show`, to which alone they matter.
MCInit ==
  /\ ProgramInit(MCKernels \cup {MCNothing})
  /\ subject = "show" <=> kernel # MCNothing

MCSpec == MCInit /\ [][ProgramNext(MCInputs)]_programVars

=============================================================================
