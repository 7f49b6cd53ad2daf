----------------------------- MODULE TableLayout -----------------------------
(***************************************************************************)
(* How renderTable finds the widths of the columns of a table: as wide as  *)
(* their longest line, and if that is too wide for the page, narrower by   *)
(* one in turn, those of low priority first, until it fits or no column is *)
(* above its least width.  The cells themselves, and the order of the rows,*)
(* do not matter to it.                                                    *)
(***************************************************************************)
EXTENDS Formatters, Integers

VARIABLES
  table,    \* the table: a Format
  natural,  \* column |-> its longest line, title included
  widths,   \* column |-> its width
  total,    \* of the columns and the spaces between them
  done,     \* columns this pass has been at
  reduced,  \* this pass has made one narrower
  state     \* "empty", "shrink" or "print"

layoutVars == <<table, natural, widths, total, done, reduced, state>>

Cols(t) == DOMAIN t.columns
Larger(a, b) == IF a >= b THEN a ELSE b

\* addColumn.
addColumn(c) == [c EXCEPT !.minWidth = Larger(1, c.minWidth)]

\* The order in which columns give way.
Before(i, j) ==
  LET p == table.columns[i].priority
      q == table.columns[j].priority
  IN p < q \/ (p = q /\ i < j)

\* Mutant: the most important columns keep their width.
MinWidthFirm(i) ==
  IF table.columns[i].priority >= 6 THEN natural[i] ELSE addColumn(table.columns[i]).minWidth
\* Mutant: the least width is passed by one.
MinWidthPassed(i) == addColumn(table.columns[i]).minWidth - 1

MinWidth(i) == addColumn(table.columns[i]).minWidth

\* std::accumulate over the first i columns, for each i.
accumulate(w) ==
  LET sum[i \in 0..Len(w)] == IF i = 0 THEN 0 ELSE sum[i - 1] + w[i] IN sum
totalWidth(w) == accumulate(w)[Len(w)] + Len(w) - 1

-----------------------------------------------------------------------------

\* A table t whose cells in column i have at most lengths[i] characters in a line.
Measure(t, lengths) ==
  LET w == [i \in Cols(t) |-> Larger(t.columns[i].title, lengths[i])] IN
  /\ state = "empty"
  /\ table' = t
  /\ natural' = w /\ widths' = w
  /\ total' = totalWidth(w)
  /\ done' = {} /\ reduced' = FALSE
  /\ state' = "shrink"

\* Mutant: the column that resists most is the first.
ShrinkDescending(i) ==
  /\ state = "shrink" /\ total > table.maxWidth
  /\ i \in Cols(table) \ done
  /\ \A j \in Cols(table) \ done : j # i => Before(j, i)
  /\ IF widths[i] > MinWidth(i)
     THEN /\ widths' = [widths EXCEPT ![i] = @ - 1]
          /\ total' = total - 1
          /\ reduced' = TRUE
     ELSE UNCHANGED <<widths, total, reduced>>
  /\ done' = done \cup {i}
  /\ UNCHANGED <<table, natural, state>>

\* The next column gives way, if it can.
Shrink(i) ==
  /\ state = "shrink" /\ total > table.maxWidth
  /\ i \in Cols(table) \ done
  /\ \A j \in Cols(table) \ done : j # i => Before(i, j)
  /\ IF widths[i] > MinWidth(i)
     THEN /\ widths' = [widths EXCEPT ![i] = @ - 1]
          /\ total' = total - 1
          /\ reduced' = TRUE
     ELSE UNCHANGED <<widths, total, reduced>>
  /\ done' = done \cup {i}
  /\ UNCHANGED <<table, natural, state>>

\* All columns have had their turn, and another pass may help.
NextPass ==
  /\ state = "shrink" /\ total > table.maxWidth
  /\ done = Cols(table) /\ reduced
  /\ done' = {} /\ reduced' = FALSE
  /\ UNCHANGED <<table, natural, widths, total, state>>

Render ==
  /\ state = "shrink"
  /\ total <= table.maxWidth \/ (done = Cols(table) /\ ~reduced)
  /\ state' = "print"
  /\ UNCHANGED <<table, natural, widths, total, done, reduced>>

LayoutInit ==
  /\ table = Format(<<>>, <<>>, {}, {}, 0)
  /\ natural = <<>> /\ widths = <<>> /\ total = 0
  /\ done = {} /\ reduced = FALSE /\ state = "empty"

LayoutNext(Inputs) ==
  \/ \E x \in Inputs : Measure(x.table, x.lengths)
  \/ \E i \in Cols(table) : Shrink(i)
  \/ NextPass
  \/ Render

-----------------------------------------------------------------------------
(* Properties                                                              *)

Least(i) ==
  LET m == table.columns[i].minWidth IN IF natural[i] < m THEN natural[i] ELSE m
Loss(i) == natural[i] - widths[i]

\* Types of the state; no column is narrower than its least width unless its
\* longest line is.
LayoutTypeOK ==
  /\ state \in {"empty", "shrink", "print"}
  /\ reduced \in BOOLEAN
  /\ done \subseteq Cols(table)
  /\ natural \in [Cols(table) -> Nat] /\ widths \in [Cols(table) -> Nat]
  /\ \A i \in Cols(table) : Least(i) <= widths[i] /\ widths[i] <= natural[i]
  /\ state # "empty" => total = totalWidth(widths)

\* Every table the program has is printed within its page, and not narrower
\* than it has to be: a column gives way only as long as the table is too wide
\* (the formatters and renderTable).
TableFits ==
  state = "print" =>
    /\ total <= table.maxWidth
    /\ (\E i \in Cols(table) : Loss(i) > 0) => total = table.maxWidth

\* "higher = resist shrinking" (Column::priority): a column that could still
\* give way has given up as much as any column of a higher priority.
HigherResists ==
  \A i, j \in Cols(table) :
    /\ table.columns[i].priority < table.columns[j].priority
    /\ widths[i] > table.columns[i].minWidth
    => Loss(j) <= Loss(i)

=============================================================================
