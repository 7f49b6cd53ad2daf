-------------------------- MODULE ClientProgramProofs --------------------------
(***************************************************************************)
(* Proofs about the client program: the layout of any table with any       *)
(* cells, the completion of any line, and that both, and `show interfaces`,*)
(* do in the whole program what they do on their own.                      *)
(*                                                                         *)
(* Layout: how narrow a column can get, that a column gives way only while *)
(* the table is too wide, that a column of a higher priority resists       *)
(* longer, and that every table of the program gets into its page.  The    *)
(* argument is that renderTable takes turns: after r passes every column   *)
(* has lost r, or all it could lose, and those that were reached in the    *)
(* pass under way one more; and that a pass in which none loses anything   *)
(* has found them all at their least widths, of which the sum is known.    *)
(***************************************************************************)
EXTENDS ClientProgram, ShowInterfacesProofs, SequenceTheorems, WellFoundedInduction, TLAPS

-----------------------------------------------------------------------------
(* The sum of the widths of the columns                                    *)

\* Induction over the columns of a table: the least column of which something
\* does not hold is not the first, nor the one after one of which it holds.
LEMMA LeastOf ==
  ASSUME NEW T, T \subseteq Nat, T # {}
  PROVE  \E x \in T : \A y \in T : x <= y
<1> DEFINE R == OpToRel(<, Nat)
<1>1. IsWellFoundedOn(R, Nat)
  BY NatLessThanWellFounded
<1>2. \A x, y \in Nat : <<y, x>> \in R <=> y < x
  BY DEF OpToRel
<1> HIDE DEF R
<1>3. PICK x \in T : \A y \in T : ~ (<<y, x>> \in R)
  BY <1>1, WFMin
<1>4. \A y \in T : x <= y
  <2> SUFFICES ASSUME NEW y \in T PROVE x <= y
    OBVIOUS
  <2>1. x \in Nat /\ y \in Nat
    OBVIOUS
  <2>2. ~ (y < x)
    BY <1>2, <1>3, <2>1
  <2> QED
    BY <2>1, <2>2
<1> QED
  BY <1>4

LEMMA UpTo ==
  ASSUME NEW n \in Nat, NEW S, 0 \in S, \A i \in 1..n : i - 1 \in S => i \in S
  PROVE  0..n \subseteq S
<1> SUFFICES ASSUME (0..n) \ S # {} PROVE FALSE
  OBVIOUS
<1> DEFINE T == (0..n) \ S
<1>1. T \subseteq Nat /\ T # {}
  OBVIOUS
<1> HIDE DEF T
<1>2. PICK x \in T : \A y \in T : x <= y
  BY <1>1, LeastOf
<1>3. x \in 0..n /\ x \notin S
  BY DEF T
<1>4. x \in 1..n
  BY <1>3
<1>5. x - 1 \in T
  BY <1>3, <1>4 DEF T
<1> QED
  BY <1>2, <1>4, <1>5

\* The sums of the first n columns, one by one.
IsSum(f, w, n) == f = [i \in 0..n |-> IF i = 0 THEN 0 ELSE f[i - 1] + w[i]]

LEMMA SumExists ==
  ASSUME NEW w, NEW n \in Nat
  PROVE  \E f : IsSum(f, w, n)
<1> DEFINE S == {m \in 0..n : \E f : IsSum(f, w, m)}
<1>1. 0 \in S
  <2>1. IsSum([i \in 0..0 |-> 0], w, 0)
    BY DEF IsSum
  <2> QED
    BY <2>1
<1>2. ASSUME NEW i \in 1..n, i - 1 \in S
      PROVE  i \in S
  <2>1. PICK f : IsSum(f, w, i - 1)
    BY <1>2
  <2> DEFINE g == [j \in 0..i |-> IF j = i THEN f[i - 1] + w[i] ELSE f[j]]
  <2>2. f = [j \in 0..(i - 1) |-> IF j = 0 THEN 0 ELSE f[j - 1] + w[j]]
    BY <2>1 DEF IsSum
  <2>3. ASSUME NEW j \in 0..i
        PROVE  g[j] = IF j = 0 THEN 0 ELSE g[j - 1] + w[j]
    <3>1. CASE j = i
      <4>1. j # 0 /\ j - 1 \in 0..i /\ j - 1 # i
        BY <1>2, <3>1
      <4> QED
        BY <3>1, <4>1
    <3>2. CASE j # i /\ j # 0
      <4>1. j \in 0..(i - 1) /\ j - 1 \in 0..i /\ j - 1 # i
        BY <1>2, <3>2
      <4>2. f[j] = f[j - 1] + w[j]
        BY <2>2, <3>2, <4>1
      <4> QED
        BY <3>2, <4>1, <4>2
    <3>3. CASE j # i /\ j = 0
      <4>1. 0 \in 0..(i - 1)
        BY <1>2
      <4>2. f[0] = 0
        BY <2>2, <4>1
      <4> QED
        BY <3>3, <4>2
    <3> QED
      BY <3>1, <3>2, <3>3
  <2>4. g = [j \in 0..i |-> g[j]]
    OBVIOUS
  <2> HIDE DEF g
  <2>5. IsSum(g, w, i)
    BY <2>3, <2>4 DEF IsSum
  <2> QED
    BY <2>5
<1> HIDE DEF S
<1>3. 0..n \subseteq S
  BY <1>1, <1>2, UpTo
<1>4. n \in S
  BY <1>3
<1> QED
  BY <1>4 DEF S

\* accumulate is what its definition says.
LEMMA Accumulated ==
  ASSUME NEW w, Len(w) \in Nat
  PROVE  /\ accumulate(w)[0] = 0
         /\ \A i \in 1..Len(w) : accumulate(w)[i] = accumulate(w)[i - 1] + w[i]
<1> DEFINE A == accumulate(w)
<1>1. IsSum(A, w, Len(w))
  <2>1. \E f : IsSum(f, w, Len(w))
    BY SumExists
  <2> QED
    BY <2>1 DEF accumulate, IsSum
<1> HIDE DEF A
<1>2. A[0] = 0 /\ \A i \in 1..Len(w) : A[i] = A[i - 1] + w[i]
  BY <1>1 DEF IsSum
<1> QED
  BY <1>2 DEF A

\* The widths of n columns.
IsWidths(w, n) == n \in Nat /\ w \in [1..n -> Int] /\ Len(w) = n

LEMMA WidthsAre ==
  ASSUME NEW n \in Nat, NEW w \in [1..n -> Int]
  PROVE  IsWidths(w, n)
<1>1. w \in Seq(Int)
  BY SeqDef
<1>2. Len(w) = n
  <2>1. Len(w) \in Nat /\ DOMAIN w = 1..Len(w)
    BY <1>1, LenProperties
  <2>2. 1..Len(w) = 1..n
    BY <2>1
  <2> QED
    BY <2>1, <2>2
<1> QED
  BY <1>2 DEF IsWidths

LEMMA SumIsInt ==
  ASSUME NEW n, NEW w, IsWidths(w, n)
  PROVE  /\ \A i \in 0..n : accumulate(w)[i] \in Int
         /\ totalWidth(w) = accumulate(w)[n] + n - 1 /\ totalWidth(w) \in Int
<1> DEFINE S == {i \in 0..n : accumulate(w)[i] \in Int}
<1>1. n \in Nat /\ Len(w) = n /\ w \in [1..n -> Int]
  BY DEF IsWidths
<1>2. /\ accumulate(w)[0] = 0
      /\ \A i \in 1..n : accumulate(w)[i] = accumulate(w)[i - 1] + w[i]
  BY <1>1, Accumulated
<1>3. 0 \in S
  BY <1>1, <1>2
<1>4. ASSUME NEW i \in 1..n, i - 1 \in S PROVE i \in S
  BY <1>1, <1>2, <1>4
<1> HIDE DEF S
<1>5. 0..n \subseteq S
  BY <1>1, <1>3, <1>4, UpTo
<1>6. \A i \in 0..n : accumulate(w)[i] \in Int
  BY <1>5 DEF S
<1> QED
  BY <1>1, <1>6 DEF totalWidth

\* Of two tables with as many columns, the one with the wider columns is wider.
LEMMA WiderSum ==
  ASSUME NEW n, NEW v, NEW w, IsWidths(v, n), IsWidths(w, n), \A i \in 1..n : v[i] <= w[i]
  PROVE  totalWidth(v) <= totalWidth(w)
<1> DEFINE S == {i \in 0..n : accumulate(v)[i] <= accumulate(w)[i]}
<1>1. n \in Nat /\ Len(v) = n /\ Len(w) = n /\ v \in [1..n -> Int] /\ w \in [1..n -> Int]
  BY DEF IsWidths
<1>2. /\ accumulate(w)[0] = 0 /\ accumulate(v)[0] = 0
      /\ \A i \in 1..n : accumulate(w)[i] = accumulate(w)[i - 1] + w[i]
      /\ \A i \in 1..n : accumulate(v)[i] = accumulate(v)[i - 1] + v[i]
  BY <1>1, Accumulated
<1>3. \A i \in 0..n : accumulate(v)[i] \in Int /\ accumulate(w)[i] \in Int
  BY SumIsInt
<1>4. 0 \in S
  BY <1>1, <1>2
<1>5. ASSUME NEW i \in 1..n, i - 1 \in S PROVE i \in S
  <2>1. i - 1 \in 0..n /\ i \in 0..n /\ v[i] \in Int /\ w[i] \in Int
    BY <1>1
  <2>2. accumulate(v)[i - 1] <= accumulate(w)[i - 1]
    BY <1>5
  <2> QED
    BY <1>2, <1>3, <2>1, <2>2
<1> HIDE DEF S
<1>6. n \in S
  <2>1. 0..n \subseteq S
    BY <1>1, <1>4, <1>5, UpTo
  <2> QED
    BY <1>1, <2>1
<1>7. accumulate(v)[n] <= accumulate(w)[n] /\ accumulate(v)[n] \in Int /\ accumulate(w)[n] \in Int
  BY <1>1, <1>3, <1>6 DEF S
<1>8. /\ totalWidth(v) = accumulate(v)[n] + n - 1
      /\ totalWidth(w) = accumulate(w)[n] + n - 1
  BY SumIsInt
<1> QED
  BY <1>1, <1>7, <1>8

\* A table of which one column gives way by one is narrower by one.
LEMMA NarrowerSum ==
  ASSUME NEW n, NEW w, IsWidths(w, n), NEW k \in 1..n
  PROVE  totalWidth([w EXCEPT ![k] = @ - 1]) = totalWidth(w) - 1
<1> DEFINE v == [w EXCEPT ![k] = @ - 1]
<1>0. n \in Nat /\ w \in [1..n -> Int]
  BY DEF IsWidths
<1>1. v \in [1..n -> Int] /\ v[k] = w[k] - 1 /\ \A i \in 1..n : i # k => v[i] = w[i]
  BY <1>0
<1> HIDE DEF v
<1>2. IsWidths(v, n)
  BY <1>0, <1>1, WidthsAre
<1> DEFINE S == {i \in 0..n : accumulate(v)[i] = accumulate(w)[i] - (IF i < k THEN 0 ELSE 1)}
<1>3. n \in Nat /\ Len(v) = n /\ Len(w) = n /\ v \in [1..n -> Int] /\ w \in [1..n -> Int]
  BY <1>2 DEF IsWidths
<1>4. /\ accumulate(w)[0] = 0 /\ accumulate(v)[0] = 0
      /\ \A i \in 1..n : accumulate(w)[i] = accumulate(w)[i - 1] + w[i]
      /\ \A i \in 1..n : accumulate(v)[i] = accumulate(v)[i - 1] + v[i]
  BY <1>3, Accumulated
<1>5. \A i \in 0..n : accumulate(v)[i] \in Int /\ accumulate(w)[i] \in Int
  BY <1>2, SumIsInt
<1>6. 0 \in S
  BY <1>3, <1>4
<1>7. ASSUME NEW i \in 1..n, i - 1 \in S PROVE i \in S
  <2>1. /\ i - 1 \in 0..n /\ i \in 0..n /\ v[i] \in Int /\ w[i] \in Int
        /\ accumulate(v)[i - 1] \in Int /\ accumulate(w)[i - 1] \in Int
        /\ i \in Nat /\ k \in Nat
    BY <1>3, <1>5
  <2>2. accumulate(v)[i - 1] = accumulate(w)[i - 1] - (IF i - 1 < k THEN 0 ELSE 1)
    BY <1>7
  <2>3. /\ accumulate(w)[i] = accumulate(w)[i - 1] + w[i]
        /\ accumulate(v)[i] = accumulate(v)[i - 1] + v[i]
    BY <1>4
  <2>4. CASE i = k
    <3>1. i - 1 < k /\ ~(i < k)
      BY <2>1, <2>4
    <3> QED
      BY <1>1, <2>1, <2>2, <2>3, <2>4, <3>1
  <2>5. CASE i # k
    <3>1. (i - 1 < k) <=> (i < k)
      BY <2>1, <2>5
    <3> QED
      BY <1>1, <2>1, <2>2, <2>3, <2>5, <3>1
  <2> QED
    BY <2>4, <2>5
<1> HIDE DEF S
<1>8. n \in S
  <2>1. 0..n \subseteq S
    BY <1>3, <1>6, <1>7, UpTo
  <2> QED
    BY <1>3, <2>1
<1>9. accumulate(v)[n] = accumulate(w)[n] - 1
  <2>1. ~(n < k)
    BY <1>3
  <2> QED
    BY <1>8, <2>1 DEF S
<1>10. /\ totalWidth(v) = accumulate(v)[n] + n - 1
       /\ totalWidth(w) = accumulate(w)[n] + n - 1
       /\ accumulate(w)[n] \in Int
  <2>1. n \in 0..n
    BY <1>3
  <2> QED
    BY <1>2, <1>5, <2>1, SumIsInt
<1> QED
  BY <1>3, <1>9, <1>10 DEF v

-----------------------------------------------------------------------------
(* Tables                                                                  *)

\* What the formatters hand to renderTable: columns with a priority and a least
\* width of at least 1, and cells of some length.
IsColumn(c) == c \in [key : {c.key}, title : Nat, priority : Nat, minWidth : Nat \ {0}]
HasColumns(t) == /\ \E n \in Nat : Cols(t) = 1..n
                 /\ \A i \in Cols(t) : IsColumn(t.columns[i])
Longest(x) == [i \in Cols(x.table) |-> Larger(x.table.columns[i].title, x.lengths[i])]
Proper(x) ==
  /\ HasColumns(x.table)
  /\ x.table.maxWidth \in Nat
  /\ x.lengths \in [Cols(x.table) -> Nat]

LayoutSpec(Inputs) == LayoutInit /\ [][LayoutNext(Inputs)]_layoutVars

-----------------------------------------------------------------------------
(* The invariant                                                           *)

TypeInv ==
  /\ HasColumns(table)
  /\ table.maxWidth \in Nat
  /\ natural \in [Cols(table) -> Nat]
  /\ widths \in [Cols(table) -> Int]
  /\ total \in Int
  /\ done \subseteq Cols(table)
  /\ reduced \in BOOLEAN
  /\ state \in {"empty", "shrink", "print"}

\* A column of natural width n and least width m after r turns.
After(n, m, r) == IF n <= m THEN n ELSE Larger(m, n - r)
Turns(r, i) == IF i \in done THEN r + 1 ELSE r
InTurn(r) ==
  \A i \in Cols(table) : widths[i] = After(natural[i], MinWidth(i), Turns(r, i))

\* Columns are reached in the order in which they give way.
InOrder == \A i, j \in Cols(table) : j \in done /\ Before(i, j) => i \in done

\* A table is not made narrower than its page.
NotTooNarrow == (\E i \in Cols(table) : Loss(i) > 0) => total >= table.maxWidth

\* `total` is kept up to date.
TotalKept == state # "empty" => total = totalWidth(widths)

\* A pass that has made no column narrower has found those it was at as narrow
\* as they get; renderTable gives up after such a pass only.
GaveNothing == ~reduced => \A i \in done : widths[i] <= MinWidth(i)
GaveUp == state = "print" => total <= table.maxWidth \/ (done = Cols(table) /\ ~reduced)

LayoutInv == /\ TypeInv /\ (\E r \in Nat : InTurn(r)) /\ InOrder /\ NotTooNarrow
             /\ TotalKept /\ GaveNothing /\ GaveUp

\* A column keeps its least width, or its longest line if that is shorter, and
\* gets no wider than its longest line (renderTable).
WidthsBounded ==
  \A i \in Cols(table) : Least(i) <= widths[i] /\ widths[i] <= natural[i]

\* Of a table that is printed within its page, no column is narrower than its
\* longest line unless the page is used up (renderTable).
PageUsed ==
  state = "print" /\ total <= table.maxWidth =>
    ((\E i \in Cols(table) : Loss(i) > 0) => total = table.maxWidth)

-----------------------------------------------------------------------------
LEMMA ColumnType ==
  ASSUME TypeInv, NEW i \in Cols(table)
  PROVE  /\ table.columns[i].priority \in Nat
         /\ table.columns[i].minWidth \in Nat \ {0}
         /\ MinWidth(i) = table.columns[i].minWidth
         /\ natural[i] \in Nat /\ widths[i] \in Int
<1>1. IsColumn(table.columns[i])
  BY DEF TypeInv, HasColumns
<1>2. /\ table.columns[i].priority \in Nat
      /\ table.columns[i].minWidth \in Nat \ {0}
  BY <1>1 DEF IsColumn
<1>3. MinWidth(i) = Larger(1, table.columns[i].minWidth)
  BY <1>1 DEF MinWidth, addColumn, IsColumn, Column
<1>4. MinWidth(i) = table.columns[i].minWidth
  BY <1>2, <1>3 DEF Larger
<1>5. natural[i] \in Nat /\ widths[i] \in Int
  BY DEF TypeInv
<1> QED
  BY <1>2, <1>4, <1>5

\* Of two columns one comes first.
LEMMA BeforeOnce ==
  ASSUME TypeInv, NEW i \in Cols(table), NEW j \in Cols(table), Before(i, j)
  PROVE  ~ Before(j, i)
<1>1. i \in Int /\ j \in Int
  <2>1. PICK n \in Nat : Cols(table) = 1..n
    BY DEF TypeInv, HasColumns
  <2> QED
    BY <2>1
<1> QED
  BY <1>1, ColumnType DEF Before

\* One turn: a column above its least width loses one, another nothing.
LEMMA OneTurn ==
  ASSUME NEW n \in Nat, NEW m \in Nat \ {0}, NEW r \in Nat
  PROVE  /\ After(n, m, r) > m => After(n, m, r + 1) = After(n, m, r) - 1
         /\ After(n, m, r) <= m => After(n, m, r + 1) = After(n, m, r)
BY DEF After, Larger

\* Before its first turn a column is as wide as its longest line.
LEMMA NoTurn ==
  ASSUME NEW n \in Nat, NEW m \in Nat \ {0}
  PROVE  After(n, m, 0) = n
BY DEF After, Larger

LEMMA InitInv == LayoutInit => LayoutInv
<1> SUFFICES ASSUME LayoutInit PROVE LayoutInv
  OBVIOUS
<1>1. table.columns = <<>> /\ table.maxWidth = 0
  BY DEF LayoutInit, Format
<1>2. Cols(table) = {}
  BY <1>1 DEF Cols
<1>3. TypeInv
  <2>1. Cols(table) = 1..0
    BY <1>2
  <2>2. HasColumns(table)
    BY <1>2, <2>1 DEF HasColumns
  <2>3. natural \in [Cols(table) -> Nat] /\ widths \in [Cols(table) -> Int]
    BY <1>2 DEF LayoutInit
  <2>4. total \in Int /\ done \subseteq Cols(table) /\ table.maxWidth \in Nat
    BY <1>1 DEF LayoutInit
  <2>5. reduced \in BOOLEAN /\ state \in {"empty", "shrink", "print"}
    BY DEF LayoutInit
  <2> QED
    BY <2>2, <2>3, <2>4, <2>5 DEF TypeInv
<1>4. InTurn(0) /\ InOrder /\ NotTooNarrow
  BY <1>2 DEF InTurn, InOrder, NotTooNarrow
<1>5. TotalKept /\ GaveNothing /\ GaveUp
  BY DEF LayoutInit, TotalKept, GaveNothing, GaveUp
<1> QED
  BY <1>3, <1>4, <1>5 DEF LayoutInv

\* A table that is measured.
LEMMA MeasureInv ==
  ASSUME NEW x, Proper(x), Measure(x.table, x.lengths)
  PROVE  LayoutInv'
<1> DEFINE w == Longest(x)
<1>1. /\ table' = x.table /\ natural' = w /\ widths' = w /\ done' = {}
      /\ total' = totalWidth(w) /\ reduced' = FALSE /\ state' = "shrink"
  BY DEF Measure, Longest
<1>2. \A i \in Cols(x.table) : x.table.columns[i].title \in Nat /\ x.lengths[i] \in Nat
  BY DEF Proper, HasColumns, IsColumn
<1>3. w \in [Cols(x.table) -> Nat]
  BY <1>2 DEF Larger, Longest
<1>4. total' \in Int
  <2>1. PICK n \in Nat : Cols(x.table) = 1..n
    BY DEF Proper, HasColumns
  <2>2. w \in [1..n -> Int]
    BY <1>3, <2>1
  <2> HIDE DEF w
  <2> QED
    BY <1>1, <2>1, <2>2, WidthsAre, SumIsInt
<1>5. Cols(table)' = Cols(x.table)
  BY <1>1 DEF Cols
<1> HIDE DEF w
<1>6. TypeInv'
  <2>1. HasColumns(table)'
    BY <1>1, <1>5 DEF Proper, HasColumns
  <2>2. /\ natural' \in [Cols(table)' -> Nat] /\ widths' \in [Cols(table)' -> Int]
        /\ done' \subseteq Cols(table)' /\ table'.maxWidth \in Nat
    BY <1>1, <1>3, <1>5 DEF Proper
  <2>3. reduced' \in BOOLEAN /\ state' \in {"empty", "shrink", "print"}
    BY <1>1
  <2> QED
    BY <2>1, <2>2, <2>3, <1>4 DEF TypeInv
<1>7. InTurn(0)'
  <2> SUFFICES ASSUME NEW i \in Cols(x.table)
               PROVE  widths'[i] = After(natural'[i], MinWidth(i)', Turns(0, i)')
    BY <1>5 DEF InTurn
  <2>1. MinWidth(i)' \in Nat \ {0}
    BY <1>1 DEF MinWidth, addColumn, Larger, Proper, HasColumns, IsColumn, Column
  <2>2. Turns(0, i)' = 0
    BY <1>1 DEF Turns
  <2> QED
    BY <2>1, <2>2, <1>1, <1>3, NoTurn
<1>8. InOrder'
  BY <1>1 DEF InOrder
<1>9. NotTooNarrow'
  BY <1>1, <1>3, <1>5 DEF NotTooNarrow, Loss
<1>10. TotalKept' /\ GaveNothing' /\ GaveUp'
  BY <1>1 DEF TotalKept, GaveNothing, GaveUp
<1> QED
  BY <1>6, <1>7, <1>8, <1>9, <1>10 DEF LayoutInv

\* The column whose turn it is: afterwards those reached are still the first ones.
LEMMA ShrinkInv ==
  ASSUME LayoutInv, NEW k \in Cols(table), Shrink(k)
  PROVE  LayoutInv'
<1>1. PICK r \in Nat : InTurn(r)
  BY DEF LayoutInv
<1>2. /\ k \notin done /\ done' = done \cup {k}
      /\ total > table.maxWidth
      /\ table' = table /\ natural' = natural /\ state' = state /\ state = "shrink"
      /\ \A j \in Cols(table) \ done : j # k => Before(k, j)
  BY DEF Shrink
<1>3. /\ Cols(table)' = Cols(table)
      /\ HasColumns(table)' = HasColumns(table)
      /\ \A i : MinWidth(i)' = MinWidth(i)
      /\ \A i, j : Before(i, j)' = Before(i, j)
  BY <1>2 DEF Cols, HasColumns, MinWidth, Before
<1>4. \/ /\ widths[k] > MinWidth(k)
         /\ widths' = [widths EXCEPT ![k] = @ - 1] /\ total' = total - 1 /\ reduced' = TRUE
      \/ /\ widths[k] <= MinWidth(k)
         /\ widths' = widths /\ total' = total /\ reduced' = reduced
  <2>1. widths[k] \in Int /\ MinWidth(k) \in Nat
    BY ColumnType DEF LayoutInv
  <2> QED
    BY <2>1 DEF Shrink
<1>5. TypeInv'
  <2>1. /\ natural' \in [Cols(table)' -> Nat] /\ widths' \in [Cols(table)' -> Int]
        /\ total' \in Int
    BY <1>2, <1>3, <1>4 DEF LayoutInv, TypeInv
  <2>2. /\ HasColumns(table)' /\ done' \subseteq Cols(table)' /\ table'.maxWidth \in Nat
        /\ state' \in {"empty", "shrink", "print"}
    BY <1>2, <1>3 DEF LayoutInv, TypeInv
  <2>3. reduced' \in BOOLEAN
    BY <1>4 DEF LayoutInv, TypeInv
  <2> QED
    BY <2>1, <2>2, <2>3 DEF TypeInv
<1>6. InTurn(r)'
  <2> SUFFICES ASSUME NEW i \in Cols(table)
               PROVE  widths'[i] = After(natural[i], MinWidth(i), Turns(r, i)')
    BY <1>2, <1>3 DEF InTurn
  <2>1. natural[i] \in Nat /\ MinWidth(i) \in Nat \ {0} /\ widths \in [Cols(table) -> Int]
    BY ColumnType DEF LayoutInv, TypeInv
  <2>2. widths[i] = After(natural[i], MinWidth(i), Turns(r, i))
    BY <1>1 DEF InTurn
  <2>3. CASE i = k
    <3>1. Turns(r, i) = r /\ Turns(r, i)' = r + 1
      BY <1>2, <2>3 DEF Turns
    <3>2. widths'[i] = IF widths[i] > MinWidth(i) THEN widths[i] - 1 ELSE widths[i]
      BY <1>4, <2>1, <2>3
    <3> QED
      BY <2>1, <2>2, <3>1, <3>2, OneTurn
  <2>4. CASE i # k
    <3>1. Turns(r, i)' = Turns(r, i)
      BY <1>2, <2>4 DEF Turns
    <3>2. widths'[i] = widths[i]
      BY <1>4, <2>1, <2>4
    <3> QED
      BY <2>2, <3>1, <3>2
  <2> QED
    BY <2>3, <2>4
<1>7. InOrder'
  <2> SUFFICES ASSUME NEW i \in Cols(table), NEW j \in Cols(table),
                      j \in done \cup {k}, Before(i, j), i \notin done \cup {k}
               PROVE  FALSE
    BY <1>2, <1>3 DEF InOrder
  <2>1. CASE j \in done
    BY <2>1 DEF LayoutInv, InOrder
  <2>2. CASE j = k
    BY <2>2, <1>2, BeforeOnce DEF LayoutInv
  <2> QED
    BY <2>1, <2>2
<1>8. NotTooNarrow'
  <2>1. total \in Int /\ table.maxWidth \in Nat
    BY DEF LayoutInv, TypeInv
  <2>2. total' >= table.maxWidth
    BY <1>2, <1>4, <2>1
  <2> QED
    BY <1>2, <2>2 DEF NotTooNarrow
<1>9. TotalKept'
  <2>1. PICK n \in Nat : Cols(table) = 1..n
    BY DEF LayoutInv, TypeInv, HasColumns
  <2>2. IsWidths(widths, n) /\ k \in 1..n
    BY <2>1, WidthsAre DEF LayoutInv, TypeInv
  <2>3. total = totalWidth(widths)
    BY <1>2 DEF LayoutInv, TotalKept
  <2>4. totalWidth([widths EXCEPT ![k] = @ - 1]) = totalWidth(widths) - 1
    BY <2>2, NarrowerSum
  <2> QED
    BY <1>4, <2>3, <2>4 DEF TotalKept
<1>10. GaveNothing'
  <2> SUFFICES ASSUME ~reduced', NEW i \in done \cup {k}
               PROVE  widths'[i] <= MinWidth(i)
    BY <1>2, <1>3 DEF GaveNothing
  <2>1. widths[k] <= MinWidth(k) /\ widths' = widths /\ ~reduced
    BY <1>4
  <2> QED
    BY <2>1 DEF LayoutInv, GaveNothing
<1>11. GaveUp'
  BY <1>2 DEF GaveUp
<1> QED
  BY <1>5, <1>6, <1>7, <1>8, <1>9, <1>10, <1>11 DEF LayoutInv

\* A new pass: all columns have had one turn more.
LEMMA NextPassInv ==
  ASSUME LayoutInv, NextPass
  PROVE  LayoutInv'
<1>1. PICK r \in Nat : InTurn(r)
  BY DEF LayoutInv
<1>2. /\ done = Cols(table) /\ done' = {}
      /\ table' = table /\ natural' = natural /\ widths' = widths /\ total' = total
      /\ state = "shrink" /\ state' = state /\ reduced' = FALSE
  BY DEF NextPass
<1>3. /\ Cols(table)' = Cols(table) /\ HasColumns(table)' = HasColumns(table)
      /\ \A i : MinWidth(i)' = MinWidth(i)
  BY <1>2 DEF Cols, HasColumns, MinWidth
<1>4. TypeInv'
  BY <1>2, <1>3 DEF LayoutInv, TypeInv
<1>5. InTurn(r + 1)'
  BY <1>1, <1>2, <1>3 DEF InTurn, Turns
<1>6. InOrder' /\ NotTooNarrow'
  BY <1>2, <1>3 DEF LayoutInv, InOrder, NotTooNarrow, Loss, Before
<1>7. TotalKept' /\ GaveNothing' /\ GaveUp'
  BY <1>2 DEF LayoutInv, TotalKept, GaveNothing, GaveUp
<1> QED
  BY <1>4, <1>5, <1>6, <1>7 DEF LayoutInv

\* A table is printed.
LEMMA UnchangedInv ==
  ASSUME LayoutInv, UNCHANGED <<table, natural, widths, total, done, reduced>>,
         Render \/ UNCHANGED state
  PROVE  LayoutInv'
<1>1. PICK r \in Nat : InTurn(r)
  BY DEF LayoutInv
<1>2. InTurn(r)' /\ InOrder' /\ NotTooNarrow'
  BY <1>1 DEF LayoutInv, InTurn, Turns, InOrder, NotTooNarrow, Before, Cols, MinWidth, Loss
<1>3. TypeInv'
  BY DEF LayoutInv, TypeInv, HasColumns, Cols, Render
<1>4. TotalKept' /\ GaveNothing' /\ GaveUp'
  BY DEF LayoutInv, TotalKept, GaveNothing, GaveUp, MinWidth, Cols, Render
<1> QED
  BY <1>2, <1>3, <1>4 DEF LayoutInv

LEMMA StepInv ==
  ASSUME NEW Inputs, \A x \in Inputs : Proper(x), LayoutInv, [LayoutNext(Inputs)]_layoutVars
  PROVE  LayoutInv'
<1>1. CASE \E x \in Inputs : Measure(x.table, x.lengths)
  BY <1>1, MeasureInv
<1>2. CASE \E i \in Cols(table) : Shrink(i)
  BY <1>2, ShrinkInv
<1>3. CASE NextPass
  BY <1>3, NextPassInv
<1>4. CASE Render
  BY <1>4, UnchangedInv DEF Render
<1>5. CASE UNCHANGED layoutVars
  BY <1>5, UnchangedInv DEF layoutVars
<1> QED
  BY <1>1, <1>2, <1>3, <1>4, <1>5 DEF LayoutNext

\* Every state of a layout, of any tables with any cells, satisfies the
\* invariant.
LEMMA LayoutInvariant ==
  ASSUME NEW CONSTANT Inputs, \A x \in Inputs : Proper(x)
  PROVE  LayoutSpec(Inputs) => []LayoutInv
<1>1. LayoutInit => LayoutInv
  BY InitInv
<1>2. LayoutInv /\ [LayoutNext(Inputs)]_layoutVars => LayoutInv'
  BY StepInv
<1> QED
  BY <1>1, <1>2, PTL DEF LayoutSpec

-----------------------------------------------------------------------------
(* The theorems                                                            *)

\* What a column of which the least width is not reached has lost: a turn for
\* each pass.
LEMMA LossOf ==
  ASSUME LayoutInv, NEW r \in Nat, InTurn(r), NEW i \in Cols(table)
  PROVE  /\ Loss(i) <= Turns(r, i) /\ Loss(i) >= 0
         /\ widths[i] > MinWidth(i) => Loss(i) = Turns(r, i)
         /\ Least(i) <= widths[i]
<1>1. /\ natural[i] \in Nat /\ widths[i] \in Int
      /\ MinWidth(i) \in Nat \ {0} /\ MinWidth(i) = table.columns[i].minWidth
  BY ColumnType DEF LayoutInv
<1>2. Turns(r, i) \in Nat
  BY DEF Turns
<1>3. widths[i] = After(natural[i], MinWidth(i), Turns(r, i))
  BY DEF InTurn
<1> QED
  BY <1>1, <1>2, <1>3 DEF After, Larger, Loss, Least

LEMMA BoundedByInv == LayoutInv => WidthsBounded
<1> SUFFICES ASSUME LayoutInv, NEW i \in Cols(table)
             PROVE  Least(i) <= widths[i] /\ widths[i] <= natural[i]
  BY DEF WidthsBounded
<1>1. PICK r \in Nat : InTurn(r)
  BY DEF LayoutInv
<1>2. natural[i] \in Nat /\ widths[i] \in Int
  BY ColumnType DEF LayoutInv
<1> QED
  BY <1>1, <1>2, LossOf DEF Loss

LEMMA ResistsByInv == LayoutInv => HigherResists
<1> SUFFICES ASSUME LayoutInv, NEW i \in Cols(table), NEW j \in Cols(table),
                    table.columns[i].priority < table.columns[j].priority,
                    widths[i] > table.columns[i].minWidth
             PROVE  Loss(j) <= Loss(i)
  BY DEF HigherResists
<1>1. PICK r \in Nat : InTurn(r)
  BY DEF LayoutInv
<1>2. Loss(i) = Turns(r, i) /\ Loss(j) <= Turns(r, j)
  BY <1>1, LossOf, ColumnType DEF LayoutInv
<1>3. Before(i, j)
  BY DEF Before
<1>4. j \in done => i \in done
  BY <1>3 DEF LayoutInv, InOrder
<1>5. Turns(r, j) <= Turns(r, i)
  BY <1>4 DEF Turns
<1>6. Loss(j) \in Int /\ Turns(r, i) \in Nat /\ Turns(r, j) \in Nat
  BY ColumnType DEF LayoutInv, Loss, Turns
<1> QED
  BY <1>2, <1>5, <1>6

LEMMA UsedByInv == LayoutInv => PageUsed
BY DEF LayoutInv, TypeInv, NotTooNarrow, PageUsed

\* Of any table with any cells, no column gets narrower than its least width or
\* its longest line, and none wider than that line (renderTable).
THEOREM WidthsAreBounded ==
  ASSUME NEW CONSTANT Inputs, \A x \in Inputs : Proper(x)
  PROVE  LayoutSpec(Inputs) => []WidthsBounded
BY LayoutInvariant, BoundedByInv, PTL

\* Of any table with any cells, a column that could give way has given up as
\* much as any column of a higher priority (Column::priority, renderTable).
THEOREM HigherPriorityResists ==
  ASSUME NEW CONSTANT Inputs, \A x \in Inputs : Proper(x)
  PROVE  LayoutSpec(Inputs) => []HigherResists
BY LayoutInvariant, ResistsByInv, PTL

\* Any table that gets into its page is as wide as the page if it gave anything
\* up: no column gives way without need (renderTable).
THEOREM PageIsUsed ==
  ASSUME NEW CONSTANT Inputs, \A x \in Inputs : Proper(x)
  PROVE  LayoutSpec(Inputs) => []PageUsed
BY LayoutInvariant, UsedByInv, PTL

\* The types of a layout, with the total that is kept by subtraction
\* (renderTable).
LEMMA TypeByInv == LayoutInv => LayoutTypeOK
<1> SUFFICES ASSUME LayoutInv PROVE LayoutTypeOK
  OBVIOUS
<1>1. PICK r \in Nat : InTurn(r)
  BY DEF LayoutInv
<1>2. ASSUME NEW i \in Cols(table)
      PROVE  Least(i) <= widths[i] /\ widths[i] <= natural[i] /\ widths[i] \in Nat
  <2>1. /\ natural[i] \in Nat /\ widths[i] \in Int
        /\ MinWidth(i) \in Nat \ {0} /\ MinWidth(i) = table.columns[i].minWidth
    BY ColumnType DEF LayoutInv
  <2>2. Loss(i) >= 0 /\ Least(i) <= widths[i]
    BY <1>1, LossOf
  <2> QED
    BY <2>1, <2>2 DEF Loss, Least
<1>3. widths \in [Cols(table) -> Nat]
  BY <1>2 DEF LayoutInv, TypeInv
<1> QED
  BY <1>2, <1>3 DEF LayoutInv, TypeInv, TotalKept, LayoutTypeOK

-----------------------------------------------------------------------------
(* Every table of the program fits its page                                *)

\* The columns of a table at their least widths.
LeastWidths(t) == [i \in Cols(t) |-> t.columns[i].minWidth]
FitsPage(t) == totalWidth(LeastWidths(t)) <= t.maxWidth

HasRoom == state # "empty" => FitsPage(table)

LEMMA RoomStep ==
  ASSUME NEW Inputs, \A x \in Inputs : FitsPage(x.table),
         HasRoom, [LayoutNext(Inputs)]_layoutVars
  PROVE  HasRoom'
<1>1. CASE \E x \in Inputs : Measure(x.table, x.lengths)
  BY <1>1 DEF Measure, HasRoom
<1>2. CASE UNCHANGED table /\ (state = "empty" => state' = "empty")
  BY <1>2 DEF HasRoom
<1>3. CASE \E i \in Cols(table) : Shrink(i)
  BY <1>2, <1>3 DEF Shrink
<1>4. CASE NextPass \/ Render \/ UNCHANGED layoutVars
  BY <1>2, <1>4 DEF NextPass, Render, layoutVars
<1> QED
  BY <1>1, <1>3, <1>4 DEF LayoutNext

\* When no column gives way any more all are at their least widths, or at their
\* longest lines, and these have room.
LEMMA FitsByInv == LayoutInv /\ HasRoom => TableFits
<1> SUFFICES ASSUME LayoutInv, HasRoom, state = "print"
             PROVE  /\ total <= table.maxWidth
                    /\ (\E i \in Cols(table) : Loss(i) > 0) => total = table.maxWidth
  BY DEF TableFits
<1>1. total <= table.maxWidth
  <2> SUFFICES ASSUME done = Cols(table), ~reduced PROVE total <= table.maxWidth
    BY DEF LayoutInv, GaveUp
  <2>1. PICK n \in Nat : Cols(table) = 1..n
    BY DEF LayoutInv, TypeInv, HasColumns
  <2>2. \A i \in Cols(table) : /\ widths[i] \in Int /\ table.columns[i].minWidth \in Int
                              /\ widths[i] <= table.columns[i].minWidth
    BY ColumnType DEF LayoutInv, GaveNothing
  <2>3. widths \in [1..n -> Int]
    BY <2>1 DEF LayoutInv, TypeInv
  <2>4. LeastWidths(table) \in [1..n -> Int]
    BY <2>1, <2>2 DEF LeastWidths
  <2>5. \A i \in 1..n : widths[i] <= LeastWidths(table)[i]
    BY <2>1, <2>2 DEF LeastWidths
  <2>6. IsWidths(widths, n) /\ IsWidths(LeastWidths(table), n)
    BY <2>3, <2>4, WidthsAre
  <2>7. totalWidth(widths) <= totalWidth(LeastWidths(table))
    BY <2>5, <2>6, WiderSum
  <2>8. totalWidth(widths) \in Int /\ totalWidth(LeastWidths(table)) \in Int
    BY <2>6, SumIsInt
  <2>9. total = totalWidth(widths) /\ totalWidth(LeastWidths(table)) <= table.maxWidth
    BY DEF LayoutInv, TotalKept, HasRoom, FitsPage
  <2>10. table.maxWidth \in Nat
    BY DEF LayoutInv, TypeInv
  <2> QED
    BY <2>7, <2>8, <2>9, <2>10
<1>2. PageUsed
  BY UsedByInv
<1> QED
  BY <1>1, <1>2 DEF PageUsed

\* The sum of up to nine columns.
LEMMA NineColumns ==
  ASSUME NEW n \in 1..9, NEW w, IsWidths(w, n)
  PROVE  totalWidth(w) =
           n - 1 + w[1] + (IF n >= 2 THEN w[2] ELSE 0) + (IF n >= 3 THEN w[3] ELSE 0)
                 + (IF n >= 4 THEN w[4] ELSE 0) + (IF n >= 5 THEN w[5] ELSE 0)
                 + (IF n >= 6 THEN w[6] ELSE 0) + (IF n >= 7 THEN w[7] ELSE 0)
                 + (IF n >= 8 THEN w[8] ELSE 0) + (IF n >= 9 THEN w[9] ELSE 0)
<1> DEFINE A == accumulate(w)
<1>1. /\ A[0] = 0 /\ \A i \in 1..n : A[i] = A[i - 1] + w[i]
      /\ n \in Nat /\ w \in [1..n -> Int] /\ Len(w) = n
  BY Accumulated DEF IsWidths
<1>2. totalWidth(w) = A[n] + n - 1
  BY SumIsInt
<1> HIDE DEF A
<1>3. \A i \in 1..n : w[i] \in Int
  BY <1>1
<1>4. A[1] = w[1] /\ (n >= 2 => A[2] = A[1] + w[2]) /\ (n >= 3 => A[3] = A[2] + w[3])
  <2>1. 1 \in 1..n /\ (n >= 2 => 2 \in 1..n) /\ (n >= 3 => 3 \in 1..n)
    BY <1>1
  <2> QED
    BY <1>1, <1>3, <2>1
<1>5. n >= 4 => A[4] = A[3] + w[4]
  <2>1. n >= 4 => 4 \in 1..n
    BY <1>1
  <2>2. 4 - 1 = 3
    OBVIOUS
  <2> QED
    BY <1>1, <2>1, <2>2
<1>6. n >= 5 => A[5] = A[4] + w[5]
  <2>1. n >= 5 => 5 \in 1..n
    BY <1>1
  <2>2. 5 - 1 = 4
    OBVIOUS
  <2> QED
    BY <1>1, <2>1, <2>2
<1>7. n >= 6 => A[6] = A[5] + w[6]
  <2>1. n >= 6 => 6 \in 1..n
    BY <1>1
  <2>2. 6 - 1 = 5
    OBVIOUS
  <2> QED
    BY <1>1, <2>1, <2>2
<1>8. n >= 7 => A[7] = A[6] + w[7]
  <2>1. n >= 7 => 7 \in 1..n
    BY <1>1
  <2>2. 7 - 1 = 6
    OBVIOUS
  <2> QED
    BY <1>1, <2>1, <2>2
<1>9. n >= 8 => A[8] = A[7] + w[8]
  <2>1. n >= 8 => 8 \in 1..n
    BY <1>1
  <2>2. 8 - 1 = 7
    OBVIOUS
  <2> QED
    BY <1>1, <2>1, <2>2
<1>10. n >= 9 => A[9] = A[8] + w[9]
  <2>1. n >= 9 => 9 \in 1..n
    BY <1>1
  <2>2. 9 - 1 = 8
    OBVIOUS
  <2> QED
    BY <1>1, <2>1, <2>2
<1>11. \A i \in 1..9 : i <= n => w[i] \in Int
  BY <1>1, <1>3
<1> QED
  BY <1>2, <1>4, <1>5, <1>6, <1>7, <1>8, <1>9, <1>10, <1>11

\* A table with columns as the formatters hand them over and room for them.
IsTable(t) == HasColumns(t) /\ t.maxWidth \in Nat /\ FitsPage(t)

\* What n columns and the spaces between them take at least.
LeastTotal(n, t) ==
  n - 1 + t.columns[1].minWidth
    + (IF n >= 2 THEN t.columns[2].minWidth ELSE 0)
    + (IF n >= 3 THEN t.columns[3].minWidth ELSE 0)
    + (IF n >= 4 THEN t.columns[4].minWidth ELSE 0)
    + (IF n >= 5 THEN t.columns[5].minWidth ELSE 0)
    + (IF n >= 6 THEN t.columns[6].minWidth ELSE 0)
    + (IF n >= 7 THEN t.columns[7].minWidth ELSE 0)
    + (IF n >= 8 THEN t.columns[8].minWidth ELSE 0)
    + (IF n >= 9 THEN t.columns[9].minWidth ELSE 0)

LEMMA ColumnHas == ASSUME NEW c, IsColumn(c) PROVE c.minWidth \in Int
BY DEF IsColumn

LEMMA TableOf ==
  ASSUME NEW n \in 1..9, NEW t, t.maxWidth \in Nat, Cols(t) = 1..n,
         \A i \in 1..n : IsColumn(t.columns[i]),
         LeastTotal(n, t) <= t.maxWidth
  PROVE  IsTable(t)
<1>1. n \in Nat
  OBVIOUS
<1> DEFINE l == LeastWidths(t)
<1>2. l \in [1..n -> Int] /\ \A i \in 1..n : l[i] = t.columns[i].minWidth
  <2>1. ASSUME NEW i \in 1..n PROVE t.columns[i].minWidth \in Int
    BY ColumnHas
  <2> QED
    BY <2>1 DEF LeastWidths
<1> HIDE DEF l
<1>3. IsWidths(l, n)
  BY <1>1, <1>2, WidthsAre
<1>4. totalWidth(l) =
           n - 1 + l[1] + (IF n >= 2 THEN l[2] ELSE 0) + (IF n >= 3 THEN l[3] ELSE 0)
                 + (IF n >= 4 THEN l[4] ELSE 0) + (IF n >= 5 THEN l[5] ELSE 0)
                 + (IF n >= 6 THEN l[6] ELSE 0) + (IF n >= 7 THEN l[7] ELSE 0)
                 + (IF n >= 8 THEN l[8] ELSE 0) + (IF n >= 9 THEN l[9] ELSE 0)
  BY <1>3, NineColumns
<1>5. totalWidth(l) <= t.maxWidth
  <2>1. /\ l[1] = t.columns[1].minWidth
        /\ n >= 2 => l[2] = t.columns[2].minWidth
        /\ n >= 3 => l[3] = t.columns[3].minWidth
        /\ n >= 4 => l[4] = t.columns[4].minWidth
        /\ n >= 5 => l[5] = t.columns[5].minWidth
        /\ n >= 6 => l[6] = t.columns[6].minWidth
        /\ n >= 7 => l[7] = t.columns[7].minWidth
        /\ n >= 8 => l[8] = t.columns[8].minWidth
        /\ n >= 9 => l[9] = t.columns[9].minWidth
    <3>1. /\ 1 \in 1..n /\ (n >= 2 => 2 \in 1..n) /\ (n >= 3 => 3 \in 1..n)
          /\ (n >= 4 => 4 \in 1..n) /\ (n >= 5 => 5 \in 1..n) /\ (n >= 6 => 6 \in 1..n)
          /\ (n >= 7 => 7 \in 1..n) /\ (n >= 8 => 8 \in 1..n) /\ (n >= 9 => 9 \in 1..n)
      OBVIOUS
    <3> QED
      BY <1>2, <3>1
  <2> QED
    BY <1>4, <2>1 DEF LeastTotal
<1> QED
  BY <1>1, <1>5 DEF IsTable, HasColumns, FitsPage, l

LEMMA ColumnIs ==
  ASSUME NEW k, NEW t \in Nat, NEW p \in Nat, NEW m \in Nat \ {0}
  PROVE  IsColumn(Column(k, t, p, m)) /\ Column(k, t, p, m).minWidth = m
BY DEF IsColumn, Column

LEMMA InterfaceTableIs == IsTable(InterfaceTable)
<1> DEFINE t == InterfaceTable
<1>1. t.maxWidth = 1000 /\ Cols(t) = 1..8
  BY DEF InterfaceTable, Format, Cols
<1>2. /\ t.columns[1] = Column("index", 5, 8, 5)
      /\ t.columns[2] = Column("name", 9, 10, 9)
      /\ t.columns[3] = Column("type", 4, 9, 13)
      /\ t.columns[4] = Column("inet", 7, 10, 40)
      /\ t.columns[5] = Column("status", 6, 7, 6)
      /\ t.columns[6] = Column("mtu", 3, 5, 3)
      /\ t.columns[7] = Column("vrf", 3, 4, 3)
      /\ t.columns[8] = Column("flags", 5, 3, 5)
  BY DEF InterfaceTable, Format
<1> HIDE DEF t
<1>3. /\ IsColumn(t.columns[1]) /\ t.columns[1].minWidth = 5
      /\ IsColumn(t.columns[2]) /\ t.columns[2].minWidth = 9
      /\ IsColumn(t.columns[3]) /\ t.columns[3].minWidth = 13
      /\ IsColumn(t.columns[4]) /\ t.columns[4].minWidth = 40
      /\ IsColumn(t.columns[5]) /\ t.columns[5].minWidth = 6
      /\ IsColumn(t.columns[6]) /\ t.columns[6].minWidth = 3
      /\ IsColumn(t.columns[7]) /\ t.columns[7].minWidth = 3
      /\ IsColumn(t.columns[8]) /\ t.columns[8].minWidth = 5
  BY <1>2, ColumnIs
<1>4. \A i \in 1..8 : IsColumn(t.columns[i])
  BY <1>3
<1>5. LeastTotal(8, t) <= t.maxWidth
  BY <1>1, <1>3 DEF LeastTotal
<1>6. IsTable(t)
  BY <1>1, <1>4, <1>5, TableOf
<1> QED
  BY <1>6 DEF t

LEMMA BridgeTableIs == IsTable(BridgeTable)
<1> DEFINE t == BridgeTable
<1>1. t.maxWidth = 80 /\ Cols(t) = 1..7
  BY DEF BridgeTable, Format, Cols
<1>2. /\ t.columns[1] = Column("name", 9, 10, 4)
      /\ t.columns[2] = Column("stp", 3, 6, 3)
      /\ t.columns[3] = Column("vlanfiltering", 13, 5, 3)
      /\ t.columns[4] = Column("priority", 8, 4, 3)
      /\ t.columns[5] = Column("member", 7, 3, 6)
      /\ t.columns[6] = Column("mtu", 3, 4, 3)
      /\ t.columns[7] = Column("flags", 5, 3, 3)
  BY DEF BridgeTable, Format
<1> HIDE DEF t
<1>3. /\ IsColumn(t.columns[1]) /\ t.columns[1].minWidth = 4
      /\ IsColumn(t.columns[2]) /\ t.columns[2].minWidth = 3
      /\ IsColumn(t.columns[3]) /\ t.columns[3].minWidth = 3
      /\ IsColumn(t.columns[4]) /\ t.columns[4].minWidth = 3
      /\ IsColumn(t.columns[5]) /\ t.columns[5].minWidth = 6
      /\ IsColumn(t.columns[6]) /\ t.columns[6].minWidth = 3
      /\ IsColumn(t.columns[7]) /\ t.columns[7].minWidth = 3
  BY <1>2, ColumnIs
<1>4. \A i \in 1..7 : IsColumn(t.columns[i])
  BY <1>3
<1>5. LeastTotal(7, t) <= t.maxWidth
  BY <1>1, <1>3 DEF LeastTotal
<1>6. IsTable(t)
  BY <1>1, <1>4, <1>5, TableOf
<1> QED
  BY <1>6 DEF t

LEMMA LaggTableIs == IsTable(LaggTable)
<1> DEFINE t == LaggTable
<1>1. t.maxWidth = 80 /\ Cols(t) = 1..7
  BY DEF LaggTable, Format, Cols
<1>2. /\ t.columns[1] = Column("name", 9, 10, 4)
      /\ t.columns[2] = Column("protocol", 8, 8, 4)
      /\ t.columns[3] = Column("hash", 10, 3, 3)
      /\ t.columns[4] = Column("members", 7, 3, 6)
      /\ t.columns[5] = Column("mtu", 3, 4, 3)
      /\ t.columns[6] = Column("flags", 5, 3, 3)
      /\ t.columns[7] = Column("status", 6, 6, 6)
  BY DEF LaggTable, Format
<1> HIDE DEF t
<1>3. /\ IsColumn(t.columns[1]) /\ t.columns[1].minWidth = 4
      /\ IsColumn(t.columns[2]) /\ t.columns[2].minWidth = 4
      /\ IsColumn(t.columns[3]) /\ t.columns[3].minWidth = 3
      /\ IsColumn(t.columns[4]) /\ t.columns[4].minWidth = 6
      /\ IsColumn(t.columns[5]) /\ t.columns[5].minWidth = 3
      /\ IsColumn(t.columns[6]) /\ t.columns[6].minWidth = 3
      /\ IsColumn(t.columns[7]) /\ t.columns[7].minWidth = 6
  BY <1>2, ColumnIs
<1>4. \A i \in 1..7 : IsColumn(t.columns[i])
  BY <1>3
<1>5. LeastTotal(7, t) <= t.maxWidth
  BY <1>1, <1>3 DEF LeastTotal
<1>6. IsTable(t)
  BY <1>1, <1>4, <1>5, TableOf
<1> QED
  BY <1>6 DEF t

LEMMA VlanTableIs == IsTable(VlanTable)
<1> DEFINE t == VlanTable
<1>1. t.maxWidth = 1000 /\ Cols(t) = 1..9
  BY DEF VlanTable, Format, Cols
<1>2. /\ t.columns[1] = Column("name", 9, 10, 9)
      /\ t.columns[2] = Column("vid", 7, 9, 7)
      /\ t.columns[3] = Column("name", 4, 6, 4)
      /\ t.columns[4] = Column("parent", 6, 8, 6)
      /\ t.columns[5] = Column("pcp", 3, 4, 3)
      /\ t.columns[6] = Column("mtu", 3, 5, 3)
      /\ t.columns[7] = Column("flags", 5, 3, 5)
      /\ t.columns[8] = Column("proto", 5, 5, 5)
      /\ t.columns[9] = Column("options", 7, 2, 7)
  BY DEF VlanTable, Format
<1> HIDE DEF t
<1>3. /\ IsColumn(t.columns[1]) /\ t.columns[1].minWidth = 9
      /\ IsColumn(t.columns[2]) /\ t.columns[2].minWidth = 7
      /\ IsColumn(t.columns[3]) /\ t.columns[3].minWidth = 4
      /\ IsColumn(t.columns[4]) /\ t.columns[4].minWidth = 6
      /\ IsColumn(t.columns[5]) /\ t.columns[5].minWidth = 3
      /\ IsColumn(t.columns[6]) /\ t.columns[6].minWidth = 3
      /\ IsColumn(t.columns[7]) /\ t.columns[7].minWidth = 5
      /\ IsColumn(t.columns[8]) /\ t.columns[8].minWidth = 5
      /\ IsColumn(t.columns[9]) /\ t.columns[9].minWidth = 7
  BY <1>2, ColumnIs
<1>4. \A i \in 1..9 : IsColumn(t.columns[i])
  BY <1>3
<1>5. LeastTotal(9, t) <= t.maxWidth
  BY <1>1, <1>3 DEF LeastTotal
<1>6. IsTable(t)
  BY <1>1, <1>4, <1>5, TableOf
<1> QED
  BY <1>6 DEF t

LEMMA WlanTableIs == IsTable(WlanTable)
<1> DEFINE t == WlanTable
<1>1. t.maxWidth = 1000 /\ Cols(t) = 1..7
  BY DEF WlanTable, Format, Cols
<1>2. /\ t.columns[1] = Column("name", 9, 10, 9)
      /\ t.columns[2] = Column("ssid", 4, 9, 4)
      /\ t.columns[3] = Column("channel", 4, 6, 4)
      /\ t.columns[4] = Column("parent", 6, 8, 5)
      /\ t.columns[5] = Column("status", 6, 5, 10)
      /\ t.columns[6] = Column("authmode", 4, 6, 4)
      /\ t.columns[7] = Column("caps", 6, 4, 6)
  BY DEF WlanTable, Format
<1> HIDE DEF t
<1>3. /\ IsColumn(t.columns[1]) /\ t.columns[1].minWidth = 9
      /\ IsColumn(t.columns[2]) /\ t.columns[2].minWidth = 4
      /\ IsColumn(t.columns[3]) /\ t.columns[3].minWidth = 4
      /\ IsColumn(t.columns[4]) /\ t.columns[4].minWidth = 5
      /\ IsColumn(t.columns[5]) /\ t.columns[5].minWidth = 10
      /\ IsColumn(t.columns[6]) /\ t.columns[6].minWidth = 4
      /\ IsColumn(t.columns[7]) /\ t.columns[7].minWidth = 6
  BY <1>2, ColumnIs
<1>4. \A i \in 1..7 : IsColumn(t.columns[i])
  BY <1>3
<1>5. LeastTotal(7, t) <= t.maxWidth
  BY <1>1, <1>3 DEF LeastTotal
<1>6. IsTable(t)
  BY <1>1, <1>4, <1>5, TableOf
<1> QED
  BY <1>6 DEF t

LEMMA GifTableIs == IsTable(GifTable)
<1> DEFINE t == GifTable
<1>1. t.maxWidth = 80 /\ Cols(t) = 1..5
  BY DEF GifTable, TunnelColumns, Format, Cols
<1>2. /\ t.columns[1] = Column("name", 9, 10, 4)
      /\ t.columns[2] = Column("source", 6, 5, 6)
      /\ t.columns[3] = Column("destination", 11, 5, 6)
      /\ t.columns[4] = Column("vrf", 3, 5, 3)
      /\ t.columns[5] = Column("tunnel-vrf", 10, 4, 3)
  BY DEF GifTable, TunnelColumns, Format
<1> HIDE DEF t
<1>3. /\ IsColumn(t.columns[1]) /\ t.columns[1].minWidth = 4
      /\ IsColumn(t.columns[2]) /\ t.columns[2].minWidth = 6
      /\ IsColumn(t.columns[3]) /\ t.columns[3].minWidth = 6
      /\ IsColumn(t.columns[4]) /\ t.columns[4].minWidth = 3
      /\ IsColumn(t.columns[5]) /\ t.columns[5].minWidth = 3
  BY <1>2, ColumnIs
<1>4. \A i \in 1..5 : IsColumn(t.columns[i])
  BY <1>3
<1>5. LeastTotal(5, t) <= t.maxWidth
  BY <1>1, <1>3 DEF LeastTotal
<1>6. IsTable(t)
  BY <1>1, <1>4, <1>5, TableOf
<1> QED
  BY <1>6 DEF t

LEMMA GreTableIs == IsTable(GreTable)
<1> DEFINE t == GreTable
<1>1. t.maxWidth = 80 /\ Cols(t) = 1..5
  BY DEF GreTable, Format, Cols
<1>2. /\ t.columns[1] = Column("name", 9, 10, 4)
      /\ t.columns[2] = Column("source", 6, 5, 6)
      /\ t.columns[3] = Column("destination", 11, 5, 6)
      /\ t.columns[4] = Column("key", 3, 4, 3)
      /\ t.columns[5] = Column("vrf", 3, 5, 3)
  BY DEF GreTable, Format
<1> HIDE DEF t
<1>3. /\ IsColumn(t.columns[1]) /\ t.columns[1].minWidth = 4
      /\ IsColumn(t.columns[2]) /\ t.columns[2].minWidth = 6
      /\ IsColumn(t.columns[3]) /\ t.columns[3].minWidth = 6
      /\ IsColumn(t.columns[4]) /\ t.columns[4].minWidth = 3
      /\ IsColumn(t.columns[5]) /\ t.columns[5].minWidth = 3
  BY <1>2, ColumnIs
<1>4. \A i \in 1..5 : IsColumn(t.columns[i])
  BY <1>3
<1>5. LeastTotal(5, t) <= t.maxWidth
  BY <1>1, <1>3 DEF LeastTotal
<1>6. IsTable(t)
  BY <1>1, <1>4, <1>5, TableOf
<1> QED
  BY <1>6 DEF t

LEMMA VxlanTableIs == IsTable(VxlanTable)
<1> DEFINE t == VxlanTable
<1>1. t.maxWidth = 80 /\ Cols(t) = 1..5
  BY DEF VxlanTable, Format, Cols
<1>2. /\ t.columns[1] = Column("name", 9, 10, 4)
      /\ t.columns[2] = Column("vni", 3, 5, 3)
      /\ t.columns[3] = Column("local", 5, 5, 6)
      /\ t.columns[4] = Column("remote", 6, 5, 6)
      /\ t.columns[5] = Column("vrf", 3, 5, 3)
  BY DEF VxlanTable, Format
<1> HIDE DEF t
<1>3. /\ IsColumn(t.columns[1]) /\ t.columns[1].minWidth = 4
      /\ IsColumn(t.columns[2]) /\ t.columns[2].minWidth = 3
      /\ IsColumn(t.columns[3]) /\ t.columns[3].minWidth = 6
      /\ IsColumn(t.columns[4]) /\ t.columns[4].minWidth = 6
      /\ IsColumn(t.columns[5]) /\ t.columns[5].minWidth = 3
  BY <1>2, ColumnIs
<1>4. \A i \in 1..5 : IsColumn(t.columns[i])
  BY <1>3
<1>5. LeastTotal(5, t) <= t.maxWidth
  BY <1>1, <1>3 DEF LeastTotal
<1>6. IsTable(t)
  BY <1>1, <1>4, <1>5, TableOf
<1> QED
  BY <1>6 DEF t

LEMMA CarpTableIs == IsTable(CarpTable)
<1> DEFINE t == CarpTable
<1>1. t.maxWidth = 80 /\ Cols(t) = 1..4
  BY DEF CarpTable, PlainColumns, Format, Cols
<1>2. /\ t.columns[1] = Column("name", 9, 10, 4)
      /\ t.columns[2] = Column("inet", 7, 5, 7)
      /\ t.columns[3] = Column("status", 6, 6, 6)
      /\ t.columns[4] = Column("mtu", 3, 6, 6)
  BY DEF CarpTable, PlainColumns, Format
<1> HIDE DEF t
<1>3. /\ IsColumn(t.columns[1]) /\ t.columns[1].minWidth = 4
      /\ IsColumn(t.columns[2]) /\ t.columns[2].minWidth = 7
      /\ IsColumn(t.columns[3]) /\ t.columns[3].minWidth = 6
      /\ IsColumn(t.columns[4]) /\ t.columns[4].minWidth = 6
  BY <1>2, ColumnIs
<1>4. \A i \in 1..4 : IsColumn(t.columns[i])
  BY <1>3
<1>5. LeastTotal(4, t) <= t.maxWidth
  BY <1>1, <1>3 DEF LeastTotal
<1>6. IsTable(t)
  BY <1>1, <1>4, <1>5, TableOf
<1> QED
  BY <1>6 DEF t

LEMMA LoopBackTableIs == IsTable(LoopBackTable)
<1> DEFINE t == LoopBackTable
<1>1. t.maxWidth = 80 /\ Cols(t) = 1..3
  BY DEF LoopBackTable, Format, Cols
<1>2. /\ t.columns[1] = Column("name", 9, 10, 4)
      /\ t.columns[2] = Column("inet", 7, 5, 7)
      /\ t.columns[3] = Column("status", 6, 6, 6)
  BY DEF LoopBackTable, Format
<1> HIDE DEF t
<1>3. /\ IsColumn(t.columns[1]) /\ t.columns[1].minWidth = 4
      /\ IsColumn(t.columns[2]) /\ t.columns[2].minWidth = 7
      /\ IsColumn(t.columns[3]) /\ t.columns[3].minWidth = 6
  BY <1>2, ColumnIs
<1>4. \A i \in 1..3 : IsColumn(t.columns[i])
  BY <1>3
<1>5. LeastTotal(3, t) <= t.maxWidth
  BY <1>1, <1>3 DEF LeastTotal
<1>6. IsTable(t)
  BY <1>1, <1>4, <1>5, TableOf
<1> QED
  BY <1>6 DEF t

LEMMA SixToFourTableIs == IsTable(SixToFourTable)
<1> DEFINE t == SixToFourTable
<1>1. t.maxWidth = 80 /\ Cols(t) = 1..4
  BY DEF SixToFourTable, Format, Cols
<1>2. /\ t.columns[1] = Column("name", 9, 10, 4)
      /\ t.columns[2] = Column("inet", 7, 5, 7)
      /\ t.columns[3] = Column("status", 6, 6, 6)
      /\ t.columns[4] = Column("vrf", 3, 4, 3)
  BY DEF SixToFourTable, Format
<1> HIDE DEF t
<1>3. /\ IsColumn(t.columns[1]) /\ t.columns[1].minWidth = 4
      /\ IsColumn(t.columns[2]) /\ t.columns[2].minWidth = 7
      /\ IsColumn(t.columns[3]) /\ t.columns[3].minWidth = 6
      /\ IsColumn(t.columns[4]) /\ t.columns[4].minWidth = 3
  BY <1>2, ColumnIs
<1>4. \A i \in 1..4 : IsColumn(t.columns[i])
  BY <1>3
<1>5. LeastTotal(4, t) <= t.maxWidth
  BY <1>1, <1>3 DEF LeastTotal
<1>6. IsTable(t)
  BY <1>1, <1>4, <1>5, TableOf
<1> QED
  BY <1>6 DEF t

LEMMA EpairTableIs == IsTable(EpairTable)
<1> DEFINE t == EpairTable
<1>1. t.maxWidth = 1000 /\ Cols(t) = 1..7
  BY DEF EpairTable, Format, Cols
<1>2. /\ t.columns[1] = Column("pair", 9, 12, 9)
      /\ t.columns[2] = Column("name", 7, 10, 7)
      /\ t.columns[3] = Column("vrf", 11, 6, 3)
      /\ t.columns[4] = Column("status", 14, 8, 6)
      /\ t.columns[5] = Column("name", 7, 10, 7)
      /\ t.columns[6] = Column("vrf", 11, 6, 3)
      /\ t.columns[7] = Column("status", 14, 8, 6)
  BY DEF EpairTable, Format
<1> HIDE DEF t
<1>3. /\ IsColumn(t.columns[1]) /\ t.columns[1].minWidth = 9
      /\ IsColumn(t.columns[2]) /\ t.columns[2].minWidth = 7
      /\ IsColumn(t.columns[3]) /\ t.columns[3].minWidth = 3
      /\ IsColumn(t.columns[4]) /\ t.columns[4].minWidth = 6
      /\ IsColumn(t.columns[5]) /\ t.columns[5].minWidth = 7
      /\ IsColumn(t.columns[6]) /\ t.columns[6].minWidth = 3
      /\ IsColumn(t.columns[7]) /\ t.columns[7].minWidth = 6
  BY <1>2, ColumnIs
<1>4. \A i \in 1..7 : IsColumn(t.columns[i])
  BY <1>3
<1>5. LeastTotal(7, t) <= t.maxWidth
  BY <1>1, <1>3 DEF LeastTotal
<1>6. IsTable(t)
  BY <1>1, <1>4, <1>5, TableOf
<1> QED
  BY <1>6 DEF t

LEMMA RouteTableIs == IsTable(RouteTable)
<1> DEFINE t == RouteTable
<1>1. t.maxWidth = 80 /\ Cols(t) = 1..7
  BY DEF RouteTable, Format, Cols
<1>2. /\ t.columns[1] = Column("dest", 11, 8, 10)
      /\ t.columns[2] = Column("nexthop", 7, 6, 7)
      /\ t.columns[3] = Column("author", 6, 6, 8)
      /\ t.columns[4] = Column("interface", 9, 6, 4)
      /\ t.columns[5] = Column("flags", 5, 3, 2)
      /\ t.columns[6] = Column("scope", 5, 5, 6)
      /\ t.columns[7] = Column("expire", 6, 6, 8)
  BY DEF RouteTable, Format
<1> HIDE DEF t
<1>3. /\ IsColumn(t.columns[1]) /\ t.columns[1].minWidth = 10
      /\ IsColumn(t.columns[2]) /\ t.columns[2].minWidth = 7
      /\ IsColumn(t.columns[3]) /\ t.columns[3].minWidth = 8
      /\ IsColumn(t.columns[4]) /\ t.columns[4].minWidth = 4
      /\ IsColumn(t.columns[5]) /\ t.columns[5].minWidth = 2
      /\ IsColumn(t.columns[6]) /\ t.columns[6].minWidth = 6
      /\ IsColumn(t.columns[7]) /\ t.columns[7].minWidth = 8
  BY <1>2, ColumnIs
<1>4. \A i \in 1..7 : IsColumn(t.columns[i])
  BY <1>3
<1>5. LeastTotal(7, t) <= t.maxWidth
  BY <1>1, <1>3 DEF LeastTotal
<1>6. IsTable(t)
  BY <1>1, <1>4, <1>5, TableOf
<1> QED
  BY <1>6 DEF t

LEMMA ArpTableIs == IsTable(ArpTable)
<1> DEFINE t == ArpTable
<1>1. t.maxWidth = 80 /\ Cols(t) = 1..5
  BY DEF ArpTable, Format, Cols
<1>2. /\ t.columns[1] = Column("ip", 10, 7, 10)
      /\ t.columns[2] = Column("mac", 11, 11, 17)
      /\ t.columns[3] = Column("interface", 9, 6, 4)
      /\ t.columns[4] = Column("expire", 6, 6, 8)
      /\ t.columns[5] = Column("flags", 5, 3, 2)
  BY DEF ArpTable, Format
<1> HIDE DEF t
<1>3. /\ IsColumn(t.columns[1]) /\ t.columns[1].minWidth = 10
      /\ IsColumn(t.columns[2]) /\ t.columns[2].minWidth = 17
      /\ IsColumn(t.columns[3]) /\ t.columns[3].minWidth = 4
      /\ IsColumn(t.columns[4]) /\ t.columns[4].minWidth = 8
      /\ IsColumn(t.columns[5]) /\ t.columns[5].minWidth = 2
  BY <1>2, ColumnIs
<1>4. \A i \in 1..5 : IsColumn(t.columns[i])
  BY <1>3
<1>5. LeastTotal(5, t) <= t.maxWidth
  BY <1>1, <1>3 DEF LeastTotal
<1>6. IsTable(t)
  BY <1>1, <1>4, <1>5, TableOf
<1> QED
  BY <1>6 DEF t

LEMMA NdpTableIs == IsTable(NdpTable)
<1> DEFINE t == NdpTable
<1>1. t.maxWidth = 120 /\ Cols(t) = 1..5
  BY DEF NdpTable, Format, Cols
<1>2. /\ t.columns[1] = Column("ip", 12, 12, 39)
      /\ t.columns[2] = Column("mac", 11, 11, 17)
      /\ t.columns[3] = Column("interface", 9, 6, 4)
      /\ t.columns[4] = Column("expire", 6, 6, 8)
      /\ t.columns[5] = Column("flags", 5, 3, 2)
  BY DEF NdpTable, Format
<1> HIDE DEF t
<1>3. /\ IsColumn(t.columns[1]) /\ t.columns[1].minWidth = 39
      /\ IsColumn(t.columns[2]) /\ t.columns[2].minWidth = 17
      /\ IsColumn(t.columns[3]) /\ t.columns[3].minWidth = 4
      /\ IsColumn(t.columns[4]) /\ t.columns[4].minWidth = 8
      /\ IsColumn(t.columns[5]) /\ t.columns[5].minWidth = 2
  BY <1>2, ColumnIs
<1>4. \A i \in 1..5 : IsColumn(t.columns[i])
  BY <1>3
<1>5. LeastTotal(5, t) <= t.maxWidth
  BY <1>1, <1>3 DEF LeastTotal
<1>6. IsTable(t)
  BY <1>1, <1>4, <1>5, TableOf
<1> QED
  BY <1>6 DEF t

LEMMA PolicyTableIs == IsTable(PolicyTable)
<1> DEFINE t == PolicyTable
<1>1. t.maxWidth = 120 /\ Cols(t) = 1..6
  BY DEF PolicyTable, Format, Cols
<1>2. /\ t.columns[1] = Column("acl", 3, 3, 5)
      /\ t.columns[2] = Column("seq", 3, 3, 5)
      /\ t.columns[3] = Column("action", 6, 4, 6)
      /\ t.columns[4] = Column("source", 6, 6, 18)
      /\ t.columns[5] = Column("destination", 11, 6, 18)
      /\ t.columns[6] = Column("protocol", 8, 4, 6)
  BY DEF PolicyTable, Format
<1> HIDE DEF t
<1>3. /\ IsColumn(t.columns[1]) /\ t.columns[1].minWidth = 5
      /\ IsColumn(t.columns[2]) /\ t.columns[2].minWidth = 5
      /\ IsColumn(t.columns[3]) /\ t.columns[3].minWidth = 6
      /\ IsColumn(t.columns[4]) /\ t.columns[4].minWidth = 18
      /\ IsColumn(t.columns[5]) /\ t.columns[5].minWidth = 18
      /\ IsColumn(t.columns[6]) /\ t.columns[6].minWidth = 6
  BY <1>2, ColumnIs
<1>4. \A i \in 1..6 : IsColumn(t.columns[i])
  BY <1>3
<1>5. LeastTotal(6, t) <= t.maxWidth
  BY <1>1, <1>3 DEF LeastTotal
<1>6. IsTable(t)
  BY <1>1, <1>4, <1>5, TableOf
<1> QED
  BY <1>6 DEF t

\* Every table the program has holds columns as renderTable wants them, and at
\* their least widths they have room on its page (the formatters).
THEOREM TablesHaveRoom == \A t \in Tables : IsTable(t)
BY InterfaceTableIs, BridgeTableIs, LaggTableIs, VlanTableIs, WlanTableIs, GifTableIs,
   GreTableIs, VxlanTableIs, CarpTableIs, LoopBackTableIs, SixToFourTableIs, EpairTableIs,
   RouteTableIs, ArpTableIs, NdpTableIs, PolicyTableIs
   DEF Tables

\* A table to lay out, with the length of the longest line in each column.
IsInput(x) == x.table \in Tables /\ x.lengths \in [Cols(x.table) -> Nat]

LEMMA InputIs ==
  ASSUME NEW x, IsInput(x)
  PROVE  Proper(x) /\ FitsPage(x.table)
BY TablesHaveRoom DEF IsInput, IsTable, Proper

LEMMA RoomInvariant ==
  ASSUME NEW CONSTANT Inputs, \A x \in Inputs : IsInput(x)
  PROVE  LayoutSpec(Inputs) => [](LayoutInv /\ HasRoom)
<1>1. LayoutInit => HasRoom
  BY DEF LayoutInit, HasRoom
<1>2. HasRoom /\ [LayoutNext(Inputs)]_layoutVars => HasRoom'
  BY InputIs, RoomStep
<1>3. LayoutSpec(Inputs) => []LayoutInv
  BY InputIs, LayoutInvariant
<1> QED
  BY <1>1, <1>2, <1>3, PTL DEF LayoutSpec

\* Every table of the program, whatever its cells, is printed within its page
\* and not narrower than it has to be (the formatters and renderTable).
THEOREM TablesFit ==
  ASSUME NEW CONSTANT Inputs, \A x \in Inputs : IsInput(x)
  PROVE  LayoutSpec(Inputs) => []TableFits
BY RoomInvariant, FitsByInv, PTL

-----------------------------------------------------------------------------
(* Completion                                                              *)

CompletionSpec == CompletionInit /\ [][CompletionNext]_completionVars

KnownTypes == Themselves \cup {"loopback", ""}

\* Words behind which autoComplete offers something else than keywords.
Asking == {"type", "status", "group", "name", "member", "parent", "members",
           "stp", "protocol", "authmode"}

\* Where a keyword is expected, the word before it asks for nothing.
CompletionInv ==
  /\ known \in KnownTypes
  /\ at = "target" => last \in {"show", "set", "delete"}
  /\ meant /\ at \in {"keyword", "inet", "block"} => last \notin Asking

\* Words offered for any interface.
Common == {"inet", "address", "mtu", "vrf", "group", "up", "down", "status",
           "description", "type", "name"}

\* What is offered of a type is what its parser has.
Agree(t) ==
  /\ DOMAIN typeCompletions(t).values \subseteq {"stp", "protocol", "authmode"}
  /\ \A k \in DOMAIN typeCompletions(t).values :
       typeCompletions(t).values[k] \cap Asking = {}
  /\ ParsedKeywords(t) \subseteq typeCompletions(t).keywords
  /\ typeCompletions(t).keywords \subseteq
       ParsedKeywords(t) \cup UNION {Inside(k) : k \in ParsedKeywords(t)}
  /\ typeCompletions(t).keywords \cap Common = {}

LEMMA NoneAgrees ==
  ASSUME NEW t, typeCompletions(t) = noCompletions, ParsedKeywords(t) = {}
  PROVE  Agree(t)
BY DEF Agree, noCompletions, Offers, NoValues

LEMMA BridgeAgrees == Agree("bridge")
<1>1. typeCompletions("bridge") = bridgeCompletions
  BY DEF typeCompletions
<1>2. ParsedKeywords("bridge") = {"member", "stp", "priority"}
  BY DEF ParsedKeywords, dispatch, BridgeToken, Token
<1> QED
  BY <1>1, <1>2 DEF Agree, bridgeCompletions, Offers, Asking, Common

LEMMA LaggAgrees == Agree("lagg")
<1>1. typeCompletions("lagg") = laggCompletions
  BY DEF typeCompletions
<1>2. ParsedKeywords("lagg") = {"lagg", "protocol"}
  BY DEF ParsedKeywords
<1>3. Inside("lagg") = {"members", "protocol"}
  BY DEF Inside
<1> QED
  BY <1>1, <1>2, <1>3 DEF Agree, laggCompletions, Offers, Asking, Common

LEMMA VlanAgrees == Agree("vlan")
<1>1. typeCompletions("vlan") = vlanCompletions
  BY DEF typeCompletions
<1>2. ParsedKeywords("vlan") = {"vid", "parent", "pcp", "vlan"}
  BY DEF ParsedKeywords, dispatch, VlanToken, Token
<1> QED
  BY <1>1, <1>2 DEF Agree, vlanCompletions, Offers, NoValues, Asking, Common

LEMMA IpsecAgrees == Agree("ipsec")
<1>1. typeCompletions("ipsec") = ipsecCompletions
  BY DEF typeCompletions
<1>2. ParsedKeywords("ipsec") = {"source", "destination", "tunnel-vrf", "reqid", "sa", "sp"}
  BY DEF ParsedKeywords, dispatch, IpsecToken, Endpoints, Token
<1> QED
  BY <1>1, <1>2 DEF Agree, ipsecCompletions, Offers, NoValues, Asking, Common

LEMMA TunAgrees == Agree("tun")
<1>1. typeCompletions("tun") = tunCompletions
  BY DEF typeCompletions
<1>2. ParsedKeywords("tun") = {"source", "destination", "tunnel-vrf"}
  BY DEF ParsedKeywords, dispatch, TunToken, Endpoints, Token
<1> QED
  BY <1>1, <1>2 DEF Agree, tunCompletions, Offers, NoValues, Asking, Common

LEMMA GifAgrees == Agree("gif")
<1>1. typeCompletions("gif") = gifCompletions
  BY DEF typeCompletions
<1>2. ParsedKeywords("gif") = {"source", "destination", "tunnel-vrf"}
  BY DEF ParsedKeywords, dispatch, GifToken, TunToken, Endpoints, Token
<1> QED
  BY <1>1, <1>2 DEF Agree, gifCompletions, Offers, NoValues, Asking, Common

LEMMA OvpnAgrees == Agree("ovpn")
<1>1. typeCompletions("ovpn") = ovpnCompletions
  BY DEF typeCompletions
<1>2. ParsedKeywords("ovpn") = {"source", "destination", "tunnel-vrf"}
  BY DEF ParsedKeywords, dispatch, OvpnToken, TunToken, Endpoints, Token
<1> QED
  BY <1>1, <1>2 DEF Agree, ovpnCompletions, Offers, NoValues, Asking, Common

LEMMA GreAgrees == Agree("gre")
<1>1. typeCompletions("gre") = greCompletions
  BY DEF typeCompletions
<1>2. ParsedKeywords("gre") = {"source", "destination", "key"}
  BY DEF ParsedKeywords, dispatch, GreToken, Endpoints, Token
<1> QED
  BY <1>1, <1>2 DEF Agree, greCompletions, Offers, NoValues, Asking, Common

LEMMA VxlanAgrees == Agree("vxlan")
<1>1. typeCompletions("vxlan") = vxlanCompletions
  BY DEF typeCompletions
<1>2. ParsedKeywords("vxlan") = {"vni", "local", "remote", "port"}
  BY DEF ParsedKeywords, dispatch, VxlanToken, Token
<1> QED
  BY <1>1, <1>2 DEF Agree, vxlanCompletions, Offers, NoValues, Asking, Common

LEMMA WlanAgrees == Agree("wlan")
<1>1. typeCompletions("wlan") = wlanCompletions
  BY DEF typeCompletions
<1>2. ParsedKeywords("wlan") = {"ssid", "channel", "parent", "authmode"}
  BY DEF ParsedKeywords, dispatch, WlanToken, Token
<1> QED
  BY <1>1, <1>2 DEF Agree, wlanCompletions, Offers, NoValues, Asking, Common

LEMMA CarpAgrees == Agree("carp")
<1>1. typeCompletions("carp") = carpCompletions
  BY DEF typeCompletions
<1>2. ParsedKeywords("carp") = {"vhid", "advskew", "advbase", "key"}
  BY DEF ParsedKeywords, dispatch, CarpToken, Token
<1> QED
  BY <1>1, <1>2 DEF Agree, carpCompletions, Offers, NoValues, Asking, Common

LEMMA WireGuardAgrees == Agree("wg")
<1>1. typeCompletions("wg") = wireGuardCompletions
  BY DEF typeCompletions
<1>2. ParsedKeywords("wg") = {"listen-port"}
  BY DEF ParsedKeywords, dispatch, WireGuardToken, Token
<1> QED
  BY <1>1, <1>2 DEF Agree, wireGuardCompletions, Offers, NoValues, Asking, Common

LEMMA OthersAgree ==
  ASSUME NEW t \in {"", "loopback", "ethernet", "ppp", "epair", "tap", "stf", "pflog", "pfsync", "enc"}
  PROVE  Agree(t)
<1>1. typeCompletions(t) = noCompletions
  BY DEF typeCompletions
<1>2. dispatch(t) = NoToken
  BY DEF dispatch, LoopbackToken, TapToken, SixToFourToken, PflogToken, PfsyncToken
<1>3. ParsedKeywords(t) = dispatch(t).takes
  BY DEF ParsedKeywords
<1>4. NoToken.takes = {}
  BY DEF NoToken, Token
<1> QED
  BY <1>1, <1>2, <1>3, <1>4, NoneAgrees

\* Of every type of interface the words offered are those its parser reads
\* (the ...Completions tables and the parser of each type).
LEMMA AllAgree == \A t \in KnownTypes : Agree(t)
BY BridgeAgrees, LaggAgrees, VlanAgrees, TunAgrees, GifAgrees, OvpnAgrees,
   GreAgrees, VxlanAgrees, WlanAgrees, CarpAgrees, WireGuardAgrees, OthersAgree
   DEF KnownTypes, Themselves

\* Behind a word that asks for nothing, the common words and those of the type.
LEMMA Looks ==
  ASSUME known \in KnownTypes, last \notin Asking
  PROVE  /\ known # "" => typeCompletions(known).keywords \subseteq autoComplete
         /\ autoComplete \subseteq Common \cup typeCompletions(known).keywords
<1>1. last \notin DOMAIN typeCompletions(known).values
  BY AllAgree DEF Agree, Asking
<1>2. autoComplete =
        IF prior = "name"
        THEN generalKeywords \cup {"type", "group"} \cup typeCompletions(known).keywords
        ELSE IF known # "" THEN generalKeywords \cup typeCompletions(known).keywords
        ELSE IF hasName THEN generalKeywords \cup {"type", "group"}
        ELSE {"name", "group", "type"}
  BY <1>1 DEF autoComplete, Asking
<1> HIDE DEF autoComplete
<1> QED
  BY <1>2 DEF generalKeywords, Common

LEMMA OffersByInv == CompletionInv => OffersFitTheType
<1> SUFFICES ASSUME CompletionInv, meant, at \in {"keyword", "inet", "block"}
             PROVE  /\ ParsedKeywords(known) \subseteq getCompletions
                    /\ getCompletions \cap TypedKeywords \subseteq
                         ParsedKeywords(known) \cup UNION {Inside(k) : k \in ParsedKeywords(known)}
  BY DEF OffersFitTheType
<1>1. known \in KnownTypes /\ last \notin Asking
  BY DEF CompletionInv
<1>2. getCompletions = autoComplete
  BY DEF getCompletions
<1>3. Agree(known)
  BY <1>1, AllAgree
<1>4. known = "" => ParsedKeywords(known) = {}
  BY DEF ParsedKeywords, dispatch, NoToken, Token
<1>5. ParsedKeywords(known) \subseteq autoComplete
  BY <1>1, <1>3, <1>4, Looks DEF Agree
<1>6. Common \cap TypedKeywords = {}
  <2>1. ASSUME NEW t \in Types PROVE t \in KnownTypes \cup {"ipsec"}
    BY DEF Types, KnownTypes, Themselves
  <2>2. \A t \in Types : typeCompletions(t).keywords \cap Common = {}
    BY <2>1, AllAgree, IpsecAgrees DEF Agree
  <2> QED
    BY <2>2 DEF TypedKeywords
<1>7. autoComplete \subseteq Common \cup typeCompletions(known).keywords
  BY <1>1, Looks
<1> QED
  BY <1>2, <1>3, <1>5, <1>6, <1>7 DEF Agree

LEMMA CompletionStart == CompletionInit => CompletionInv
BY DEF CompletionInit, CompletionInv, KnownTypes

\* Where a value was expected a word the token takes as it was offered is no
\* keyword, so the next one is not taken for the value of one.
LEMMA ParseInv ==
  ASSUME CompletionInv, NEW w, Type(w),
         at \in {"verb", "target"} \cup KernelTargets,
         at = "verb" => w \in {"show", "set", "delete", "exit", "quit"},
         at = "target" => w \in SetOptions \cup ShowOptions \cup DeleteOptions
  PROVE  CompletionInv'
<1>1. parse(w) /\ last' = w /\ known' = known
  BY DEF Type, parse
<1>2. CASE at = "verb"
  BY <1>1, <1>2 DEF parse, CompletionInv
<1>3. CASE at = "target"
  <2>1. at' \in {"first", "over", "route", "arp", "ndp", "vrf", "policy"}
    BY <1>1, <1>3 DEF parse, SetOptions, ShowOptions, DeleteOptions
  <2> QED
    BY <1>1, <2>1 DEF CompletionInv
<1>4. CASE at \in KernelTargets
  BY <1>1, <1>4 DEF parse, CompletionInv, KernelTargets
<1> QED
  BY <1>2, <1>3, <1>4

LEMMA TypeFrom == \A w : interfaceTypeFromString(w) \in KnownTypes
BY DEF interfaceTypeFromString, KnownTypes

LEMMA ParseFromTokensInv ==
  ASSUME CompletionInv, NEW w, Type(w),
         at \notin {"verb", "target", "over"} \cup KernelTargets
  PROVE  CompletionInv'
<1>1. parseFromTokens(w) /\ last' = w
  BY DEF Type
<1>2. known' \in KnownTypes
  BY <1>1, TypeFrom DEF parseFromTokens, CompletionInv, KnownTypes
<1>3. at' # "target"
  BY <1>1 DEF parseFromTokens, parseKeywords
<1>4. ASSUME meant', at' \in {"keyword", "inet", "block"}
      PROVE  w \notin Asking
  <2>1. \A k \in DOMAIN typeCompletions(known).values :
          typeCompletions(known).values[k] \cap Asking = {}
    BY AllAgree DEF CompletionInv, Agree
  <2>2. \A v \in AnyName \cup Flags \cup {"inet", "lagg", "vlan", "sa", "sp"} : v \notin Asking
    BY DEF AnyName, Flags, Asking
  <2>3. CASE at \in {"first", "type", "group"}
    BY <1>1, <1>4, <2>3 DEF parseFromTokens
  <2>4. CASE at \in {"typed", "name"}
    BY <1>1, <1>4, <2>2, <2>4 DEF parseFromTokens
  <2>5. CASE at = "value"
    BY <1>1, <1>4, <2>1, <2>2, <2>5 DEF parseFromTokens
  <2>6. CASE at = "blockvalue"
    BY <1>1, <1>4, <2>1, <2>2, <2>6 DEF parseFromTokens
  <2>7. CASE at \notin {"first", "type", "group", "typed", "name", "value", "blockvalue"}
    <3>1. at' = parseKeywords(w)
      BY <1>1, <2>7 DEF parseFromTokens
    <3>2. Inside(w) # {} => w \in {"lagg", "vlan", "sa", "sp"}
      BY DEF Inside
    <3>3. w \in Flags \cup {"inet", "lagg", "vlan", "sa", "sp"}
      BY <1>4, <3>1, <3>2 DEF parseKeywords
    <3> QED
      BY <2>2, <3>3
  <2> QED
    BY <2>3, <2>4, <2>5, <2>6, <2>7
<1> QED
  BY <1>1, <1>2, <1>3, <1>4 DEF CompletionInv

LEMMA CompletionStep == CompletionInv /\ [CompletionNext]_completionVars => CompletionInv'
<1> SUFFICES ASSUME CompletionInv, [CompletionNext]_completionVars PROVE CompletionInv'
  OBVIOUS
<1>1. ASSUME NEW w, Type(w),
             at = "verb" => w \in {"show", "set", "delete", "exit", "quit"},
             at = "target" => w \in SetOptions \cup ShowOptions \cup DeleteOptions
      PROVE  CompletionInv'
  <2>1. at # "over"
    BY <1>1 DEF Type
  <2> QED
    BY <1>1, <2>1, ParseInv, ParseFromTokensInv
<1>2. CASE Choose
  <2>1. PICK w \in getCompletions : Type(w)
    BY <1>2 DEF Choose
  <2>2. at = "verb" => w \in {"show", "set", "delete", "exit", "quit"}
    BY <2>1 DEF getCompletions
  <2>3. at = "target" => w \in SetOptions \cup ShowOptions \cup DeleteOptions
    BY <2>1 DEF getCompletions, CompletionInv
  <2> QED
    BY <1>1, <2>1, <2>2, <2>3
<1>3. CASE Enter
  <2>1. PICK w : Type(w) /\ at \notin {"verb", "target"}
    BY <1>3 DEF Enter, KernelTargets
  <2> QED
    BY <1>1, <2>1
<1>4. CASE UNCHANGED completionVars
  BY <1>4 DEF completionVars, CompletionInv
<1> QED
  BY <1>2, <1>3, <1>4 DEF CompletionNext

\* Whatever line is typed, of words offered and of names, where a keyword is
\* expected all the keywords the parser has for the type of the line are
\* offered, and none of another type (InterfaceToken::autoComplete).
THEOREM OfferedIsParsed == CompletionSpec => []OffersFitTheType
<1>1. CompletionSpec => []CompletionInv
  BY CompletionStart, CompletionStep, PTL DEF CompletionSpec
<1> QED
  BY <1>1, OffersByInv, PTL

-----------------------------------------------------------------------------
(* The whole program                                                       *)

\* Whatever command the program is at, `show interfaces`, the layout of a table,
\* the completion of a line and the NETCONF client take steps of their own or
\* none.
THEOREM ProgramRunsItsParts ==
  ASSUME NEW CONSTANT Starts, NEW CONSTANT Inputs
  PROVE  ProgramSpec(Starts, Inputs) =>
           /\ ShowSpec(Starts) /\ LayoutSpec(Inputs)
           /\ CompletionSpec /\ ClientSpec
<1>1. ProgramInit(Starts) =>
        ShowInit(Starts) /\ LayoutInit /\ CompletionInit /\ ClientInit
  BY DEF ProgramInit
<1>2. [ProgramNext(Inputs)]_programVars =>
        /\ [ShowNext]_showVars /\ [LayoutNext(Inputs)]_layoutVars
        /\ [CompletionNext]_completionVars /\ [ClientNext]_clientVars
  <2>1. ProgramNext(Inputs) =>
          /\ [ShowNext]_showVars /\ [LayoutNext(Inputs)]_layoutVars
          /\ [CompletionNext]_completionVars /\ [ClientNext]_clientVars
    BY Zenon DEF ProgramNext
  <2>2. UNCHANGED programVars =>
          /\ UNCHANGED showVars /\ UNCHANGED layoutVars
          /\ UNCHANGED completionVars /\ UNCHANGED clientVars
    BY DEF programVars
  <2> QED
    BY <2>1, <2>2
<1> QED
  BY <1>1, <1>2, PTL DEF ProgramSpec, ShowSpec, LayoutSpec, CompletionSpec,
                           ClientSpec

\* In the whole program, with any interfaces and tables with any cells, the
\* variables hold what their comments say.
THEOREM ClientTypeCorrect ==
  ASSUME NEW CONSTANT Starts \in SUBSET Booted,
         NEW CONSTANT Inputs, \A x \in Inputs : IsInput(x)
  PROVE  ProgramSpec(Starts, Inputs) => []ClientTypeOK
<1>1. ShowSpec(Starts) => []ShowTypeOK
  BY ShowTypeCorrect
<1>2. LayoutSpec(Inputs) => []LayoutTypeOK
  BY RoomInvariant, TypeByInv, PTL
<1>3. ShowTypeOK /\ LayoutTypeOK => ClientTypeOK
  BY DEF ClientTypeOK
<1> QED
  BY <1>1, <1>2, <1>3, ProgramRunsItsParts, PTL

=============================================================================
