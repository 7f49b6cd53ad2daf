-------------------------- MODULE LineEditorProofs --------------------------
(***************************************************************************)
(* Proofs about LineEditor for every alphabet and every bound.             *)
(***************************************************************************)
EXTENDS LineEditor, TLAPS

----------------------------------------------------------------------------
(* The calls of libedit                                                    *)

\* The parts of a line around its cursor.
LEMMA LineParts ==
    ASSUME NEW S, NEW L \in Line(S)
    PROVE  /\ L.text \in Seq(S) /\ L.cur \in Nat /\ L.cur <= Len(L.text)
           /\ Len(L.text) \in Nat
           /\ Left(L) \in Seq(S) /\ Len(Left(L)) = L.cur
           /\ \A i \in 1..L.cur : Left(L)[i] = L.text[i]
           /\ Right(L) \in Seq(S) /\ Len(Right(L)) = Len(L.text) - L.cur
           /\ \A i \in 1..(Len(L.text) - L.cur) :
                  Right(L)[i] = L.text[L.cur + i]
BY DEF Line, Left, Right

\* What el_insertstr leaves in the buffer.
LEMMA InsertText ==
    ASSUME NEW S, NEW L \in Line(S), NEW s \in Seq(S)
    PROVE  /\ Insertstr(L, s) \in Line(S)
           /\ Insertstr(L, s).cur = L.cur + Len(s)
           /\ Len(Insertstr(L, s).text) = Len(L.text) + Len(s)
           /\ \A i \in 1..(Len(L.text) + Len(s)) :
                  Insertstr(L, s).text[i] =
                      IF i <= L.cur THEN L.text[i]
                      ELSE IF i <= L.cur + Len(s) THEN s[i - L.cur]
                      ELSE L.text[i - Len(s)]
<1> DEFINE l == Left(L)  r == Right(L)  t == l \o s \o r
           n == Len(L.text)  k == L.cur  m == Len(s)
<1>1. /\ L.text \in Seq(S) /\ k \in Nat /\ k <= n /\ n \in Nat
      /\ l \in Seq(S) /\ Len(l) = k /\ \A i \in 1..k : l[i] = L.text[i]
      /\ r \in Seq(S) /\ Len(r) = n - k
      /\ \A i \in 1..(n - k) : r[i] = L.text[k + i]
      /\ m \in Nat
  BY LineParts
<1>2. Insertstr(L, s) = [text |-> t, cur |-> k + m]
  BY DEF Insertstr
<1>3. /\ t \in Seq(S)
      /\ Len(t) = Len(l) + Len(s) + Len(r)
      /\ \A i \in 1..(Len(l) + Len(s) + Len(r)) :
             t[i] = IF i <= Len(l) THEN l[i]
                    ELSE IF i <= Len(l) + Len(s) THEN s[i - Len(l)]
                    ELSE r[i - Len(l) - Len(s)]
  <2>1. l \in Seq(S) /\ r \in Seq(S)
    BY <1>1
  <2> HIDE DEF l, r
  <2> QED BY <2>1
<1> HIDE DEF l, r, t, n, k, m
<1>4. Len(t) = n + m
  BY <1>1, <1>3 DEF m
<1>5. ASSUME NEW i \in 1..(n + m)
      PROVE  t[i] = IF i <= k THEN L.text[i]
                    ELSE IF i <= k + m THEN s[i - k] ELSE L.text[i - m]
  <2>1. t[i] = IF i <= k THEN l[i]
               ELSE IF i <= k + m THEN s[i - k] ELSE r[i - k - m]
    <3>1. /\ Len(l) = k /\ Len(s) = m
          /\ i \in 1..(Len(l) + Len(s) + Len(r))
      BY <1>1 DEF m
    <3> QED BY <1>3, <3>1
  <2>2. CASE i <= k
    BY <1>1, <2>1, <2>2
  <2>3. CASE i > k /\ i <= k + m
    BY <1>1, <2>1, <2>3
  <2>4. CASE i > k + m
    <3>1. i - k - m \in 1..(n - k) /\ k + (i - k - m) = i - m
      BY <1>1, <2>4
    <3> QED BY <1>1, <2>1, <2>4, <3>1
  <2> QED BY <1>1, <2>2, <2>3, <2>4
<1>6. Insertstr(L, s) \in Line(S)
  BY <1>1, <1>2, <1>3, <1>4 DEF Line
<1> QED BY <1>2, <1>4, <1>5, <1>6 DEF n, k, m

\* What el_deletestr leaves when there is enough before the cursor.
LEMMA DeleteText ==
    ASSUME NEW S, NEW L \in Line(S), NEW d \in Int, d > 0, d <= L.cur
    PROVE  /\ Deletestr(L, d) \in Line(S)
           /\ Deletestr(L, d).cur = L.cur - d
           /\ Len(Deletestr(L, d).text) = Len(L.text) - d
           /\ \A i \in 1..(Len(L.text) - d) :
                  Deletestr(L, d).text[i] =
                      IF i <= L.cur - d THEN L.text[i] ELSE L.text[i + d]
<1> DEFINE l == SubSeq(L.text, 1, L.cur - d)  r == Right(L)  t == l \o r
           n == Len(L.text)  k == L.cur
<1>1. /\ L.text \in Seq(S) /\ k \in Nat /\ k <= n /\ n \in Nat
      /\ r \in Seq(S) /\ Len(r) = n - k
      /\ \A i \in 1..(n - k) : r[i] = L.text[k + i]
  BY LineParts
<1>2. Deletestr(L, d) = [text |-> t, cur |-> k - d]
  BY <1>1 DEF Deletestr
<1>3. l \in Seq(S) /\ Len(l) = k - d /\ \A i \in 1..(k - d) : l[i] = L.text[i]
  BY <1>1
<1>4. /\ t \in Seq(S)
      /\ Len(t) = Len(l) + Len(r)
      /\ \A i \in 1..(Len(l) + Len(r)) :
             t[i] = IF i <= Len(l) THEN l[i] ELSE r[i - Len(l)]
  <2>1. l \in Seq(S) /\ r \in Seq(S)
    BY <1>1, <1>3
  <2> HIDE DEF l, r
  <2> QED BY <2>1
<1>5. d <= k
  OBVIOUS
<1> HIDE DEF l, r, t, n, k
<1>6. Len(t) = n - d
  BY <1>1, <1>3, <1>4, <1>5
<1>7. ASSUME NEW i \in 1..(n - d)
      PROVE  t[i] = IF i <= k - d THEN L.text[i] ELSE L.text[i + d]
  <2>1. t[i] = IF i <= k - d THEN l[i] ELSE r[i - (k - d)]
    <3>1. Len(l) = k - d /\ i \in 1..(Len(l) + Len(r))
      BY <1>1, <1>3
    <3> QED BY <1>4, <3>1
  <2>2. CASE i <= k - d
    BY <1>1, <1>3, <1>5, <2>1, <2>2
  <2>3. CASE i > k - d
    <3>1. i - (k - d) \in 1..(n - k) /\ k + (i - (k - d)) = i + d
      BY <1>1, <1>5, <2>3
    <3> QED BY <1>1, <1>5, <2>1, <2>3, <3>1
  <2> QED BY <1>1, <1>5, <2>2, <2>3
<1>8. Deletestr(L, d) \in Line(S)
  BY <1>1, <1>2, <1>4, <1>5, <1>6 DEF Line
<1> QED BY <1>2, <1>6, <1>7, <1>8 DEF n, k

\* Two sequences with the same elements are one.
LEMMA SameElements ==
    ASSUME NEW S, NEW s \in Seq(S), NEW t \in Seq(S), Len(s) = Len(t),
           \A i \in 1..Len(s) : s[i] = t[i]
    PROVE  s = t
OBVIOUS

\* An element of a sequence, and a sequence from its elements.
LEMMA ElementOf ==
    ASSUME NEW S, NEW s \in Seq(S), NEW i \in 1..Len(s)
    PROVE  s[i] \in S
OBVIOUS

LEMMA RangedSeq ==
    ASSUME NEW S, NEW T, NEW s \in Seq(S), \A i \in 1..Len(s) : s[i] \in T
    PROVE  s \in Seq(T)
OBVIOUS

\* The three calls keep a line a line.
LEMMA LineCalls ==
    ASSUME NEW S, NEW L \in Line(S), NEW n \in Int
    PROVE  CursorBy(L, n) \in Line(S) /\ Deletestr(L, n) \in Line(S)
<1>1. CursorBy(L, n) \in Line(S)
  BY DEF CursorBy, Line
<1>2. CASE n <= 0 \/ L.cur < n
  BY <1>1, <1>2 DEF Deletestr
<1>3. CASE n > 0 /\ n <= L.cur
  BY <1>1, <1>3, DeleteText
<1> QED BY <1>2, <1>3 DEF Line

\* clearLineBuffer empties the buffer.
LEMMA ClearedBufferIsEmpty ==
    ASSUME NEW S, NEW L \in Line(S)
    PROVE  ClearedBuffer(L) = EmptyLine
BY DEF ClearedBuffer, CursorBy, Deletestr, EmptyLine, Line, Right

\* Inserting into an empty buffer leaves the string, the cursor behind it.
LEMMA InsertedAlone ==
    ASSUME NEW S, NEW s \in Seq(S)
    PROVE  Insertstr(EmptyLine, s) = LineOf(s)
BY DEF Insertstr, EmptyLine, LineOf, Left, Right

\* The inserted string is where the cursor was.
LEMMA InsertedPart ==
    ASSUME NEW S, NEW L \in Line(S), NEW s \in Seq(S)
    PROVE  SubSeq(Insertstr(L, s).text, L.cur + 1, L.cur + Len(s)) = s
<1> DEFINE t == Insertstr(L, s).text  k == L.cur  m == Len(s)
           n == Len(L.text)  u == SubSeq(t, k + 1, k + m)
<1>1. /\ t \in Seq(S) /\ Len(t) = n + m
      /\ k \in Nat /\ k <= n /\ m \in Nat /\ n \in Nat
      /\ \A i \in 1..(n + m) :
             t[i] = IF i <= k THEN L.text[i]
                    ELSE IF i <= k + m THEN s[i - k] ELSE L.text[i - m]
  BY InsertText, LineParts DEF Line
<1> HIDE DEF t, k, m, n
<1>2. /\ u \in Seq(S) /\ Len(u) = m
      /\ \A i \in 1..m : u[i] = t[k + i]
  <2>1. t \in Seq(S) /\ Len(t) = n + m /\ k \in Nat /\ m \in Nat /\ n \in Nat
        /\ k <= n
    BY <1>1
  <2> QED BY <2>1
<1>3. ASSUME NEW i \in 1..m
      PROVE  t[k + i] = s[i]
  <2>1. k + i \in 1..(n + m) /\ ~(k + i <= k) /\ k + i <= k + m
        /\ (k + i) - k = i
    BY <1>1
  <2> QED BY <1>1, <2>1
<1>4. u = s
  BY <1>2, <1>3, SameElements DEF m
<1> QED BY <1>4 DEF t, k, m

----------------------------------------------------------------------------
(* A line with a preview of p characters, and what is visible of it        *)

Exact(L, p) ==
    /\ L \in Line(Cell) /\ p \in Nat /\ p <= Len(L.text) - L.cur
    /\ \A i \in 1..Len(L.text) :
           L.text[i] = Ghost <=> i \in (L.cur + 1)..(L.cur + p)

Shown(L, p) ==
    [text |-> Left(L) \o SubSeq(L.text, L.cur + p + 1, Len(L.text)),
     cur  |-> L.cur]

\* Nothing a user can type is the mark of a preview.
LEMMA GhostIsNoChar == Ghost \notin Char /\ Space \in Char
BY CharAssumption DEF Ghost, Char, Typed, Space, Encoded, Cookie

\* The visible line is a line of characters: it skips the preview.
LEMMA ShownText ==
    ASSUME NEW L, NEW p, Exact(L, p)
    PROVE  /\ Shown(L, p) \in Line(Char)
           /\ Shown(L, p).cur = L.cur
           /\ Len(Shown(L, p).text) = Len(L.text) - p
           /\ \A i \in 1..(Len(L.text) - p) :
                  Shown(L, p).text[i] =
                      IF i <= L.cur THEN L.text[i] ELSE L.text[i + p]
<1> DEFINE k == L.cur  n == Len(L.text)
           l == Left(L)  r == SubSeq(L.text, k + p + 1, n)  t == l \o r
<1>1. /\ L.text \in Seq(Cell) /\ k \in Nat /\ n \in Nat /\ p \in Nat
      /\ p <= n - k /\ k <= n
      /\ l \in Seq(Cell) /\ Len(l) = k /\ \A i \in 1..k : l[i] = L.text[i]
  BY LineParts DEF Exact
<1>2. /\ r \in Seq(Cell) /\ Len(r) = n - k - p
      /\ \A i \in 1..(n - k - p) : r[i] = L.text[k + p + i]
  <2>1. /\ L.text \in Seq(Cell) /\ k \in Nat /\ n \in Nat /\ p \in Nat
        /\ p <= n - k /\ n = Len(L.text)
    BY <1>1
  <2> HIDE DEF n, k
  <2> QED BY <2>1
<1>3. /\ t \in Seq(Cell) /\ Len(t) = Len(l) + Len(r)
      /\ \A i \in 1..(Len(l) + Len(r)) :
             t[i] = IF i <= Len(l) THEN l[i] ELSE r[i - Len(l)]
  <2>1. l \in Seq(Cell) /\ r \in Seq(Cell)
    BY <1>1, <1>2
  <2> HIDE DEF l, r
  <2> QED BY <2>1
<1>4. Shown(L, p) = [text |-> t, cur |-> k]
  BY DEF Shown
<1>5. \A i \in 1..n : L.text[i] = Ghost <=> i \in (k + 1)..(k + p)
  BY DEF Exact
<1> HIDE DEF l, r, t, k, n
<1>6. Len(t) = n - p
  BY <1>1, <1>2, <1>3
<1>7. ASSUME NEW i \in 1..(n - p)
      PROVE  t[i] = IF i <= k THEN L.text[i] ELSE L.text[i + p]
  <2>1. t[i] = IF i <= k THEN l[i] ELSE r[i - k]
    <3>1. Len(l) = k /\ i \in 1..(Len(l) + Len(r))
      BY <1>1, <1>2
    <3> QED BY <1>3, <3>1
  <2>2. CASE i <= k
    BY <1>1, <2>1, <2>2
  <2>3. CASE i > k
    <3>1. i - k \in 1..(n - k - p) /\ k + p + (i - k) = i + p
      BY <1>1, <2>3
    <3> QED BY <1>1, <1>2, <2>1, <2>3, <3>1
  <2> QED BY <1>1, <2>2, <2>3
<1>8. ASSUME NEW i \in 1..(n - p)
      PROVE  t[i] \in Char
  <2>1. t[i] \in Cell
    <3>1. t \in Seq(Cell) /\ i \in 1..Len(t)
      BY <1>3, <1>6
    <3> QED BY <3>1
  <2>2. t[i] # Ghost
    <3>1. CASE i <= k
      BY <1>1, <1>5, <1>7, <3>1
    <3>2. CASE i > k
      <4>1. i + p \in 1..n /\ i + p \notin (k + 1)..(k + p)
        BY <1>1, <3>2
      <4>2. L.text[i + p] # Ghost
        BY <1>5, <4>1
      <4>3. t[i] = L.text[i + p]
        BY <1>1, <1>7, <3>2
      <4> QED BY <4>2, <4>3
    <3> QED BY <1>1, <3>1, <3>2
  <2> QED BY <2>1, <2>2 DEF Cell
<1>9. t \in Seq(Char)
  BY <1>3, <1>6, <1>8, RangedSeq
<1>10. Shown(L, p) \in Line(Char)
  BY <1>1, <1>4, <1>6, <1>9 DEF Line
<1> QED BY <1>4, <1>6, <1>7, <1>10 DEF k, n

\* Without a preview everything is visible.
LEMMA NothingHidden ==
    ASSUME NEW L \in Line(Char)
    PROVE  Exact(L, 0) /\ Shown(L, 0) = L
<1>1. /\ L.text \in Seq(Char) /\ L.cur \in Nat /\ L.cur <= Len(L.text)
      /\ Len(L.text) \in Nat /\ L = [text |-> L.text, cur |-> L.cur]
  BY DEF Line
<1>2. L.text \in Seq(Cell)
  BY <1>1, RangedSeq, ElementOf DEF Cell
<1>3. L \in Line(Cell)
  BY <1>1, <1>2 DEF Line
<1>4. \A i \in 1..Len(L.text) : L.text[i] # Ghost
  BY <1>1, ElementOf, GhostIsNoChar
<1>5. Exact(L, 0)
  BY <1>1, <1>3, <1>4 DEF Exact
<1>6. /\ Shown(L, 0) \in Line(Char) /\ Shown(L, 0).cur = L.cur
      /\ Len(Shown(L, 0).text) = Len(L.text)
      /\ \A i \in 1..Len(L.text) : Shown(L, 0).text[i] = L.text[i]
  <2>1. /\ Shown(L, 0) \in Line(Char) /\ Shown(L, 0).cur = L.cur
        /\ Len(Shown(L, 0).text) = Len(L.text) - 0
        /\ \A i \in 1..(Len(L.text) - 0) :
               Shown(L, 0).text[i] =
                   IF i <= L.cur THEN L.text[i] ELSE L.text[i + 0]
    BY <1>5, ShownText
  <2>2. Len(L.text) - 0 = Len(L.text)
    BY <1>1
  <2>3. ASSUME NEW i \in 1..Len(L.text)
        PROVE  Shown(L, 0).text[i] = L.text[i]
    <3>1. i + 0 = i
      OBVIOUS
    <3> QED BY <2>1, <2>2, <3>1
  <2> QED BY <2>1, <2>2, <2>3
<1>7. Shown(L, 0).text = L.text
  <2>1. Shown(L, 0).text \in Seq(Char)
    BY <1>6 DEF Line
  <2> QED BY <1>1, <1>6, <2>1, SameElements
<1> QED BY <1>1, <1>5, <1>6, <1>7 DEF Shown

\* clearPreview leaves what was visible.
LEMMA ClearedIsShown ==
    ASSUME NEW L, NEW p, Exact(L, p)
    PROVE  Shown(L, p) = IF p <= 0 THEN L ELSE Deletestr(CursorBy(L, p), p)
<1>1. /\ L \in Line(Cell) /\ p \in Nat /\ p <= Len(L.text) - L.cur
      /\ L.cur \in Nat /\ Len(L.text) \in Nat
  BY LineParts DEF Exact
<1>2. CASE p = 0
  <2>1. \A i \in 1..Len(L.text) : L.text[i] # Ghost
    BY <1>1, <1>2 DEF Exact
  <2>2. L.text \in Seq(Cell)
    BY <1>1 DEF Line
  <2>3. L.text \in Seq(Char)
    BY <2>1, <2>2, RangedSeq, ElementOf DEF Cell
  <2>4. L \in Line(Char)
    BY <1>1, <2>3 DEF Line
  <2> QED BY <1>2, <2>4, NothingHidden
<1>3. CASE p > 0
  <2> DEFINE C == CursorBy(L, p)
  <2>1. C.text = L.text /\ C.cur = L.cur + p
    BY <1>1, <1>3 DEF CursorBy
  <2> HIDE DEF C
  <2>2. ~(p <= 0 \/ C.cur < p) /\ C.cur - p = L.cur
    BY <1>1, <1>3, <2>1
  <2>3. Deletestr(C, p) =
            [text |-> SubSeq(C.text, 1, C.cur - p)
                          \o SubSeq(C.text, C.cur + 1, Len(C.text)),
             cur |-> C.cur - p]
    BY <2>2 DEF Deletestr, Right
  <2>4. Deletestr(C, p) = Shown(L, p)
    <3>1. SubSeq(C.text, 1, C.cur - p) = Left(L)
      BY <2>1, <2>2, Zenon DEF Left
    <3>2. SubSeq(C.text, C.cur + 1, Len(C.text))
              = SubSeq(L.text, L.cur + p + 1, Len(L.text))
      BY <2>1, Zenon
    <3> QED BY <2>2, <2>3, <3>1, <3>2 DEF Shown
  <2>5. ~(p <= 0)
    BY <1>1, <1>3
  <2> QED BY <2>4, <2>5 DEF C
<1> QED BY <1>1, <1>2, <1>3

\* A preview shown on a line is exactly that, and leaves the line visible.
LEMMA PreviewAdded ==
    ASSUME NEW L \in Line(Char), NEW n \in Nat
    PROVE  Exact(WithPreview(L, n), n) /\ Shown(WithPreview(L, n), n) = L
<1> DEFINE g == [i \in 1..n |-> Ghost]  I == Insertstr(L, g)
           W == WithPreview(L, n)  k == L.cur  m == Len(L.text)
<1>1. /\ L.text \in Seq(Char) /\ k \in Nat /\ k <= m /\ m \in Nat
      /\ L = [text |-> L.text, cur |-> k]
  BY DEF Line
<1>2. L \in Line(Cell) /\ \A i \in 1..m : L.text[i] # Ghost
  BY NothingHidden, GhostIsNoChar, ElementOf, <1>1 DEF Exact
<1>3. g \in Seq(Cell) /\ Len(g) = n /\ \A i \in 1..n : g[i] = Ghost
  BY DEF Cell
<1> HIDE DEF g
<1>4. /\ I \in Line(Cell) /\ I.cur = k + n /\ Len(I.text) = m + n
      /\ \A i \in 1..(m + n) :
             I.text[i] = IF i <= k THEN L.text[i]
                         ELSE IF i <= k + n THEN g[i - k]
                         ELSE L.text[i - n]
  <2>1. L \in Line(Cell) /\ g \in Seq(Cell)
    BY <1>2, <1>3
  <2>2. /\ I \in Line(Cell) /\ I.cur = k + Len(g) /\ Len(I.text) = m + Len(g)
        /\ \A i \in 1..(m + Len(g)) :
               I.text[i] = IF i <= k THEN L.text[i]
                           ELSE IF i <= k + Len(g) THEN g[i - k]
                           ELSE L.text[i - Len(g)]
    BY <2>1, InsertText
  <2>3. Len(g) = n
    BY <1>3
  <2> HIDE DEF I, k, m
  <2> QED BY <2>2, <2>3
<1>5. W = CursorBy(I, -n)
  BY DEF WithPreview, g
<1> HIDE DEF I, W, k, m
<1>6. W = [text |-> I.text, cur |-> k]
  BY <1>1, <1>4, <1>5 DEF CursorBy
<1>7. W \in Line(Cell)
  BY <1>1, <1>4, <1>6 DEF Line
<1>8. ASSUME NEW i \in 1..(m + n)
      PROVE  I.text[i] = Ghost <=> i \in (k + 1)..(k + n)
  <2>1. CASE i <= k
    BY <1>1, <1>2, <1>4, <2>1
  <2>2. CASE i > k /\ i <= k + n
    <3>1. i - k \in 1..n
      BY <1>1, <2>2
    <3> QED BY <1>1, <1>3, <1>4, <2>2, <3>1
  <2>3. CASE i > k + n
    <3>1. i - n \in 1..m
      BY <1>1, <2>3
    <3> QED BY <1>1, <1>2, <1>4, <2>3, <3>1
  <2> QED BY <1>1, <2>1, <2>2, <2>3
<1>9. Exact(W, n)
  BY <1>1, <1>4, <1>6, <1>7, <1>8 DEF Exact
<1>10. /\ Shown(W, n) \in Line(Char) /\ Shown(W, n).cur = k
       /\ Len(Shown(W, n).text) = (m + n) - n
       /\ \A i \in 1..((m + n) - n) :
              Shown(W, n).text[i] =
                  IF i <= k THEN I.text[i] ELSE I.text[i + n]
  <2>1. /\ Shown(W, n) \in Line(Char) /\ Shown(W, n).cur = W.cur
        /\ Len(Shown(W, n).text) = Len(W.text) - n
        /\ \A i \in 1..(Len(W.text) - n) :
               Shown(W, n).text[i] =
                   IF i <= W.cur THEN W.text[i] ELSE W.text[i + n]
    BY <1>9, ShownText
  <2>2. W.text = I.text /\ W.cur = k /\ Len(W.text) = m + n
    BY <1>4, <1>6
  <2> QED BY <2>1, <2>2
<1>11. ASSUME NEW i \in 1..m
       PROVE  Shown(W, n).text[i] = L.text[i]
  <2>1. i \in 1..((m + n) - n) /\ i \in 1..(m + n)
    BY <1>1
  <2>2. CASE i <= k
    BY <1>4, <1>10, <2>1, <2>2
  <2>3. CASE i > k
    <3>1. /\ i + n \in 1..(m + n) /\ ~(i + n <= k) /\ ~(i + n <= k + n)
          /\ (i + n) - n = i
      BY <1>1, <2>3
    <3>2. I.text[i + n] = L.text[i]
      BY <1>4, <3>1
    <3>3. ~(i <= k)
      BY <1>1, <2>3
    <3> QED BY <1>10, <2>1, <3>2, <3>3
  <2> QED BY <1>1, <2>2, <2>3
<1>12. Shown(W, n).text = L.text
  <2>1. Shown(W, n).text \in Seq(Char) /\ Len(Shown(W, n).text) = m
    BY <1>1, <1>10 DEF Line
  <2> QED BY <1>1, <1>11, <2>1, SameElements DEF m
<1>13. Shown(W, n) = L
  BY <1>1, <1>10, <1>12 DEF Shown
<1> QED BY <1>9, <1>13 DEF W

\* Typing before a preview types into what is visible.
LEMMA InsertedBefore ==
    ASSUME NEW L, NEW p, Exact(L, p), NEW s \in Seq(Char)
    PROVE  /\ Exact(Insertstr(L, s), p)
           /\ Shown(Insertstr(L, s), p) = Insertstr(Shown(L, p), s)
<1> DEFINE I == Insertstr(L, s)  V == Shown(L, p)  J == Insertstr(V, s)
           k == L.cur  m == Len(L.text)  n == Len(s)
<1>1. /\ L \in Line(Cell) /\ k \in Nat /\ m \in Nat /\ p \in Nat /\ n \in Nat
      /\ p <= m - k /\ k <= m
      /\ \A i \in 1..m : L.text[i] = Ghost <=> i \in (k + 1)..(k + p)
  BY LineParts DEF Exact
<1>2. s \in Seq(Cell) /\ \A i \in 1..n : s[i] # Ghost
  BY RangedSeq, ElementOf, GhostIsNoChar DEF Cell
<1>3. /\ I \in Line(Cell) /\ I.cur = k + n /\ Len(I.text) = m + n
      /\ \A i \in 1..(m + n) :
             I.text[i] = IF i <= k THEN L.text[i]
                         ELSE IF i <= k + n THEN s[i - k] ELSE L.text[i - n]
  BY <1>1, <1>2, InsertText
<1>4. /\ V \in Line(Char) /\ V.cur = k /\ Len(V.text) = m - p
      /\ \A i \in 1..(m - p) :
             V.text[i] = IF i <= k THEN L.text[i] ELSE L.text[i + p]
  BY ShownText
<1>5. /\ J \in Line(Char) /\ J.cur = k + n /\ Len(J.text) = (m - p) + n
      /\ \A i \in 1..((m - p) + n) :
             J.text[i] = IF i <= k THEN V.text[i]
                         ELSE IF i <= k + n THEN s[i - k] ELSE V.text[i - n]
  <2>1. /\ J \in Line(Char) /\ J.cur = V.cur + n
        /\ Len(J.text) = Len(V.text) + n
        /\ \A i \in 1..(Len(V.text) + n) :
               J.text[i] = IF i <= V.cur THEN V.text[i]
                           ELSE IF i <= V.cur + n THEN s[i - V.cur]
                           ELSE V.text[i - n]
    BY <1>4, InsertText
  <2>2. V.cur = k /\ Len(V.text) = m - p
    BY <1>4
  <2> QED BY <2>1, <2>2
<1> HIDE DEF I, V, J, k, m, n
<1>6. ASSUME NEW i \in 1..(m + n)
      PROVE  I.text[i] = Ghost <=> i \in (k + n + 1)..(k + n + p)
  <2>1. CASE i <= k
    <3>1. i \in 1..m /\ i \notin (k + 1)..(k + p)
      BY <1>1, <2>1
    <3> QED BY <1>1, <1>3, <2>1, <3>1
  <2>2. CASE i > k /\ i <= k + n
    <3>1. i - k \in 1..n /\ ~(i <= k)
      BY <1>1, <2>2
    <3>2. I.text[i] # Ghost
      BY <1>2, <1>3, <2>2, <3>1
    <3> QED BY <1>1, <2>2, <3>2
  <2>3. CASE i > k + n
    <3>1. i - n \in 1..m /\ ~(i <= k) /\ ~(i <= k + n)
      BY <1>1, <2>3
    <3>2. I.text[i] = L.text[i - n]
      BY <1>3, <3>1
    <3>3. L.text[i - n] = Ghost <=> i - n \in (k + 1)..(k + p)
      BY <1>1, <3>1
    <3>4. i - n \in (k + 1)..(k + p) <=> i \in (k + n + 1)..(k + n + p)
      BY <1>1
    <3> QED BY <3>2, <3>3, <3>4
  <2> QED BY <1>1, <2>1, <2>2, <2>3
<1>7. Exact(I, p)
  <2>1. p <= (m + n) - (k + n)
    BY <1>1
  <2> QED BY <1>1, <1>3, <1>6, <2>1 DEF Exact
<1> DEFINE X == Shown(I, p)
<1>8. /\ X \in Line(Char) /\ X.cur = k + n /\ Len(X.text) = (m + n) - p
      /\ \A i \in 1..((m + n) - p) :
             X.text[i] = IF i <= k + n THEN I.text[i] ELSE I.text[i + p]
  <2>1. /\ X \in Line(Char) /\ X.cur = I.cur /\ Len(X.text) = Len(I.text) - p
        /\ \A i \in 1..(Len(I.text) - p) :
               X.text[i] = IF i <= I.cur THEN I.text[i] ELSE I.text[i + p]
    BY <1>7, ShownText
  <2>2. I.cur = k + n /\ Len(I.text) = m + n
    BY <1>3
  <2> QED BY <2>1, <2>2
<1> HIDE DEF X
<1>9. ASSUME NEW i \in 1..((m + n) - p)
      PROVE  X.text[i] = J.text[i]
  <2>0. i \in 1..((m - p) + n) /\ i \in 1..(m + n)
    BY <1>1
  <2>1. CASE i <= k
    <3>1. i <= k + n /\ i \in 1..(m - p)
      BY <1>1, <2>1
    <3>2. X.text[i] = L.text[i]
      BY <1>3, <1>8, <2>0, <2>1, <3>1
    <3>3. J.text[i] = L.text[i]
      BY <1>4, <1>5, <2>0, <2>1, <3>1
    <3> QED BY <3>2, <3>3
  <2>2. CASE i > k /\ i <= k + n
    <3>1. ~(i <= k)
      BY <1>1, <2>2
    <3>2. X.text[i] = s[i - k]
      BY <1>3, <1>8, <2>0, <2>2, <3>1
    <3>3. J.text[i] = s[i - k]
      BY <1>5, <2>0, <2>2, <3>1
    <3> QED BY <3>2, <3>3
  <2>3. CASE i > k + n
    <3>1. /\ ~(i <= k) /\ ~(i <= k + n) /\ ~(i + p <= k) /\ ~(i + p <= k + n)
          /\ i + p \in 1..(m + n) /\ i - n \in 1..(m - p) /\ ~(i - n <= k)
          /\ (i + p) - n = (i - n) + p
      BY <1>1, <2>3
    <3>2. X.text[i] = I.text[i + p]
      BY <1>8, <3>1
    <3>3. I.text[i + p] = L.text[(i + p) - n]
      BY <1>3, <3>1
    <3>4. J.text[i] = V.text[i - n]
      BY <1>5, <2>0, <3>1
    <3>5. V.text[i - n] = L.text[(i - n) + p]
      BY <1>4, <3>1
    <3> QED BY <3>1, <3>2, <3>3, <3>4, <3>5
  <2> QED BY <1>1, <2>1, <2>2, <2>3
<1>10. X.text = J.text
  <2>1. /\ X.text \in Seq(Char) /\ J.text \in Seq(Char)
        /\ Len(X.text) = (m + n) - p /\ Len(J.text) = (m + n) - p
    BY <1>1, <1>5, <1>8 DEF Line
  <2> QED BY <1>9, <2>1, SameElements
<1>11. X = J
  <2>1. /\ X = [text |-> X.text, cur |-> X.cur]
        /\ J = [text |-> J.text, cur |-> J.cur]
    BY <1>5, <1>8 DEF Line
  <2> QED BY <1>5, <1>8, <1>10, <2>1
<1> QED BY <1>7, <1>11 DEF X, I, J, V

----------------------------------------------------------------------------
(* The history                                                             *)

\* A line of the history file is its first line or an encoded entry.
LEMMA FileLine ==
    ASSUME NEW S, Encoded \in S, Cookie \in Seq(S), NEW h \in Seq(Seq(S)),
           NEW i \in 1..Len(HistoryFile(h))
    PROVE  /\ HistoryFile(h)[i] \in Seq(S)
           /\ \/ HistoryFile(h)[i] = Cookie
              \/ \E j \in 1..Len(h) : HistoryFile(h)[i] = Vis(h[j])
<1> DEFINE e == [j \in 1..Len(h) |-> Vis(h[j])]
<1>1. ASSUME NEW t \in Seq(S)
      PROVE  Vis(t) \in Seq(S)
  <2>1. \A j \in 1..Len(t) : t[j] \in S
    BY ElementOf
  <2> QED BY <2>1 DEF Vis
<1>2. Len(h) \in Nat /\ \A j \in 1..Len(h) : h[j] \in Seq(S)
  BY ElementOf
<1>3. e \in Seq(Seq(S)) /\ Len(e) = Len(h)
  BY <1>1, <1>2
<1>4. CASE h = <<>>
  BY <1>4 DEF HistoryFile
<1>5. CASE h # <<>>
  <2>1. HistoryFile(h) = <<Cookie>> \o e
    BY <1>5 DEF HistoryFile
  <2>2. \A j \in 1..Len(h) : e[j] = Vis(h[j])
    OBVIOUS
  <2> HIDE DEF e
  <2>3. Len(HistoryFile(h)) = 1 + Len(h)
    BY <1>2, <1>3, <2>1
  <2>4. CASE i = 1
    <3>1. HistoryFile(h)[i] = Cookie
      BY <1>3, <2>1, <2>4
    <3> QED BY <3>1
  <2>5. CASE i # 1
    <3>1. i - 1 \in 1..Len(h)
      BY <1>2, <2>3, <2>5
    <3>2. HistoryFile(h)[i] = e[i - 1]
      BY <1>3, <2>1, <2>5, <3>1
    <3> QED BY <1>1, <1>2, <2>2, <3>1, <3>2
  <2> QED BY <2>4, <2>5
<1> QED BY <1>4, <1>5

\* The history keeps the newest entries, the last one among them.
LEMMA NewestKept ==
    ASSUME NEW S, NEW h \in Seq(S)
    PROVE  /\ Newest(h) \in Seq(S) /\ Len(Newest(h)) <= HistSize
           /\ \A i \in 1..Len(Newest(h)) :
                  \E j \in 1..Len(h) : Newest(h)[i] = h[j]
           /\ Len(h) > 0 => \E i \in 1..Len(Newest(h)) :
                                Newest(h)[i] = h[Len(h)]
<1>1. Len(h) \in Nat /\ HistSize \in Nat /\ HistSize > 0
  BY BoundAssumption
<1>2. CASE Len(h) <= HistSize
  BY <1>1, <1>2 DEF Newest
<1>3. CASE Len(h) > HistSize
  <2> DEFINE m == Len(h) - HistSize  s == SubSeq(h, m + 1, Len(h))
  <2>1. Newest(h) = s
    BY <1>1, <1>3 DEF Newest
  <2>2. /\ s \in Seq(S) /\ Len(s) = HistSize
        /\ \A i \in 1..HistSize : s[i] = h[m + i]
    BY <1>1, <1>3
  <2> HIDE DEF s
  <2>3. \A i \in 1..HistSize : m + i \in 1..Len(h)
    BY <1>1, <1>3
  <2>4. HistSize \in 1..HistSize /\ m + HistSize = Len(h)
    BY <1>1
  <2>5. \A i \in 1..HistSize : \E j \in 1..Len(h) : s[i] = h[j]
    BY <2>2, <2>3
  <2>6. s[HistSize] = h[Len(h)]
    BY <2>2, <2>4
  <2> HIDE DEF m
  <2> QED BY <1>1, <2>1, <2>2, <2>4, <2>5, <2>6
<1> QED BY <1>1, <1>2, <1>3

\* Saving a line twice keeps it, and adds nothing else.
LEMMA SavedEntries ==
    ASSUME NEW S, hist \in Seq(S), NEW s \in S
    PROVE  /\ Saved(s) \in Seq(S) /\ Len(Saved(s)) <= HistSize
           /\ \A i \in 1..Len(Saved(s)) :
                  \/ Saved(s)[i] = s
                  \/ \E j \in 1..Len(hist) : Saved(s)[i] = hist[j]
           /\ \E i \in 1..Len(Saved(s)) : Saved(s)[i] = s
<1> DEFINE h == hist \o <<s, s>>  n == Len(hist)
<1>1. /\ n \in Nat /\ h \in Seq(S) /\ Len(h) = n + 2
      /\ \A j \in 1..(n + 2) : h[j] = IF j <= n THEN hist[j] ELSE s
  OBVIOUS
<1> HIDE DEF h
<1>2. /\ Newest(h) \in Seq(S) /\ Len(Newest(h)) <= HistSize
      /\ \A i \in 1..Len(Newest(h)) :
             \E j \in 1..Len(h) : Newest(h)[i] = h[j]
      /\ Len(h) > 0 => \E i \in 1..Len(Newest(h)) :
                           Newest(h)[i] = h[Len(h)]
  BY <1>1, NewestKept
<1>3. \A j \in 1..(n + 2) : h[j] = s \/ \E k \in 1..n : h[j] = hist[k]
  BY <1>1
<1>4. h[Len(h)] = s /\ Len(h) > 0
  BY <1>1
<1> DEFINE N == Newest(h)
<1>5. Saved(s) = N
  BY DEF Saved, h
<1> HIDE DEF N, n
<1>6. ASSUME NEW i \in 1..Len(N)
      PROVE  N[i] = s \/ \E k \in 1..n : N[i] = hist[k]
  <2>1. PICK j \in 1..Len(h) : N[i] = h[j]
    BY <1>2 DEF N
  <2>2. j \in 1..(n + 2)
    BY <1>1
  <2> QED BY <1>3, <2>1, <2>2
<1>7. \E i \in 1..Len(N) : N[i] = s
  BY <1>2, <1>4 DEF N
<1>8. N \in Seq(S) /\ Len(N) <= HistSize
  BY <1>2 DEF N
<1> QED BY <1>5, <1>6, <1>7, <1>8 DEF n

----------------------------------------------------------------------------
(* Types                                                                   *)

\* The characters are cells.
LEMMA Cells ==
    /\ Letter \subseteq Cell /\ Other \subseteq Cell /\ Space \in Cell
    /\ Encoded \in Cell /\ Ghost \in Cell /\ Cookie \in Seq(Cell)
    /\ Letter \subseteq Char /\ Other \subseteq Char /\ Space \in Char
    /\ Encoded \in Char /\ Cookie \in Seq(Char) /\ Typed \subseteq Char
BY DEF Cell, Char, Typed, Cookie

\* clearPreview leaves a line of cells whatever preview_len_ is.
LEMMA ClearedType == TypeOK => Cleared \in Line(Cell)
<1>1. ASSUME TypeOK
      PROVE  line \in Line(Cell) /\ preview \in Int
  BY <1>1, BoundAssumption DEF TypeOK
<1>2. ASSUME line \in Line(Cell), preview \in Int
      PROVE  Deletestr(CursorBy(line, preview), preview) \in Line(Cell)
  BY <1>2, LineCalls
<1> QED BY <1>1, <1>2 DEF Cleared

\* So does computeAndShowPreview.
LEMMA ShowPreviewType ==
    ASSUME NEW M \in Line(Cell), ShowPreview(M)
    PROVE  line' \in Line(Cell) /\ preview' \in 0..MaxSuffix
<1>1. PICK n \in 0..MaxSuffix : line' = WithPreview(M, n) /\ preview' = n
  BY DEF ShowPreview
<1> DEFINE g == [i \in 1..n |-> Ghost]
<1>2. n \in Nat /\ g \in Seq(Cell) /\ -n \in Int
  BY Cells, BoundAssumption
<1>3. Insertstr(M, g) \in Line(Cell)
  BY <1>2, InsertText
<1>4. CursorBy(Insertstr(M, g), -n) \in Line(Cell)
  BY <1>2, <1>3, LineCalls
<1> QED BY <1>1, <1>4 DEF WithPreview

\* The keys keep every type.
LEMMA KeyType == TypeOK /\ Key => TypeOK'
<1> SUFFICES ASSUME TypeOK, Key PROVE TypeOK'
  OBVIOUS
<1>1. /\ Cleared \in Line(Cell) /\ line \in Line(Cell)
      /\ preview \in 0..MaxSuffix /\ 0 \in 0..MaxSuffix
      /\ hist \in Seq(Seq(Cell)) /\ mode \in {"edit", "search", "exited"}
  BY ClearedType, BoundAssumption DEF TypeOK
<1>2. ASSUME line' \in Line(Cell), preview' \in 0..MaxSuffix,
             mode = "edit", mode' \in {"edit", "exited"},
             UNCHANGED <<hist, ran, sigint, searchVars>>
      PROVE  TypeOK'
  BY <1>2 DEF TypeOK, searchVars
<1>3. CASE TypeLetter
  <2>1. PICK c \in Letter : ShowPreview(Insertstr(Cleared, <<c>>))
    BY <1>3 DEF TypeLetter
  <2>2. <<c>> \in Seq(Cell)
    BY Cells
  <2>3. Insertstr(Cleared, <<c>>) \in Line(Cell)
    BY <1>1, <2>2, InsertText
  <2>4. line' \in Line(Cell) /\ preview' \in 0..MaxSuffix
    BY <2>1, <2>3, ShowPreviewType
  <2> QED BY <1>2, <1>3, <2>4 DEF TypeLetter, KeepsRest
<1>4. CASE TypeSpace
  <2>1. <<Space>> \in Seq(Cell)
    BY Cells
  <2>2. Insertstr(Cleared, <<Space>>) \in Line(Cell)
    BY <1>1, <2>1, InsertText
  <2> QED BY <1>1, <1>2, <1>4, <2>2 DEF TypeSpace, KeepsRest
<1>5. CASE Backspace
  <2>1. Deletestr(Cleared, 1) \in Line(Cell)
    BY <1>1, LineCalls
  <2>2. line' \in Line(Cell) /\ preview' \in 0..MaxSuffix
    BY <1>5, <2>1, ShowPreviewType DEF Backspace
  <2> QED BY <1>2, <1>5, <2>2 DEF Backspace, KeepsRest
<1>6. CASE Tab
  <2>0. PICK n \in 0..MaxSuffix :
            \E s \in [1..n -> Letter] : line' = Insertstr(Cleared, s)
    BY <1>6 DEF Tab
  <2>1. PICK s \in [1..n -> Letter] : line' = Insertstr(Cleared, s)
    BY <2>0
  <2>2. s \in Seq(Cell)
    BY Cells, BoundAssumption
  <2>3. line' \in Line(Cell)
    BY <1>1, <2>1, <2>2, InsertText
  <2> QED BY <1>1, <1>2, <1>6, <2>3 DEF Tab, KeepsRest
<1>7. CASE CtrlC
  <2>1. EmptyLine \in Line(Cell)
    BY DEF EmptyLine, Line
  <2>2. line' \in Line(Cell)
    BY <1>1, <1>7, <2>1, ClearedBufferIsEmpty DEF CtrlC
  <2> QED BY <1>1, <1>2, <1>7, <2>2 DEF CtrlC, KeepsRest
<1>8. CASE CtrlDExit
  BY <1>1, <1>2, <1>8 DEF CtrlDExit
<1>9. CASE CtrlDDelete
  <2>1. CursorBy(Cleared, 1) \in Line(Cell)
    BY <1>1, LineCalls
  <2>2. Deletestr(CursorBy(Cleared, 1), 1) \in Line(Cell)
    BY <2>1, LineCalls
  <2>3. line' \in Line(Cell) /\ preview' \in 0..MaxSuffix
    BY <1>9, <2>2, ShowPreviewType DEF CtrlDDelete
  <2> QED BY <1>2, <1>9, <2>3 DEF CtrlDDelete, KeepsRest
<1>10. CASE TypeOther
  <2>1. PICK c \in Other : line' = Insertstr(line, <<c>>)
    BY <1>10 DEF TypeOther
  <2>2. <<c>> \in Seq(Cell)
    BY Cells
  <2>3. line' \in Line(Cell)
    BY <1>1, <2>1, <2>2, InsertText
  <2> QED BY <1>1, <1>2, <1>10, <2>3 DEF TypeOther, KeepsRest
<1>11. CASE MoveCursor
  <2>1. line' \in Line(Cell)
    BY <1>1, <1>11 DEF MoveCursor, Line
  <2> QED BY <1>1, <1>2, <1>11, <2>1 DEF MoveCursor, KeepsRest
<1>12. CASE KillToEnd
  <2>1. Left(line) \in Seq(Cell)
    BY <1>1, LineParts
  <2>2. line' \in Line(Cell)
    BY <1>12, <2>1 DEF KillToEnd, LineOf, Line
  <2> QED BY <1>1, <1>2, <1>12, <2>2 DEF KillToEnd, KeepsRest
<1>13. CASE Recall
  <2>1. PICK i \in 1..Len(hist) : line' = LineOf(hist[i])
    BY <1>13 DEF Recall
  <2>2. hist[i] \in Seq(Cell)
    BY <1>1, ElementOf
  <2>3. line' \in Line(Cell)
    BY <2>1, <2>2 DEF LineOf, Line
  <2> QED BY <1>1, <1>2, <1>13, <2>3 DEF Recall, KeepsRest
<1> QED BY <1>3, <1>4, <1>5, <1>6, <1>7, <1>8, <1>9, <1>10, <1>11, <1>12, <1>13
        DEF Key

\* The line that run() executes is the edit buffer or a part of it.
LEMMA CommandType ==
    ASSUME NEW S, line.text \in Seq(S), preview \in Int
    PROVE  Command \in Seq(S)
BY DEF Command, Strips

\* A search shows nothing or a line of the history file.
LEMMA ShownMatch ==
    ASSUME NEW S, line \in Line(Cell), hist \in Seq(Seq(S)),
           Encoded \in S, Cookie \in Seq(S),
           NEW i \in {0} \cup 1..Len(HistoryFile(hist)), ShowMatch(i)
    PROVE  \/ line' = EmptyLine
           \/ /\ i # 0
              /\ HistoryFile(hist)[i] \in Seq(S)
              /\ line' = LineOf(HistoryFile(hist)[i])
<1>1. ClearedBuffer(line) = EmptyLine
  BY ClearedBufferIsEmpty
<1>2. CASE i = 0
  BY <1>1, <1>2 DEF ShowMatch
<1>3. CASE i # 0
  <2>1. HistoryFile(hist)[i] \in Seq(S)
    BY <1>3, FileLine
  <2>2. line' = Insertstr(EmptyLine, HistoryFile(hist)[i])
    BY <1>1, <1>3 DEF ShowMatch
  <2> QED BY <1>3, <2>1, <2>2, InsertedAlone
<1> QED BY <1>2, <1>3

\* A line made of a sequence is a line.
LEMMA LineOfType ==
    ASSUME NEW S, NEW s \in Seq(S)
    PROVE  LineOf(s) \in Line(S)
BY DEF LineOf, Line

\* So is the empty line.
LEMMA EmptyLineType == ASSUME NEW S PROVE EmptyLine \in Line(S) /\ <<>> \in Seq(S)
BY DEF EmptyLine, Line

\* The steps of a search keep every type.
LEMMA SearchStepType ==
    TypeOK /\ (CtrlR \/ SearchKey) => TypeOK'
<1> SUFFICES ASSUME TypeOK, CtrlR \/ SearchKey PROVE TypeOK'
  OBVIOUS
<1>a. /\ line \in Line(Cell) /\ hist \in Seq(Seq(Cell))
      /\ preview \in 0..MaxSuffix
      /\ saved \in Seq(Cell) /\ query \in Seq(Typed)
  BY DEF TypeOK
<1>b. Cleared \in Line(Cell) /\ Cleared.text \in Seq(Cell)
  BY <1>a, ClearedType DEF Line
<1>c. EmptyLine \in Line(Cell)
  BY EmptyLineType
<1>d. 0 \in 0..MaxSuffix
  BY BoundAssumption
<1>e. <<>> \in Seq(Cell) /\ <<>> \in Seq(Typed)
  OBVIOUS
<1>1. /\ Cleared \in Line(Cell) /\ line \in Line(Cell) /\ Cleared.text \in Seq(Cell)
      /\ preview \in 0..MaxSuffix /\ 0 \in 0..MaxSuffix
      /\ hist \in Seq(Seq(Cell)) /\ EmptyLine \in Line(Cell)
      /\ saved \in Seq(Cell) /\ query \in Seq(Typed)
      /\ <<>> \in Seq(Cell) /\ <<>> \in Seq(Typed)
  BY <1>a, <1>b, <1>c, <1>d, <1>e
<1>2. CASE CtrlR
  <2>1. line' \in Line(Cell)
    BY <1>1, <1>2, ClearedBufferIsEmpty DEF CtrlR
  <2> QED BY <1>1, <1>2, <2>1 DEF CtrlR, TypeOK
<1>3. ASSUME NEW i \in {0} \cup 1..Len(HistoryFile(hist)), ShowMatch(i)
      PROVE  line' \in Line(Cell)
  <2>1. \/ line' = EmptyLine
        \/ /\ HistoryFile(hist)[i] \in Seq(Cell)
           /\ line' = LineOf(HistoryFile(hist)[i])
    BY <1>1, <1>3, Cells, ShownMatch
  <2> QED BY <1>1, <2>1, LineOfType
<1>4. ASSUME NEW q \in Seq(Typed), mode = "search", SearchFor(q)
      PROVE  TypeOK'
  <2>1. index' \in {0} \cup Hits(q)
    BY <1>4 DEF SearchFor, Latest
  <2>2. index' \in {0} \cup 1..Len(HistoryFile(hist)) /\ index' \in Nat
    BY <2>1 DEF Hits
  <2>3. line' \in Line(Cell)
    BY <1>3, <1>4, <2>2 DEF SearchFor
  <2>4. query' = q /\ hist' = hist
    BY <1>4 DEF SearchFor
  <2>5. index' \in {0} \cup Hits(query)'
    BY <2>1, <2>4 DEF Hits
  <2> QED BY <1>4, <2>2, <2>3, <2>4, <2>5 DEF SearchFor, TypeOK
<1>5. CASE SearchType
  <2>1. PICK c \in Typed : SearchFor(Append(query, c))
    BY <1>5 DEF SearchType
  <2>2. Append(query, c) \in Seq(Typed)
    BY <1>1
  <2> QED BY <1>4, <1>5, <2>1, <2>2 DEF SearchType
<1>6. CASE SearchBackspace
  <2>1. SubSeq(query, 1, Len(query) - 1) \in Seq(Typed)
    BY <1>1
  <2> QED BY <1>4, <1>6, <2>1 DEF SearchBackspace
<1>7. CASE SearchNext
  <2>1. index' \in Hits(query)
    BY <1>7 DEF SearchNext, Latest, Older
  <2>2. index' \in {0} \cup 1..Len(HistoryFile(hist)) /\ index' \in Nat
    BY <2>1 DEF Hits
  <2>3. line' \in Line(Cell)
    BY <1>3, <1>7, <2>2 DEF SearchNext
  <2>4. query' = query /\ hist' = hist
    BY <1>7 DEF SearchNext
  <2>5. index' \in Hits(query)'
    BY <2>1, <2>4 DEF Hits
  <2> QED BY <1>7, <2>2, <2>3, <2>5 DEF SearchNext, TypeOK
<1>8. CASE SearchAccept
  BY <1>1, <1>8 DEF SearchAccept, SearchEnds, TypeOK
<1>9. CASE SearchCancel
  <2>1. line' = LineOf(saved)
    BY <1>1, <1>9, ClearedBufferIsEmpty, InsertedAlone DEF SearchCancel
  <2>2. line' \in Line(Cell)
    BY <1>1, <2>1, LineOfType
  <2> QED BY <1>1, <1>9, <2>2 DEF SearchCancel, SearchEnds, TypeOK
<1> QED BY <1>2, <1>5, <1>6, <1>7, <1>8, <1>9 DEF SearchKey

\* So do the steps of run() and the signal.
LEMMA LoopType ==
    TypeOK /\ (Enter \/ Sigint \/ DropLine) => TypeOK'
<1> SUFFICES ASSUME TypeOK, Enter \/ Sigint \/ DropLine PROVE TypeOK'
  OBVIOUS
<1>a. line \in Line(Cell) /\ hist \in Seq(Seq(Cell)) /\ preview \in 0..MaxSuffix
  BY DEF TypeOK
<1>b. line.text \in Seq(Cell) /\ preview \in Int
  BY <1>a DEF Line
<1>c. 0 \in 0..MaxSuffix
  BY BoundAssumption
<1>d. EmptyLine \in Line(Cell) /\ <<>> \in Seq(Cell)
  BY EmptyLineType
<1>1. /\ line \in Line(Cell) /\ line.text \in Seq(Cell)
      /\ preview \in 0..MaxSuffix /\ 0 \in 0..MaxSuffix /\ preview \in Int
      /\ hist \in Seq(Seq(Cell)) /\ EmptyLine \in Line(Cell)
      /\ <<>> \in Seq(Cell)
  BY <1>a, <1>b, <1>c, <1>d
<1>2. CASE Enter
  <2>1. Command \in Seq(Cell)
    BY <1>1, CommandType
  <2>2. /\ Saved(Command) \in Seq(Seq(Cell))
        /\ Len(Saved(Command)) <= HistSize
    BY <1>1, <2>1, SavedEntries
  <2>3. /\ hist' \in Seq(Seq(Cell)) /\ Len(hist') <= HistSize
        /\ ran' \in Seq(Cell)
    BY <1>2, <2>1, <2>2 DEF Enter, TypeOK
  <2>4. mode' \in {"edit", "exited"} /\ preview' \in 0..MaxSuffix
    BY <1>1, <1>2 DEF Enter
  <2> QED BY <1>1, <1>2, <2>3, <2>4 DEF Enter, TypeOK, searchVars
<1>3. CASE Sigint
  BY <1>1, <1>3 DEF Sigint, SearchEnds, TypeOK
<1>4. CASE DropLine
  BY <1>1, <1>4 DEF DropLine, TypeOK, searchVars
<1> QED BY <1>2, <1>3, <1>4

\* The types of every variable, for a careful user and for any other.
THEOREM TypeCorrect == Spec => []TypeOK
<1>1. Init => TypeOK
  <2> SUFFICES ASSUME Init PROVE TypeOK
    OBVIOUS
  <2>1. line \in Line(Cell)
    BY EmptyLineType DEF Init
  <2>2. /\ hist \in Seq(Seq(Cell)) /\ ran \in Seq(Cell) /\ saved \in Seq(Cell)
        /\ query \in Seq(Typed)
    BY DEF Init
  <2>3. preview \in 0..MaxSuffix /\ Len(hist) <= HistSize
    BY BoundAssumption DEF Init
  <2> QED BY <2>1, <2>2, <2>3 DEF Init, TypeOK
<1>2. TypeOK /\ [Next]_vars => TypeOK'
  <2>1. ASSUME TypeOK, UNCHANGED vars PROVE TypeOK'
    <3>1. Hits(query)' = Hits(query)
      BY <2>1 DEF vars, Hits
    <3> QED BY <2>1, <3>1 DEF TypeOK, vars
  <2> QED BY <2>1, KeyType, SearchStepType, LoopType DEF Next
<1> QED BY <1>1, <1>2, PTL DEF Spec

----------------------------------------------------------------------------
(* The prompt of a careful user                                            *)

\* The invariant: the preview is exactly what preview_len_ says, a search
\* has none, and nothing that is kept or was run holds one.
Good ==
    /\ Exact(line, preview)
    /\ mode = "search" => preview = 0
    /\ hist \in Seq(Seq(Char)) /\ ran \in Seq(Char) /\ saved \in Seq(Char)

\* What one key of the prompt may make of the visible line V.
OneEdit(V, W) ==
    \/ \E s \in Seq(Char) : W = Insertstr(V, s)
    \/ W = Deletestr(V, 1)
    \/ W = Deletestr(CursorBy(V, 1), 1)
    \/ W.text = V.text /\ W \in Line(Char)
    \/ W = LineOf(Left(V))
    \/ \E i \in 1..Len(hist) : W = LineOf(hist[i])
    \/ W = EmptyLine

\* clearPreview leaves the visible line.
LEMMA ClearedIsVisible ==
    ASSUME Good
    PROVE  /\ Cleared = Shown(line, preview) /\ Cleared \in Line(Char)
           /\ preview = 0 => line = Cleared
<1>1. Exact(line, preview)
  BY DEF Good
<1>2. Shown(line, preview) \in Line(Char)
  BY <1>1, ShownText
<1>3. Cleared = Shown(line, preview)
  BY <1>1, ClearedIsShown DEF Cleared
<1> QED BY <1>2, <1>3 DEF Cleared

\* A line shown with a new preview is visible as it was.
LEMMA ShowPreviewShows ==
    ASSUME NEW M \in Line(Char), ShowPreview(M)
    PROVE  Exact(line', preview') /\ Shown(line', preview') = M
<1>1. PICK n \in 0..MaxSuffix : line' = WithPreview(M, n) /\ preview' = n
  BY DEF ShowPreview
<1>2. n \in Nat
  BY BoundAssumption
<1> QED BY <1>1, <1>2, PreviewAdded

\* Every key edits the visible line, and keeps the preview exact.
LEMMA KeyEdits ==
    ASSUME Good, Careful, Key, ~CtrlDExit
    PROVE  /\ Exact(line', preview')
           /\ OneEdit(Shown(line, preview), Shown(line', preview'))
<1> DEFINE V == Shown(line, preview)  W == Shown(line', preview')
<1>1. /\ Exact(line, preview) /\ hist \in Seq(Seq(Char))
      /\ Cleared = V /\ V \in Line(Char) /\ (preview = 0 => line = V)
  BY ClearedIsVisible DEF Good
<1>2. ASSUME NEW M \in Line(Char), line' = M, preview' = 0
      PROVE  Exact(line', preview') /\ W = M
  BY <1>2, NothingHidden
<1>3. ASSUME NEW c \in Char
      PROVE  <<c>> \in Seq(Char) /\ Insertstr(V, <<c>>) \in Line(Char)
  <2>1. <<c>> \in Seq(Char)
    BY <1>3
  <2> QED BY <1>1, <2>1, InsertText
<1>4. /\ Deletestr(V, 1) \in Line(Char)
      /\ Deletestr(CursorBy(V, 1), 1) \in Line(Char)
  <2>1. CursorBy(V, 1) \in Line(Char) /\ Deletestr(V, 1) \in Line(Char)
    BY <1>1, LineCalls
  <2> QED BY <2>1, LineCalls
<1> HIDE DEF V, W
<1>5. CASE TypeLetter
  <2>1. PICK c \in Letter : ShowPreview(Insertstr(Cleared, <<c>>))
    BY <1>5 DEF TypeLetter
  <2>2. c \in Char
    BY Cells
  <2>3. Exact(line', preview') /\ W = Insertstr(V, <<c>>)
    BY <1>1, <1>3, <2>1, <2>2, ShowPreviewShows DEF W
  <2> QED BY <1>3, <2>2, <2>3 DEF OneEdit, V, W
<1>6. CASE TypeSpace
  <2>1. Space \in Char
    BY Cells
  <2>2. Exact(line', preview') /\ W = Insertstr(V, <<Space>>)
    BY <1>1, <1>2, <1>3, <1>6, <2>1 DEF TypeSpace
  <2> QED BY <1>3, <2>1, <2>2 DEF OneEdit, V, W
<1>7. CASE Backspace
  <2>1. Exact(line', preview') /\ W = Deletestr(V, 1)
    BY <1>1, <1>4, <1>7, ShowPreviewShows DEF Backspace, W
  <2> QED BY <2>1 DEF OneEdit, V, W
<1>8. CASE Tab
  <2>1. PICK n \in 0..MaxSuffix :
            \E s \in [1..n -> Letter] : line' = Insertstr(Cleared, s)
    BY <1>8 DEF Tab
  <2>2. PICK s \in [1..n -> Letter] : line' = Insertstr(Cleared, s)
    BY <2>1
  <2>3. s \in Seq(Char)
    BY Cells, BoundAssumption
  <2>4. Insertstr(V, s) \in Line(Char)
    BY <1>1, <2>3, InsertText
  <2>5. Exact(line', preview') /\ W = Insertstr(V, s)
    BY <1>1, <1>2, <1>8, <2>2, <2>4 DEF Tab
  <2> QED BY <2>3, <2>5 DEF OneEdit, V, W
<1>9. CASE CtrlC
  <2>1. ClearedBuffer(Cleared) = EmptyLine /\ EmptyLine \in Line(Char)
    BY <1>1, ClearedBufferIsEmpty, EmptyLineType
  <2>2. Exact(line', preview') /\ W = EmptyLine
    BY <1>2, <1>9, <2>1 DEF CtrlC
  <2> QED BY <2>2 DEF OneEdit, V, W
<1>10. CASE CtrlDDelete
  <2>1. Exact(line', preview') /\ W = Deletestr(CursorBy(V, 1), 1)
    BY <1>1, <1>4, <1>10, ShowPreviewShows DEF CtrlDDelete, W
  <2> QED BY <2>1 DEF OneEdit, V, W
<1>11. CASE TypeOther
  <2>1. PICK c \in Other : line' = Insertstr(line, <<c>>) /\ preview' = preview
    BY <1>11 DEF TypeOther
  <2>2. c \in Char
    BY Cells
  <2>3. Exact(line', preview') /\ W = Insertstr(V, <<c>>)
    BY <1>1, <1>3, <2>1, <2>2, InsertedBefore DEF V, W
  <2> QED BY <1>3, <2>2, <2>3 DEF OneEdit, V, W
<1>12. CASE MoveCursor
  <2>1. preview = 0 /\ preview' = 0 /\ line = V
    BY <1>1, <1>12 DEF MoveCursor, MayMove
  <2>2. line' \in Line(Char) /\ line'.text = V.text
    BY <1>1, <1>12, <2>1 DEF MoveCursor, Line
  <2>3. Exact(line', preview') /\ W = line'
    BY <1>2, <2>1, <2>2
  <2> QED BY <2>2, <2>3 DEF OneEdit, V, W
<1>13. CASE KillToEnd
  <2>1. preview = 0 /\ preview' = 0 /\ line = V
    BY <1>1, <1>13 DEF KillToEnd, MayMove
  <2>2. Left(V) \in Seq(Char)
    BY <1>1, LineParts
  <2>3. LineOf(Left(V)) \in Line(Char)
    BY <2>2, LineOfType
  <2>4. Exact(line', preview') /\ W = LineOf(Left(V))
    BY <1>2, <1>13, <2>1, <2>3 DEF KillToEnd
  <2> QED BY <2>4 DEF OneEdit, V, W
<1>14. CASE Recall
  <2>1. preview = 0 /\ preview' = 0
    BY <1>1, <1>14 DEF Recall, MayMove
  <2>2. PICK i \in 1..Len(hist) : line' = LineOf(hist[i])
    BY <1>14 DEF Recall
  <2>3. hist[i] \in Seq(Char)
    BY <1>1, ElementOf
  <2>4. LineOf(hist[i]) \in Line(Char)
    BY <2>3, LineOfType
  <2>5. Exact(line', preview') /\ W = LineOf(hist[i])
    BY <1>2, <2>1, <2>2, <2>4
  <2> QED BY <2>5 DEF OneEdit, V, W
<1> QED BY <1>5, <1>6, <1>7, <1>8, <1>9, <1>10, <1>11, <1>12, <1>13, <1>14
        DEF Key

\* PlainLine's calls of libedit are those of LineEditor.
LEMMA PlainCalls ==
    /\ \A L, s : Plain!Insertstr(L, s) = Insertstr(L, s)
    /\ \A L, n : Plain!CursorBy(L, n) = CursorBy(L, n)
    /\ \A L, n : Plain!Deletestr(L, n) = Deletestr(L, n)
    /\ \A L : Plain!Left(L) = Left(L)
    /\ \A s : Plain!LineOf(s) = LineOf(s)
    /\ \A s : Plain!Vis(s) = Vis(s)
    /\ \A S : Plain!Line(S) = Line(S)
    /\ Plain!EmptyLine = EmptyLine /\ Plain!Cookie = Cookie
BY DEF Plain!Insertstr, Insertstr, Plain!CursorBy, CursorBy, Plain!Deletestr,
       Deletestr, Plain!Left, Left, Plain!Right, Right, Plain!LineOf, LineOf,
       Plain!Vis, Vis, Plain!Line, Line, Plain!EmptyLine, EmptyLine,
       Plain!Cookie, Cookie, Plain!Space, Space, Plain!Encoded, Encoded

\* What is visible is Shown.
LEMMA VisibleIsShown ==
    /\ Visible = Shown(line, preview)
    /\ Visible' = Shown(line', preview')
BY DEF Visible, Shown, Left

\* A key of LineEditor is a key of PlainLine.
LEMMA KeyIsPlain ==
    ASSUME Good, Careful, Key, ~CtrlDExit
    PROVE  Plain!EditKey
<1> DEFINE V == Shown(line, preview)  W == Shown(line', preview')
<1>1. V \in Line(Char)
  BY ShownText DEF Good
<1>2. OneEdit(V, W)
  BY KeyEdits
<1>3. Visible = V /\ Visible' = W
  BY VisibleIsShown
<1> HIDE DEF V, W
<1>4. /\ mode = "edit"
      /\ UNCHANGED <<mode, saved, {hist[i] : i \in 1..Len(hist)}, ran, sigint>>
  <2>1. mode = "edit" /\ UNCHANGED <<mode, hist, ran, sigint, saved>>
    BY DEF Key, CtrlDExit, TypeLetter, TypeSpace, Backspace, Tab, CtrlC,
           CtrlDDelete, TypeOther, MoveCursor, KillToEnd, Recall, KeepsRest,
           searchVars
  <2> QED BY <2>1
<1>5. \/ Plain!Insert \/ Plain!DeleteBack \/ Plain!DeleteUnder \/ Plain!Move
      \/ Plain!KillToEnd \/ Plain!Recall \/ Plain!Clear
  <2>1. CASE \E s \in Seq(Char) : W = Insertstr(V, s)
    <3>1. PICK s \in Seq(Char) : W = Insertstr(V, s)
      BY <2>1
    <3>2. /\ SubSeq(W.text, V.cur + 1, V.cur + Len(s)) = s
          /\ Len(W.text) = Len(V.text) + Len(s)
      BY <1>1, <3>1, InsertText, InsertedPart
    <3>3. Len(s) \in 0..(Len(W.text) - Len(V.text))
      <4>1. Len(V.text) \in Nat /\ Len(s) \in Nat
        BY <1>1, LineParts
      <4> QED BY <3>2, <4>1
    <3>4. \E n \in 0..(Len(W.text) - Len(V.text)) :
              W = Insertstr(V, SubSeq(W.text, V.cur + 1, V.cur + n))
      BY <3>1, <3>2, <3>3
    <3> QED BY <1>3, <3>4, PlainCalls DEF Plain!Insert
  <2>2. CASE W = Deletestr(V, 1)
    BY <1>3, <2>2, PlainCalls DEF Plain!DeleteBack
  <2>3. CASE W = Deletestr(CursorBy(V, 1), 1)
    BY <1>3, <2>3, PlainCalls DEF Plain!DeleteUnder
  <2>4. CASE W.text = V.text /\ W \in Line(Char)
    BY <1>3, <2>4, PlainCalls DEF Plain!Move
  <2>5. CASE W = LineOf(Left(V))
    BY <1>3, <2>5, PlainCalls DEF Plain!KillToEnd
  <2>6. CASE \E i \in 1..Len(hist) : W = LineOf(hist[i])
    BY <1>3, <2>6, PlainCalls DEF Plain!Recall
  <2>7. CASE W = EmptyLine
    BY <1>3, <2>7, PlainCalls DEF Plain!Clear
  <2> QED BY <1>2, <2>1, <2>2, <2>3, <2>4, <2>5, <2>6, <2>7 DEF OneEdit
<1> QED BY <1>4, <1>5 DEF Plain!EditKey

\* The keys keep the invariant.
LEMMA KeyGood == Good /\ Careful /\ Key /\ ~CtrlDExit => Good'
<1> SUFFICES ASSUME Good, Careful, Key, ~CtrlDExit PROVE Good'
  OBVIOUS
<1>1. mode' = "edit" /\ UNCHANGED <<hist, ran, saved>>
  BY DEF Key, CtrlDExit, TypeLetter, TypeSpace, Backspace, Tab, CtrlC,
         CtrlDDelete, TypeOther, MoveCursor, KillToEnd, Recall, KeepsRest,
         searchVars
<1>2. Exact(line', preview')
  BY KeyEdits
<1>3. Exact(line, preview)'
  BY <1>2 DEF Exact
<1> QED BY <1>1, <1>3 DEF Good

\* Ctrl-D leaves when nothing is visible.
LEMMA CtrlDIsPlain ==
    ASSUME Good, Careful, CtrlDExit
    PROVE  Good' /\ Plain!Leave
<1> DEFINE V == Shown(line, preview)
<1>1. V \in Line(Char) /\ Len(V.text) = Len(line.text) - preview
  BY ShownText DEF Good
<1> HIDE DEF V
<1>2. V.text = <<>>
  <2>1. V.text \in Seq(Char) /\ Len(V.text) = 0
    BY <1>1, LineParts DEF CtrlDExit, RealLen
  <2> QED BY <2>1
<1>3. Good'
  BY DEF Good, CtrlDExit, searchVars, Exact
<1>4. Visible = V /\ Visible' = V
  BY VisibleIsShown DEF CtrlDExit, V
<1>5. mode' = "exited" /\ UNCHANGED <<hist, ran, saved, sigint>> /\ mode = "edit"
  BY DEF CtrlDExit, searchVars
<1> QED BY <1>2, <1>3, <1>4, <1>5 DEF Plain!Leave

\* A line of characters without a preview is visible as it is.
LEMMA AllVisible ==
    ASSUME NEW M \in Line(Char), line' = M, preview' = 0
    PROVE  Exact(line, preview)' /\ Visible' = M
<1>1. Exact(M, 0) /\ Shown(M, 0) = M
  BY NothingHidden
<1>2. Exact(line', preview') /\ Visible' = M
  BY <1>1, VisibleIsShown
<1> QED BY <1>2 DEF Exact

\* handleCtrlR starts a search of the visible line.
LEMMA CtrlRIsPlain == Good /\ CtrlR => Good' /\ Plain!Search
<1> SUFFICES ASSUME Good, CtrlR PROVE Good' /\ Plain!Search
  OBVIOUS
<1>1. Cleared = Visible /\ Cleared \in Line(Char)
  BY ClearedIsVisible, VisibleIsShown
<1>2. line' = EmptyLine /\ preview' = 0 /\ EmptyLine \in Line(Char)
  BY <1>1, ClearedBufferIsEmpty, EmptyLineType DEF CtrlR
<1>3. Exact(line, preview)' /\ Visible' = EmptyLine
  BY <1>2, AllVisible
<1>4. saved' = Visible.text /\ saved' \in Seq(Char)
  BY <1>1, LineParts DEF CtrlR
<1>5. Good'
  BY <1>2, <1>3, <1>4 DEF Good, CtrlR
<1> QED BY <1>3, <1>4, <1>5, PlainCalls DEF CtrlR, Plain!Search

\* What a search shows is a line of the history file.
LEMMA MatchIsPlain ==
    ASSUME Good, mode = "search", NEW i \in {0} \cup 1..Len(HistoryFile(hist)),
           ShowMatch(i), UNCHANGED <<mode, preview, hist, ran, sigint, saved>>
    PROVE  Good' /\ Plain!Look
<1> DEFINE past == {hist[k] : k \in 1..Len(hist)}
<1>1. /\ hist \in Seq(Seq(Char)) /\ preview = 0 /\ line \in Line(Cell)
      /\ Encoded \in Char /\ Cookie \in Seq(Char)
  BY Cells DEF Good, Exact
<1>2. PICK f \in Seq(Char) :
          /\ line' = LineOf(f)
          /\ f \in {<<>>, Cookie} \cup {Vis(s) : s \in past}
  <2>1. CASE line' = EmptyLine
    <3>1. EmptyLine = LineOf(<<>>) /\ <<>> \in Seq(Char)
      BY EmptyLineType DEF EmptyLine, LineOf
    <3> QED BY <2>1, <3>1
  <2>2. CASE /\ i # 0 /\ HistoryFile(hist)[i] \in Seq(Char)
             /\ line' = LineOf(HistoryFile(hist)[i])
    <3>1. i \in 1..Len(HistoryFile(hist))
      BY <2>2
    <3>2. \/ HistoryFile(hist)[i] = Cookie
          \/ \E j \in 1..Len(hist) : HistoryFile(hist)[i] = Vis(hist[j])
      BY <1>1, <3>1, FileLine
    <3>3. HistoryFile(hist)[i] \in {<<>>, Cookie} \cup {Vis(s) : s \in past}
      BY <3>2
    <3> QED BY <2>2, <3>3
  <2> QED BY <1>1, <2>1, <2>2, ShownMatch
<1>3. LineOf(f) \in Line(Char) /\ LineOf(f).text = f
  BY LineOfType DEF LineOf
<1>4. Exact(line, preview)' /\ Visible' = LineOf(f)
  BY <1>1, <1>2, <1>3, AllVisible
<1>5. Good'
  BY <1>1, <1>4 DEF Good
<1>6. UNCHANGED past
  OBVIOUS
<1> HIDE DEF past
<1>7. /\ Visible'.text \in {<<>>, Cookie} \cup {Vis(s) : s \in past}
      /\ Visible' = LineOf(Visible'.text)
  BY <1>2, <1>3, <1>4
<1>8. /\ Visible'.text \in {<<>>, Plain!Cookie} \cup {Plain!Vis(s) : s \in past}
      /\ Visible' = Plain!LineOf(Visible'.text)
  BY <1>7, PlainCalls
<1> QED BY <1>5, <1>6, <1>8 DEF Plain!Look, past

\* The steps of a search are those of PlainLine.
LEMMA SearchIsPlain ==
    Good /\ SearchKey =>
        Good' /\ (Plain!Look \/ Plain!Accept \/ Plain!Cancel)
<1> SUFFICES ASSUME Good, SearchKey
             PROVE  Good' /\ (Plain!Look \/ Plain!Accept \/ Plain!Cancel)
  OBVIOUS
<1>1. ASSUME NEW q, mode = "search", SearchFor(q)
      PROVE  Good' /\ Plain!Look
  <2>1. index' \in {0} \cup 1..Len(HistoryFile(hist))
    BY <1>1 DEF SearchFor, Latest, Hits
  <2> QED BY <1>1, <2>1, MatchIsPlain DEF SearchFor
<1>2. CASE SearchType \/ SearchBackspace
  BY <1>1, <1>2 DEF SearchType, SearchBackspace
<1>3. CASE SearchNext
  <2>1. index' \in {0} \cup 1..Len(HistoryFile(hist))
    BY <1>3 DEF SearchNext, Latest, Older, Hits
  <2> QED BY <1>3, <2>1, MatchIsPlain DEF SearchNext
<1>4. CASE SearchAccept
  <2>1. Visible' = Visible
    BY <1>4, VisibleIsShown DEF SearchAccept, SearchEnds
  <2>2. <<>> \in Seq(Char)
    OBVIOUS
  <2>3. Good'
    BY <1>4, <2>2 DEF Good, Exact, SearchAccept, SearchEnds
  <2> QED BY <1>4, <2>1, <2>3 DEF SearchAccept, SearchEnds, Plain!Accept
<1>5. CASE SearchCancel
  <2>1. line \in Line(Cell) /\ saved \in Seq(Char) /\ preview' = 0
    BY <1>5 DEF Good, Exact, SearchCancel, SearchEnds
  <2>2. line' = LineOf(saved) /\ LineOf(saved) \in Line(Char)
    BY <1>5, <2>1, ClearedBufferIsEmpty, InsertedAlone, LineOfType
       DEF SearchCancel
  <2>3. Exact(line, preview)' /\ Visible' = LineOf(saved)
    BY <2>1, <2>2, AllVisible
  <2>4. <<>> \in Seq(Char)
    OBVIOUS
  <2>5. Good'
    BY <1>5, <2>1, <2>3, <2>4 DEF Good, SearchCancel, SearchEnds
  <2> QED BY <1>5, <2>3, <2>5, PlainCalls
          DEF SearchCancel, SearchEnds, Plain!Cancel
<1> QED BY <1>2, <1>3, <1>4, <1>5 DEF SearchKey

\* What run() strips off the end of the line is the preview.
LEMMA CommandIsVisible ==
    ASSUME Good, Careful, MayEnter
    PROVE  Command = Visible.text /\ Command \in Seq(Char)
<1> DEFINE V == Shown(line, preview)  n == Len(line.text)
<1>1. /\ V \in Line(Char) /\ V.cur = line.cur
      /\ Len(V.text) = n - preview
      /\ \A i \in 1..(n - preview) :
             V.text[i] = IF i <= line.cur THEN line.text[i]
                         ELSE line.text[i + preview]
  BY ShownText DEF Good
<1>2. /\ line.text \in Seq(Cell) /\ n \in Nat /\ line.cur \in Nat
      /\ line.cur <= n /\ preview \in Nat
  BY LineParts DEF Good, Exact
<1>3. Visible = V /\ V.text \in Seq(Char)
  BY <1>1, VisibleIsShown, LineParts
<1>4. CASE preview = 0
  <2>1. line = V
    BY <1>4, ClearedIsVisible
  <2>2. Command = line.text
    BY <1>4 DEF Command, Strips
  <2> QED BY <1>3, <2>1, <2>2
<1>5. CASE preview > 0 /\ line.cur + preview = n
  <2> DEFINE c == SubSeq(line.text, 1, n - preview)
  <2>1. n - preview = line.cur /\ n >= preview
    BY <1>2, <1>5
  <2>2. Command = c
    BY <1>5, <2>1 DEF Command, Strips
  <2>3. /\ c \in Seq(Cell) /\ Len(c) = line.cur
        /\ \A i \in 1..line.cur : c[i] = line.text[i]
    BY <1>2, <2>1
  <2> HIDE DEF c
  <2>4. V.text \in Seq(Cell)
    BY <1>3, RangedSeq, ElementOf DEF Cell
  <2>5. Len(V.text) = line.cur
    BY <1>1, <2>1
  <2>6. ASSUME NEW i \in 1..line.cur
        PROVE  V.text[i] = c[i]
    <3>1. i \in 1..(n - preview) /\ i <= line.cur
      BY <1>2, <2>1
    <3> QED BY <1>1, <2>3, <3>1
  <2>7. V.text = c
    BY <2>3, <2>4, <2>5, <2>6, SameElements
  <2> QED BY <1>3, <2>2, <2>7
<1> QED BY <1>2, <1>4, <1>5 DEF MayEnter

\* Enter runs what is visible.
LEMMA EnterIsPlain == Good /\ Careful /\ Enter => Good' /\ Plain!Run
<1> SUFFICES ASSUME Good, Careful, Enter PROVE Good' /\ Plain!Run
  OBVIOUS
<1>1. MayEnter /\ mode = "edit" /\ ~sigint
  BY DEF Enter
<1>2. Command = Visible.text /\ Command \in Seq(Char)
  BY <1>1, CommandIsVisible
<1>3. preview' = 0
  <2>1. preview \in Nat /\ preview <= Len(line.text) - line.cur
        /\ line.cur \in Nat /\ Len(line.text) \in Nat
    BY LineParts DEF Good, Exact
  <2>2. preview = 0 \/ Strips
    BY <2>1 DEF Strips
  <2> QED BY <2>2 DEF Enter
<1>4. Exact(line, preview)' /\ Visible' = EmptyLine
  <2>1. EmptyLine \in Line(Char) /\ line' = EmptyLine
    BY EmptyLineType DEF Enter
  <2> QED BY <1>3, <2>1, AllVisible
<1>5. CASE Command = <<>> \/ Command \in ExitLine
  <2>1. UNCHANGED <<ran, hist, saved, sigint>>
    BY <1>5 DEF Enter, searchVars
  <2>2. Good'
    BY <1>3, <1>4, <2>1 DEF Good
  <2>3. UNCHANGED {hist[k] : k \in 1..Len(hist)}
    BY <2>1
  <2> QED BY <1>1, <1>2, <1>4, <1>5, <2>1, <2>2, <2>3, PlainCalls
          DEF Enter, Plain!Run
<1>6. CASE ~(Command = <<>> \/ Command \in ExitLine)
  <2>1. ran' = Command /\ hist' = Saved(Command) /\ mode' = mode
        /\ UNCHANGED <<saved, sigint>>
    BY <1>6 DEF Enter, searchVars
  <2>2. hist \in Seq(Seq(Char)) /\ saved \in Seq(Char)
    BY DEF Good
  <2>3. /\ Saved(Command) \in Seq(Seq(Char))
        /\ \A i \in 1..Len(Saved(Command)) :
               \/ Saved(Command)[i] = Command
               \/ \E j \in 1..Len(hist) : Saved(Command)[i] = hist[j]
        /\ \E i \in 1..Len(Saved(Command)) : Saved(Command)[i] = Command
    BY <1>2, <2>2, SavedEntries
  <2>4. Good'
    BY <1>2, <1>3, <1>4, <2>1, <2>2, <2>3 DEF Good
  <2> DEFINE past == {hist[k] : k \in 1..Len(hist)}
             new == {Saved(Command)[k] : k \in 1..Len(Saved(Command))}
  <2>5. past' = new
    BY <2>1
  <2>6. Command \in new /\ new \subseteq past \cup {Command}
    BY <2>3
  <2> HIDE DEF past, new
  <2>7. Visible.text \in past' /\ past' \subseteq past \cup {Visible.text}
    BY <1>2, <2>5, <2>6
  <2>8. /\ mode = "edit" /\ ~sigint /\ Visible' = EmptyLine
        /\ ~(Visible.text = <<>> \/ Visible.text \in ExitLine)
        /\ ran' = Visible.text
    BY <1>1, <1>2, <1>4, <1>6, <2>1
  <2> QED BY <2>1, <2>4, <2>7, <2>8, PlainCalls DEF Plain!Run, past
<1> QED BY <1>5, <1>6

\* A signal takes the line of its prompt away, at the next return of el_gets.
LEMMA SignalIsPlain ==
    Good /\ (Sigint \/ DropLine) => Good' /\ (Plain!Interrupt \/ Plain!Drop)
<1> SUFFICES ASSUME Good, Sigint \/ DropLine
             PROVE  Good' /\ (Plain!Interrupt \/ Plain!Drop)
  OBVIOUS
<1>1. CASE Sigint
  <2>1. Visible' = Visible
    BY <1>1, VisibleIsShown DEF Sigint, SearchEnds
  <2>2. <<>> \in Seq(Char)
    OBVIOUS
  <2>3. Good'
    BY <1>1, <2>2 DEF Good, Exact, Sigint, SearchEnds
  <2> QED BY <1>1, <2>1, <2>3 DEF Sigint, SearchEnds, Plain!Interrupt
<1>2. CASE DropLine
  <2>1. EmptyLine \in Line(Char) /\ line' = EmptyLine /\ preview' = 0
    BY <1>2, EmptyLineType DEF DropLine
  <2>2. Exact(line, preview)' /\ Visible' = EmptyLine
    BY <2>1, AllVisible
  <2>3. Good'
    BY <1>2, <2>1, <2>2 DEF Good, DropLine, searchVars
  <2> QED BY <1>2, <2>2, <2>3, PlainCalls DEF DropLine, searchVars, Plain!Drop
<1> QED BY <1>1, <1>2

\* The initial prompt.
LEMMA InitIsPlain == Init => Good /\ Plain!PlainInit
<1> SUFFICES ASSUME Init PROVE Good /\ Plain!PlainInit
  OBVIOUS
<1>1. EmptyLine \in Line(Char) /\ line = EmptyLine /\ preview = 0
  BY EmptyLineType DEF Init
<1>2. Exact(line, preview) /\ Shown(line, preview) = EmptyLine
  BY <1>1, NothingHidden
<1>3. Good
  BY <1>2 DEF Good, Init
<1>4. Visible = EmptyLine
  BY <1>2, VisibleIsShown
<1>5. {hist[i] : i \in 1..Len(hist)} \subseteq Seq(Char)
  BY DEF Init
<1> QED BY <1>3, <1>4, <1>5, PlainCalls DEF Init, Plain!PlainInit

\* Every step of a careful user is a step of PlainLine or changes nothing
\* there.
LEMMA StepIsPlain ==
    Good /\ Careful /\ [Next]_vars =>
        Good' /\ [Plain!PlainNext]_(Plain!plainVars)
<1> SUFFICES ASSUME Good, Careful, [Next]_vars
             PROVE  Good' /\ [Plain!PlainNext]_(Plain!plainVars)
  OBVIOUS
<1>1. CASE Key
  <2>1. CASE CtrlDExit
    BY <2>1, CtrlDIsPlain DEF Plain!PlainNext
  <2>2. CASE ~CtrlDExit
    BY <1>1, <2>2, KeyGood, KeyIsPlain DEF Plain!PlainNext
  <2> QED BY <2>1, <2>2
<1>2. CASE CtrlR
  BY <1>2, CtrlRIsPlain DEF Plain!PlainNext
<1>3. CASE SearchKey
  BY <1>3, SearchIsPlain DEF Plain!PlainNext
<1>4. CASE Enter
  BY <1>4, EnterIsPlain DEF Plain!PlainNext
<1>5. CASE Sigint \/ DropLine
  BY <1>5, SignalIsPlain DEF Plain!PlainNext
<1>6. CASE UNCHANGED vars
  <2>1. Good'
    BY <1>6 DEF Good, Exact, vars
  <2>2. UNCHANGED Plain!plainVars
    BY <1>6, VisibleIsShown DEF Plain!plainVars, vars
  <2> QED BY <2>1, <2>2
<1> QED BY <1>1, <1>2, <1>3, <1>4, <1>5, <1>6 DEF Next

\* For a careful user clearPreview, the strip in run() and every key in
\* between agree on where the preview is: "The preview sits after the cursor"
\* (CLI.cpp:258) and is preview_len_ characters long.
THEOREM PreviewIsExact == Careful => (Spec => []PreviewExact)
<1> SUFFICES ASSUME Careful PROVE Spec => []PreviewExact
  OBVIOUS
<1>1. Good => PreviewExact
  BY DEF Good, Exact, PreviewExact
<1>2. Init => Good
  BY InitIsPlain
<1>3. Good /\ [Next]_vars => Good'
  BY StepIsPlain
<1> QED BY <1>1, <1>2, <1>3, PTL DEF Spec

\* The dispatcher is never given a character of a preview by a careful user:
\* "Strip any trailing preview text that was in the buffer" (CLI.cpp:643).
THEOREM CarefulNeverRunsPreview == Careful => (Spec => []PreviewNeverRuns)
<1> SUFFICES ASSUME Careful PROVE Spec => []PreviewNeverRuns
  OBVIOUS
<1>1. Good => PreviewNeverRuns
  BY ElementOf, GhostIsNoChar DEF Good, PreviewNeverRuns
<1>2. Init => Good
  BY InitIsPlain
<1>3. Good /\ [Next]_vars => Good'
  BY StepIsPlain
<1> QED BY <1>1, <1>2, <1>3, PTL DEF Spec

\* The prompt of CLI.cpp with its previews, search and signals implements a
\* prompt that shows only what was typed, for a careful user.
THEOREM ImplementsPlain == Careful => (Spec => ActsAsPlain)
<1> SUFFICES ASSUME Careful PROVE Spec => ActsAsPlain
  OBVIOUS
<1>1. Init => Good /\ Plain!PlainInit
  BY InitIsPlain
<1>2. Good /\ [Next]_vars =>
          Good' /\ [Plain!PlainNext]_(Plain!plainVars)
  BY StepIsPlain
<1> QED BY <1>1, <1>2, PTL DEF Spec, ActsAsPlain, Plain!PlainSpec
=============================================================================
