------------------------------ MODULE EditLine ------------------------------
(***************************************************************************)
(* What src/CLI.cpp uses of libedit: an edit buffer with a cursor and the  *)
(* three calls that change it, and the history file.  A line is a record   *)
(* of its text and the number of characters before the cursor.  libedit is *)
(* not part of the repository; this module is how the command line depends *)
(* on it.                                                                  *)
(***************************************************************************)
EXTENDS Integers, Sequences

Line(S)   == {L \in [text : Seq(S), cur : Nat] : L.cur <= Len(L.text)}
EmptyLine == [text |-> <<>>, cur |-> 0]

\* The line that holds s, with the cursor behind it.
LineOf(s) == [text |-> s, cur |-> Len(s)]

Left(L)  == SubSeq(L.text, 1, L.cur)
Right(L) == SubSeq(L.text, L.cur + 1, Len(L.text))

\* el_cursor: move by n, no further than either end.
CursorBy(L, n) ==
    [text |-> L.text,
     cur  |-> IF L.cur + n < 0 THEN 0
              ELSE IF L.cur + n > Len(L.text) THEN Len(L.text)
              ELSE L.cur + n]

\* el_insertstr: put s before the cursor.
Insertstr(L, s) ==
    [text |-> Left(L) \o s \o Right(L), cur |-> L.cur + Len(s)]

\* el_deletestr: delete n characters before the cursor, or nothing when
\* there are not so many.
Deletestr(L, n) ==
    IF n <= 0 \/ L.cur < n
    THEN L
    ELSE [text |-> SubSeq(L.text, 1, L.cur - n) \o Right(L),
          cur  |-> L.cur - n]

----------------------------------------------------------------------------
(* H_SAVE writes a line of its own first and then every entry, oldest      *)
(* first, with white space encoded (strvis with VIS_WHITE).                *)

Space   == "space"
Encoded == "\\040"
Cookie  == <<"_HiStOrY_V2_">>

Vis(s) == [i \in 1..Len(s) |-> IF s[i] = Space THEN Encoded ELSE s[i]]

HistoryFile(entries) ==
    IF entries = <<>>
    THEN <<>>
    ELSE <<Cookie>> \o [i \in 1..Len(entries) |-> Vis(entries[i])]
=============================================================================
