----------------------------- MODULE PlainLine -----------------------------
(***************************************************************************)
(* A command prompt without inline previews: the keys edit one line, Enter *)
(* runs what the line shows, and a search of the history can replace the   *)
(* line or give it back.  It is what a user of the prompt of src/CLI.cpp   *)
(* takes it for; LineEditor implements it as long as its user is careful.  *)
(***************************************************************************)
EXTENDS EditLine

CONSTANTS Char,       \* the characters a line is made of
          ExitLine    \* the lines that leave the prompt

VARIABLES mode,       \* "edit", "search" or "exited"
          line,       \* what the line shows
          before,     \* the text the search will give back
          past,       \* the commands that can be recalled
          ran,        \* the last command that was run
          signalled   \* did SIGINT arrive since the last prompt?

plainVars == <<mode, line, before, past, ran, signalled>>

PlainInit ==
    /\ mode = "edit"
    /\ line = EmptyLine
    /\ before = <<>>
    /\ past \subseteq Seq(Char)
    /\ ran = <<>>
    /\ signalled = FALSE

\* The new characters are where the old line had its cursor.
Insert ==
    \E n \in 0..(Len(line'.text) - Len(line.text)) :
        line' = Insertstr(line, SubSeq(line'.text, line.cur + 1, line.cur + n))

DeleteBack  == line' = Deletestr(line, 1)
DeleteUnder == line' = Deletestr(CursorBy(line, 1), 1)
Move        == line'.text = line.text /\ line' \in Line(Char)
KillToEnd   == line' = LineOf(Left(line))
Recall      == \E s \in past : line' = LineOf(s)
Clear       == line' = EmptyLine

\* A key that edits the line.
EditKey ==
    /\ mode = "edit"
    /\ \/ Insert \/ DeleteBack \/ DeleteUnder \/ Move \/ KillToEnd
       \/ Recall \/ Clear
    /\ UNCHANGED <<mode, before, past, ran, signalled>>

Search ==
    /\ mode = "edit"
    /\ mode' = "search"
    /\ before' = line.text
    /\ line' = EmptyLine
    /\ UNCHANGED <<past, ran, signalled>>

\* The search shows nothing or a line of the history file.
Look ==
    /\ mode = "search"
    /\ line'.text \in {<<>>, Cookie} \cup {Vis(s) : s \in past}
    /\ line' = LineOf(line'.text)
    /\ UNCHANGED <<mode, before, past, ran, signalled>>

Accept ==
    /\ mode = "search"
    /\ mode' = "edit"
    /\ before' = <<>>
    /\ UNCHANGED <<line, past, ran, signalled>>

Cancel ==
    /\ mode = "search"
    /\ mode' = "edit"
    /\ line' = LineOf(before)
    /\ before' = <<>>
    /\ UNCHANGED <<past, ran, signalled>>

\* Run the line as it stands, unless it is empty or leaves the prompt.
Run ==
    /\ mode = "edit"
    /\ ~signalled
    /\ line' = EmptyLine
    /\ IF line.text = <<>> \/ line.text \in ExitLine
       THEN UNCHANGED <<ran, past>>
       ELSE /\ ran' = line.text
            /\ line.text \in past'
            /\ past' \subseteq past \cup {line.text}
    /\ mode' = IF line.text \in ExitLine THEN "exited" ELSE mode
    /\ UNCHANGED <<before, signalled>>

\* SIGINT: the line of that prompt will not run.
Interrupt ==
    /\ mode \in {"edit", "search"}
    /\ signalled' = TRUE
    /\ mode' = "edit"
    /\ before' = <<>>
    /\ UNCHANGED <<line, past, ran>>

Drop ==
    /\ mode = "edit"
    /\ signalled
    /\ line' = EmptyLine
    /\ signalled' = FALSE
    /\ UNCHANGED <<mode, before, past, ran>>

\* End of file, which a terminal sends on an empty line only.
Leave ==
    /\ mode = "edit"
    /\ line.text = <<>>
    /\ mode' = "exited"
    /\ UNCHANGED <<line, before, past, ran, signalled>>

PlainNext ==
    \/ EditKey \/ Search \/ Look \/ Accept \/ Cancel
    \/ Run \/ Interrupt \/ Drop \/ Leave

PlainSpec == PlainInit /\ [][PlainNext]_plainVars
=============================================================================
