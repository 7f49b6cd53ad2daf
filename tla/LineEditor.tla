----------------------------- MODULE LineEditor -----------------------------
(***************************************************************************)
(* The interactive prompt of src/CLI.cpp: the key handlers it binds in     *)
(* libedit, the inline preview they keep in the edit buffer behind the     *)
(* cursor, the reverse search of the history, SIGINT and the loop of       *)
(* run() that strips the preview and executes the line.                    *)
(*                                                                         *)
(* A line is a sequence of characters; a character of a preview is kept    *)
(* apart from a typed one as Ghost, which the code cannot do: it only has  *)
(* preview_len_.  What the completion of a word is depends on the command  *)
(* language and on the interfaces of the machine; here it may be any.      *)
(***************************************************************************)
EXTENDS EditLine

CONSTANTS
    Letter,      \* characters bound to showInlinePreview
    Other,       \* printable characters that are not: ed-insert of libedit
    ExitLine,    \* "exit" and "quit"
    MaxLine,     \* bound on what is typed into a line
    MaxSuffix,   \* bound on what a completion adds to a word
    MaxQuery,    \* bound on the query of a search
    HistSize,    \* H_SETSIZE, 1000 in the code
    Careful      \* does the user leave a preview only by the keys CLI binds?

Ghost == "ghost"
Typed == Letter \cup Other \cup {Space}
Char  == Typed \cup {Encoded, Cookie[1]}
Cell  == Char \cup {Ghost}

ASSUME CharAssumption  == Ghost \notin Letter \cup Other
ASSUME BoundAssumption == /\ MaxSuffix \in Nat /\ MaxLine \in Nat
                          /\ MaxQuery \in Nat /\ HistSize \in Nat \ {0}
ASSUME ExitAssumption  == ExitLine \subseteq Seq(Char) \ {<<>>}
ASSUME CarefulAssumption == Careful \in BOOLEAN

VARIABLES
    mode,        \* "edit" in el_gets, "search" in runReverseSearch, "exited"
    line,        \* the edit buffer of libedit and its cursor
    preview,     \* preview_len_
    hist,        \* the history, oldest first
    ran,         \* the last line given to the dispatcher
    sigint,      \* g_sigint_received
    saved,       \* saved_line of runReverseSearch
    query,       \* search_query_
    index        \* the line of the history file that search_matches_ has at
                 \* search_index_, 0 for none

searchVars == <<saved, query, index>>
vars == <<mode, line, preview, hist, ran, sigint, saved, query, index>>

Init ==
    /\ mode = "edit"
    /\ line = EmptyLine
    /\ preview = 0
    /\ hist = <<>>
    /\ ran = <<>>
    /\ sigint = FALSE
    /\ saved = <<>> /\ query = <<>> /\ index = 0

----------------------------------------------------------------------------
(* The preview                                                             *)

\* Mutant: the preview is deleted before the cursor.
ClearedNoMove == Deletestr(line, preview)

\* clearPreview: the buffer without the preview_len_ characters that should
\* follow the cursor.
Cleared ==
    IF preview <= 0
    THEN line
    ELSE Deletestr(CursorBy(line, preview), preview)

\* The word before the cursor is not empty.
Partial(L) == L.cur > 0 /\ L.text[L.cur] # Space

\* The line with a suffix of n characters inserted after the cursor.
WithPreview(L, n) ==
    CursorBy(Insertstr(L, [i \in 1..n |-> Ghost]), -n)

\* computeAndShowPreview on L: no completion, or the rest of the first one.
ShowPreview(L) ==
    \E n \in 0..MaxSuffix :
        /\ n > 0 => Partial(L)
        /\ line' = WithPreview(L, n)
        /\ preview' = n

Room == Len(line'.text) <= MaxLine + preview'

KeepsRest == UNCHANGED <<mode, hist, ran, sigint, searchVars>>

----------------------------------------------------------------------------
(* The keys that CLI binds                                                 *)

\* showInlinePreview
TypeLetter ==
    /\ mode = "edit"
    /\ \E c \in Letter : ShowPreview(Insertstr(Cleared, <<c>>))
    /\ Room
    /\ KeepsRest

\* handleSpace
TypeSpace ==
    /\ mode = "edit"
    /\ line' = Insertstr(Cleared, <<Space>>)
    /\ preview' = 0
    /\ Room
    /\ KeepsRest

\* handleBackspacePreview
Backspace ==
    /\ mode = "edit"
    /\ ShowPreview(Deletestr(Cleared, 1))
    /\ KeepsRest

\* completeCommand: the one completion is inserted, several are printed.
Tab ==
    /\ mode = "edit"
    /\ \E n \in 0..MaxSuffix : \E s \in [1..n -> Letter] :
           line' = Insertstr(Cleared, s)
    /\ preview' = 0
    /\ Room
    /\ KeepsRest

\* clearLineBuffer on L: to the end of the buffer, then delete its length.
ClearedBuffer(L) == Deletestr(CursorBy(L, Len(L.text) - L.cur), Len(L.text))

\* handleCtrlC
CtrlC ==
    /\ mode = "edit"
    /\ line' = ClearedBuffer(Cleared)
    /\ preview' = 0
    /\ KeepsRest

\* The length without the preview, as handleCtrlD computes it.
RealLen == Len(line.text) - preview

\* handleCtrlD on an empty line
CtrlDExit ==
    /\ mode = "edit"
    /\ RealLen = 0
    /\ line.cur = 0
    /\ mode' = "exited"
    /\ UNCHANGED <<line, preview, hist, ran, sigint, searchVars>>

\* handleCtrlD elsewhere; at the end of the text it does nothing.
CtrlDDelete ==
    /\ mode = "edit"
    /\ line.cur < RealLen
    /\ ShowPreview(Deletestr(CursorBy(Cleared, 1), 1))
    /\ KeepsRest

----------------------------------------------------------------------------
(* Keys of libedit's emacs map that CLI leaves as they are.  They know     *)
(* nothing of the preview.                                                 *)

TypeOther ==
    /\ mode = "edit"
    /\ \E c \in Other : line' = Insertstr(line, <<c>>)
    /\ UNCHANGED preview
    /\ Room
    /\ KeepsRest

\* A careful user leaves the cursor where it is while a preview is shown.
MayMove == Careful => preview = 0

\* Arrows, Home, End
MoveCursor ==
    /\ mode = "edit"
    /\ MayMove
    /\ \E c \in 0..Len(line.text) : line' = [text |-> line.text, cur |-> c]
    /\ UNCHANGED preview
    /\ KeepsRest

\* ^K
KillToEnd ==
    /\ mode = "edit"
    /\ MayMove
    /\ line' = LineOf(Left(line))
    /\ UNCHANGED preview
    /\ KeepsRest

\* Up and Down: an entry of the history takes the place of the line.
Recall ==
    /\ mode = "edit"
    /\ MayMove
    /\ \E i \in 1..Len(hist) : line' = LineOf(hist[i])
    /\ UNCHANGED preview
    /\ KeepsRest

----------------------------------------------------------------------------
(* Reverse search                                                          *)

Contains(s, q) ==
    \E k \in 0..(Len(s) - Len(q)) : \A i \in 1..Len(q) : s[k + i] = q[i]

\* Where the history file has the lines that recomputeMatches collects for q.
Hits(q) ==
    {i \in 1..Len(HistoryFile(hist)) : q # <<>> /\ Contains(HistoryFile(hist)[i], q)}

\* The last of a set of places in the file, which is the newest line.
Latest(S) == {i \in S : \A j \in S : j <= i}

\* showMatch: the line of the file at i takes the place of the edit buffer.
ShowMatch(i) ==
    line' = IF i = 0
            THEN ClearedBuffer(line)
            ELSE Insertstr(ClearedBuffer(line), HistoryFile(hist)[i])

\* Mutant: the place in search_matches_ outlives the matches.
SearchForKeepsIndex(q) ==
    /\ query' = q
    /\ index' = index
    /\ ShowMatch(0)
    /\ UNCHANGED <<mode, preview, hist, ran, sigint, saved>>

\* Search for q, at its newest match.
SearchFor(q) ==
    /\ query' = q
    /\ index' \in IF Hits(q) = {} THEN {0} ELSE Latest(Hits(q))
    /\ ShowMatch(index')
    /\ UNCHANGED <<mode, preview, hist, ran, sigint, saved>>

\* Mutant: the line is saved before its preview is taken out.
CtrlREarly ==
    /\ mode = "edit"
    /\ mode' = "search"
    /\ saved' = line.text
    /\ line' = ClearedBuffer(Cleared)
    /\ preview' = 0
    /\ query' = <<>>
    /\ index' = 0
    /\ UNCHANGED <<hist, ran, sigint>>

\* handleCtrlR
CtrlR ==
    /\ mode = "edit"
    /\ mode' = "search"
    /\ saved' = Cleared.text
    /\ line' = ClearedBuffer(Cleared)
    /\ preview' = 0
    /\ query' = <<>>
    /\ index' = 0
    /\ UNCHANGED <<hist, ran, sigint>>

SearchType ==
    /\ mode = "search"
    /\ Len(query) < MaxQuery
    /\ \E c \in Typed : SearchFor(Append(query, c))

SearchBackspace ==
    /\ mode = "search"
    /\ query # <<>>
    /\ SearchFor(SubSeq(query, 1, Len(query) - 1))

\* Ctrl-R again: the next older match, after the oldest the newest.
Older == {i \in Hits(query) : i < index}

SearchNext ==
    /\ mode = "search"
    /\ index' \in Latest(IF Older = {} THEN Hits(query) ELSE Older)
    /\ ShowMatch(index')
    /\ UNCHANGED <<mode, preview, hist, ran, sigint, saved, query>>

\* The search returns; its local copy of the line goes with it.
SearchEnds ==
    /\ mode' = "edit"
    /\ saved' = <<>>
    /\ UNCHANGED <<preview, hist, ran, query, index>>

\* Enter: what is shown stays.
SearchAccept ==
    /\ mode = "search"
    /\ SearchEnds
    /\ UNCHANGED <<line, sigint>>

\* Ctrl-C, Ctrl-G and Escape, the first character of an arrow key
SearchCancel ==
    /\ mode = "search"
    /\ line' = Insertstr(ClearedBuffer(line), saved)
    /\ SearchEnds
    /\ UNCHANGED sigint

----------------------------------------------------------------------------
(* The loop of run()                                                       *)

\* The preview is taken off the end of the line, wherever the cursor is.
Strips == preview > 0 /\ Len(line.text) >= preview

\* Mutant: the line is run as it is.
CommandWhole == line.text

Command ==
    IF Strips THEN SubSeq(line.text, 1, Len(line.text) - preview)
              ELSE line.text

Newest(s) ==
    IF Len(s) <= HistSize THEN s
    ELSE SubSeq(s, Len(s) - HistSize + 1, Len(s))

\* Both run() and processLine() save the line that is executed.
Saved(s) == Newest(hist \o <<s, s>>)

\* A careful user presses Enter behind the preview or when there is none.
MayEnter == Careful => preview = 0 \/ line.cur + preview = Len(line.text)

Enter ==
    /\ mode = "edit"
    /\ ~sigint
    /\ MayEnter
    /\ line' = EmptyLine
    /\ preview' = IF Strips THEN 0 ELSE preview
    /\ IF Command = <<>> \/ Command \in ExitLine
       THEN UNCHANGED <<ran, hist>>
       ELSE ran' = Command /\ hist' = Saved(Command)
    /\ mode' = IF Command \in ExitLine THEN "exited" ELSE mode
    /\ UNCHANGED <<sigint, searchVars>>

\* cli_sigint_handler.  A read that the search waits in fails, which ends
\* the search with the match in the line.
Sigint ==
    /\ mode \in {"edit", "search"}
    /\ sigint' = TRUE
    /\ SearchEnds
    /\ UNCHANGED line

\* el_gets returns, with a line or without, and run() sees the flag.
DropLine ==
    /\ mode = "edit"
    /\ sigint
    /\ line' = EmptyLine
    /\ preview' = 0
    /\ sigint' = FALSE
    /\ UNCHANGED <<mode, hist, ran, searchVars>>

Key ==
    \/ TypeLetter \/ TypeSpace \/ Backspace \/ Tab \/ CtrlC
    \/ CtrlDExit \/ CtrlDDelete \/ TypeOther
    \/ MoveCursor \/ KillToEnd \/ Recall

SearchKey ==
    SearchType \/ SearchBackspace \/ SearchNext \/ SearchAccept \/ SearchCancel

Next == Key \/ CtrlR \/ SearchKey \/ Enter \/ Sigint \/ DropLine

Spec == Init /\ [][Next]_vars
----------------------------------------------------------------------------
(* Properties                                                              *)

\* Every variable has its type: the cursor is inside the buffer, and the
\* search points at a match it has.
TypeOK ==
    /\ mode \in {"edit", "search", "exited"}
    /\ line \in Line(Cell)
    /\ preview \in 0..MaxSuffix
    /\ hist \in Seq(Seq(Cell)) /\ Len(hist) <= HistSize
    /\ ran \in Seq(Cell)
    /\ sigint \in BOOLEAN
    /\ saved \in Seq(Cell)
    /\ query \in Seq(Typed)
    /\ index \in Nat
    /\ mode = "search" => index \in {0} \cup Hits(query)

\* "The preview sits after the cursor" (CLI.cpp:258): the preview_len_
\* characters behind the cursor are the preview, and there is no other
\* character of a preview in the line.
PreviewExact ==
    /\ preview <= Len(line.text) - line.cur
    /\ \A i \in 1..Len(line.text) :
           line.text[i] = Ghost <=> i \in (line.cur + 1)..(line.cur + preview)

\* "Strip any trailing preview text that was in the buffer" (CLI.cpp:643):
\* what the dispatcher is given has no character of a preview in it.
PreviewNeverRuns == \A i \in 1..Len(ran) : ran[i] # Ghost

\* The line as the user understands it: without the preview.
Visible ==
    [text |-> Left(line)
                \o SubSeq(line.text, line.cur + preview + 1, Len(line.text)),
     cur  |-> line.cur]

Plain == INSTANCE PlainLine WITH
    line <- Visible,
    before <- saved,
    past <- {hist[i] : i \in 1..Len(hist)},
    signalled <- sigint

\* With previews, searches and signals the prompt is a prompt without
\* previews: each key edits what is visible as it would there, a search that
\* is given up gives the line back, and what is visible is what runs.
ActsAsPlain == Plain!PlainSpec
=============================================================================
