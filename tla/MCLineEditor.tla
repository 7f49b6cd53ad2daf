---------------------------- MODULE MCLineEditor ----------------------------
(***************************************************************************)
(* LineEditor for TLC: one bound and one unbound character and the space,  *)
(* which ends a word; "exit" is a word of two letters.                     *)
(***************************************************************************)
EXTENDS LineEditor

OneLetter == {"a"}
OneOther  == {"-"}
Exit      == {<<"a", "a">>}
=============================================================================
