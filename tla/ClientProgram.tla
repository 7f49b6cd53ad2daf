---------------------------- MODULE ClientProgram ----------------------------
(***************************************************************************)
(* The client program: `show interfaces`, the layout of a table, the       *)
(* completion of a line and the NETCONF client have no state in common, so *)
(* each behaviour is about one of them.                                    *)
(***************************************************************************)
EXTENDS ShowInterfaces, TableLayout, Completion, NetconfClient

VARIABLE subject  \* "show", "layout", "complete" or "netconf"

programVars == <<showVars, layoutVars, completionVars, clientVars, subject>>

\* The interfaces there may be at first, and the tables and lengths of lines to
\* lay out.
ProgramInit(Starts) ==
  /\ subject \in {"show", "layout", "complete", "netconf"}
  /\ ShowInit(Starts)
  /\ LayoutInit
  /\ CompletionInit
  /\ ClientInit

ProgramNext(Inputs) ==
  /\ UNCHANGED subject
  /\ \/ /\ subject = "show" /\ ShowNext
        /\ UNCHANGED <<layoutVars, completionVars, clientVars>>
     \/ /\ subject = "layout" /\ LayoutNext(Inputs)
        /\ UNCHANGED <<showVars, completionVars, clientVars>>
     \/ /\ subject = "complete" /\ CompletionNext
        /\ UNCHANGED <<showVars, layoutVars, clientVars>>
     \/ /\ subject = "netconf" /\ ClientNext
        /\ UNCHANGED <<showVars, layoutVars, completionVars>>

ProgramSpec(Starts, Inputs) == ProgramInit(Starts) /\ [][ProgramNext(Inputs)]_programVars

\* Types of the state.
ClientTypeOK == ShowTypeOK /\ LayoutTypeOK

=============================================================================
