---------------------------- MODULE ConfigStore ----------------------------
(***************************************************************************)
(* What the two datastores of netd promise together, whoever the clients   *)
(* are: a running configuration, and edits that are invisible until they   *)
(* are committed.  NetconfServer implements it with pending standing for   *)
(* the part of the candidate that running does not have.                   *)
(***************************************************************************)
CONSTANT Node          \* the subtrees a configuration is made of

VARIABLES running,     \* what get and get-config read
          pending      \* edited, not yet published

storeVars == <<running, pending>>

StoreInit == running = {} /\ pending = {}

\* Accept an edit.  Nothing of it shows in running.
Edit(n) ==
    /\ n \in Node \ running
    /\ pending' = pending \cup {n}
    /\ UNCHANGED running

\* Publish every pending edit at once, on top of what was running.
Publish ==
    /\ running' = running \cup pending
    /\ pending' = {}

\* Forget every pending edit.
Forget ==
    /\ pending' = {}
    /\ UNCHANGED running

\* The running configuration is emptied: a commit with no candidate, or a
\* copy-config.  A candidate cloned from it earlier still holds its nodes,
\* which are now edits that a later commit would publish.
Wipe ==
    /\ running' = {}
    /\ pending' \in {pending, pending \cup running}

StoreNext == Publish \/ Forget \/ Wipe \/ \E n \in Node : Edit(n)

StoreSpec == StoreInit /\ [][StoreNext]_storeVars
=============================================================================
