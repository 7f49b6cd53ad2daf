--------------------------- MODULE NetconfServer ---------------------------
(***************************************************************************)
(* netd, the NETCONF server: the main loop of server/main.cpp, which       *)
(* accepts and polls sessions one event at a time, the dispatch of         *)
(* Server::server_rpc_callback and the two datastores of NetconfExecutor,  *)
(* which every session shares.                                             *)
(*                                                                         *)
(* A datastore is a libyang tree or a null pointer.  A tree is abstracted  *)
(* to the set of its top-level nodes, so the empty set is the null         *)
(* pointer: libyang has no tree without a node.  Replies are kept as their *)
(* kind and the one node a data reply carries.                             *)
(***************************************************************************)
EXTENDS FiniteSets

CONSTANTS
    Session,     \* the sessions clients may open, each at most once
    Node,        \* top-level nodes that a payload can put into a datastore
    Config,      \* the name of an edit-config's <config> child
    None,        \* no session, no node
    DupMayFail   \* may a lyd_dup call that is not checked run out of memory?

ASSUME NameAssumption == Config \notin Node /\ None \notin Node \cup Session
ASSUME DupAssumption  == DupMayFail \in BOOLEAN

VARIABLES
    pc,          \* where main() is
    gRunning,    \* the flag the signal handlers clear
    ps,          \* the sessions held by the pollsession structure
    status,      \* of each session
    request,     \* has the session sent an RPC that was not read yet?
    running,     \* g_running of NetconfExecutor.cpp
    candidate,   \* g_candidate
    reply,       \* the last reply produced
    discarded    \* history: nodes whose last edit was thrown away

loopVars  == <<pc, gRunning, ps, status, request>>
storeVars == <<running, candidate, discarded>>
vars      == <<pc, gRunning, ps, status, request, running, candidate, reply,
               discarded>>

Loop     == {"accept", "poll"}
PcType   == {"start", "accept", "poll", "stopped", "exited"}
SessionStatus == {"none", "connecting", "open", "hungup", "freed"}
ReplyKind     == {"none", "ok", "error", "data", "null", "library"}
Operation == {"none", "get", "edit-config", "copy-config", "delete-config",
              "commit", "discard-changes", "no-op", "get-schema",
              "close-session"}
NoReply  == [to |-> None, op |-> "none", kind |-> "none", node |-> None,
             sent |-> {}]

----------------------------------------------------------------------------
(* Start and stop                                                          *)

Init ==
    /\ pc = "start"
    /\ gRunning = TRUE
    /\ ps = {}
    /\ status = [s \in Session |-> "none"]
    /\ request = [s \in Session |-> FALSE]
    /\ running = {}
    /\ candidate = {}
    /\ reply = NoReply
    /\ discarded = {}

\* Everything main() does before its loop.  Only nc_server_init and nc_ps_new
\* can make it give up; the other failures are logged and ignored.
Start ==
    /\ pc = "start"
    /\ pc' \in {"accept", "exited"}
    /\ UNCHANGED <<gRunning, ps, status, request, reply, storeVars>>

\* SIGINT or SIGTERM, at any moment once the handlers are installed.
Signal ==
    /\ pc \in Loop
    /\ gRunning' = FALSE
    /\ UNCHANGED <<pc, ps, status, request, reply, storeVars>>

\* Mutant: The loop polls again instead of testing g_running.
ShutdownNever ==
    /\ pc = "accept"
    /\ ~gRunning
    /\ pc' = "poll"
    /\ UNCHANGED <<gRunning, ps, status, request, reply, storeVars>>

\* The loop condition is false: the poll structure is freed, the sessions in
\* it are not, and the library is destroyed.
Shutdown ==
    /\ pc = "accept"
    /\ ~gRunning
    /\ pc' = "stopped"
    /\ ps' = {}
    /\ UNCHANGED <<gRunning, status, request, reply, storeVars>>

----------------------------------------------------------------------------
(* Sessions.  Connect, Send and HangUp are the clients'.                   *)

Connect(s) ==
    /\ status[s] = "none"
    /\ status' = [status EXCEPT ![s] = "connecting"]
    /\ UNCHANGED <<pc, gRunning, ps, request, reply, storeVars>>

Send(s) ==
    /\ status[s] = "open"
    /\ ~request[s]
    /\ request' = [request EXCEPT ![s] = TRUE]
    /\ UNCHANGED <<pc, gRunning, ps, status, reply, storeVars>>

HangUp(s) ==
    /\ status[s] = "open"
    /\ status' = [status EXCEPT ![s] = "hungup"]
    /\ UNCHANGED <<pc, gRunning, ps, request, reply, storeVars>>

\* nc_accept found nobody within its 100 ms.
AcceptTimeout ==
    /\ pc = "accept" /\ gRunning
    /\ pc' = "poll"
    /\ UNCHANGED <<gRunning, ps, status, request, reply, storeVars>>

\* nc_accept returned NC_MSG_HELLO and the session joined the poll structure.
Accept(s) ==
    /\ pc = "accept" /\ gRunning
    /\ status[s] = "connecting"
    /\ status' = [status EXCEPT ![s] = "open"]
    /\ ps' = ps \cup {s}
    /\ pc' = "poll"
    /\ UNCHANGED <<gRunning, request, reply, storeVars>>

\* The handshake failed inside the library, or nc_ps_add_session failed and
\* main() freed the new session itself.
Refuse(s) ==
    /\ pc = "accept" /\ gRunning
    /\ status[s] = "connecting"
    /\ status' = [status EXCEPT ![s] = "freed"]
    /\ pc' = "poll"
    /\ UNCHANGED <<gRunning, ps, request, reply, storeVars>>

\* nc_ps_poll came back with nothing: no session, or none with an event.
PollIdle ==
    /\ pc = "poll"
    /\ \A s \in ps : status[s] = "open" /\ ~request[s]
    /\ pc' = "accept"
    /\ UNCHANGED <<gRunning, ps, status, request, reply, storeVars>>

\* Mutant: The close path frees the session and forgets nc_ps_del_session.
DropKeepsPolled(s) ==
    /\ UNCHANGED ps
    /\ status' = [status EXCEPT ![s] = "freed"]
    /\ request' = [request EXCEPT ![s] = FALSE]

\* nc_ps_poll reported NC_PSPOLL_SESSION_TERM or _ERROR for session s.
Drop(s) ==
    /\ ps' = ps \ {s}
    /\ status' = [status EXCEPT ![s] = "freed"]
    /\ request' = [request EXCEPT ![s] = FALSE]

PollTerminated(s) ==
    /\ pc = "poll"
    /\ s \in ps
    /\ Drop(s)
    /\ pc' = "accept"
    /\ UNCHANGED <<gRunning, reply, storeVars>>

----------------------------------------------------------------------------
(* Requests.  nc_ps_poll reads one request of one session and calls        *)
(* server_rpc_callback; the RPC it holds is chosen when it is read.        *)

\* Mutant: A request is answered and left in the session's input.
ReadLeaves(s) ==
    /\ pc = "poll"
    /\ s \in ps
    /\ request[s]
    /\ pc' = "accept"
    /\ UNCHANGED request
    /\ UNCHANGED <<gRunning, ps, status>>

Read(s) ==
    /\ pc = "poll"
    /\ s \in ps
    /\ request[s]
    /\ pc' = "accept"
    /\ request' = [request EXCEPT ![s] = FALSE]
    /\ UNCHANGED <<gRunning, ps, status>>

Answer(s, o, k) ==
    reply' = [to |-> s, op |-> o, kind |-> k, node |-> None, sent |-> {}]

\* What an unchecked duplication of tree leaves in the destination pointer.
Dup(tree) == IF DupMayFail THEN {tree, {}} ELSE {tree}

\* The callback keeps a copy of the first child of the operation, without its
\* own children: lyd_dup_single is called with no LYD_DUP_RECURSIVE.
Payload(first, config) == [root |-> first, kids |-> {}]

\* Mutant: the root itself is merged, <config> or not.
ConfigNodesRoot(payload) == {payload.root}

\* The nodes editConfig will merge: below a <config> root, else the root.
ConfigNodes(payload) ==
    IF payload.root = Config THEN payload.kids ELSE {payload.root}

\* Mutant: An absent candidate starts empty instead of as a clone of running.
SeedsEmpty == {candidate}

\* editConfig clones running into an absent candidate before it merges.
Seeds == IF candidate = {} THEN Dup(running) ELSE {candidate}

\* edit-config whose <config> holds config and whose first child is first.
\* The target datastore and the default-operation in it are not looked at.
\* A copy that failed is not looked at either: it is a null payload, and OK.
EditNothing(s, first, config) ==
    /\ Read(s)
    /\ DupMayFail \/ ConfigNodes(Payload(first, config)) = {}
    /\ reply' = [to |-> s, op |-> "edit-config", kind |-> "ok", node |-> None,
                 sent |-> config]
    /\ UNCHANGED storeVars

\* Mutant: The edit goes straight into running.
EditMergeRunning(s, first, config) ==
    LET merged == ConfigNodes(Payload(first, config)) IN
    /\ Read(s)
    /\ merged # {}
    /\ running' = running \cup merged
    /\ discarded' = discarded \ merged
    /\ reply' = [to |-> s, op |-> "edit-config", kind |-> "ok", node |-> None,
                 sent |-> config]
    /\ UNCHANGED candidate

EditMerge(s, first, config) ==
    LET merged == ConfigNodes(Payload(first, config)) IN
    /\ Read(s)
    /\ merged # {}
    /\ \E seed \in Seeds : candidate' = seed \cup merged
    /\ discarded' = discarded \ merged
    /\ reply' = [to |-> s, op |-> "edit-config", kind |-> "ok", node |-> None,
                 sent |-> config]
    /\ UNCHANGED running

\* Mutant: The tree is merged before the result of the merge is known.
EditFailsMerged(s, first, config) ==
    /\ Read(s)
    /\ ConfigNodes(Payload(first, config)) # {}
    /\ \E seed \in Seeds :
          candidate' = seed \cup ConfigNodes(Payload(first, config))
    /\ reply' = [to |-> s, op |-> "edit-config", kind |-> "error",
                 node |-> None, sent |-> config]
    /\ UNCHANGED <<running, discarded>>

\* lyd_merge_siblings failed: the candidate it would have merged into stays.
EditFails(s, first, config) ==
    /\ Read(s)
    /\ ConfigNodes(Payload(first, config)) # {}
    /\ candidate' \in Seeds
    /\ reply' = [to |-> s, op |-> "edit-config", kind |-> "error",
                 node |-> None, sent |-> config]
    /\ UNCHANGED <<running, discarded>>

EditConfig(s, first, config) ==
    \/ EditNothing(s, first, config)
    \/ EditMerge(s, first, config)
    \/ EditFails(s, first, config)

\* get and get-config: the reply carries a copy of one sibling of running.
GetEmpty(s) ==
    /\ Read(s)
    /\ running = {}
    /\ Answer(s, "get", "ok")
    /\ UNCHANGED storeVars

GetData(s) ==
    /\ Read(s)
    /\ \E n \in running :
          reply' = [to |-> s, op |-> "get", kind |-> "data", node |-> n,
                    sent |-> running]
    /\ UNCHANGED storeVars

\* A duplication failed: in getConfig, an error; in the reply, a null reply.
GetFails(s) ==
    /\ Read(s)
    /\ DupMayFail
    /\ running # {}
    /\ \E k \in {"error", "null"} : Answer(s, "get", k)
    /\ UNCHANGED storeVars

\* copyConfig frees the destination before it looks at the source.
CopyConfig(s) ==
    /\ Read(s)
    /\ running' = {}
    /\ Answer(s, "copy-config", "ok")
    /\ UNCHANGED <<candidate, discarded>>

\* commit is copyConfig(Candidate, Running): the candidate is kept, and an
\* absent candidate leaves running empty.
Commit(s) ==
    /\ Read(s)
    /\ running' \in Dup(candidate)
    /\ Answer(s, "commit", "ok")
    /\ UNCHANGED <<candidate, discarded>>

\* Mutant: discard-changes forgets to free the candidate.
DiscardKeeps(s, o) ==
    /\ Read(s)
    /\ UNCHANGED candidate
    /\ discarded' = discarded \cup (candidate \ running)
    /\ Answer(s, o, "ok")
    /\ UNCHANGED running

\* delete-config and discard-changes both free the candidate.
Discard(s, o) ==
    /\ Read(s)
    /\ candidate' = {}
    /\ discarded' = discarded \cup (candidate \ running)
    /\ Answer(s, o, "ok")
    /\ UNCHANGED running

\* lock, unlock, kill-session and validate answer OK and do nothing, and so
\* does every operation the callback has not heard of.
NoOp(s) ==
    /\ Read(s)
    /\ Answer(s, "no-op", "ok")
    /\ UNCHANGED storeVars

\* get-schema goes to the library's own handler.
GetSchema(s) ==
    /\ Read(s)
    /\ Answer(s, "get-schema", "library")
    /\ UNCHANGED storeVars

\* close-session too; the poll then reports the session as terminated.  The
\* candidate outlives the session that edited it.
CloseSession(s) ==
    /\ pc = "poll"
    /\ s \in ps
    /\ request[s]
    /\ Drop(s)
    /\ Answer(s, "close-session", "library")
    /\ pc' = "accept"
    /\ UNCHANGED <<gRunning, storeVars>>

Serve(s) ==
    \/ \E first \in Node \cup {Config}, config \in SUBSET Node :
          EditConfig(s, first, config)
    \/ GetEmpty(s) \/ GetData(s) \/ GetFails(s)
    \/ CopyConfig(s)
    \/ Commit(s)
    \/ \E o \in {"delete-config", "discard-changes"} : Discard(s, o)
    \/ NoOp(s) \/ GetSchema(s) \/ CloseSession(s)

----------------------------------------------------------------------------
(* The specification.  main() is one thread and none of its calls waits    *)
(* for more than its timeout, so its steps are weakly fair.  That the poll *)
(* keeps coming back to a session with a request is the library's promise: *)
(* nc_ps_poll resumes after the session it served last.                    *)

MainStep ==
    \/ Start \/ Shutdown \/ AcceptTimeout \/ PollIdle
    \/ \E s \in Session :
          Accept(s) \/ Refuse(s) \/ PollTerminated(s) \/ Serve(s)

Next ==
    \/ MainStep
    \/ Signal
    \/ \E s \in Session : Connect(s) \/ Send(s) \/ HangUp(s)

Spec == Init /\ [][Next]_vars

Fairness ==
    /\ WF_vars(MainStep)
    /\ \A s \in Session : SF_vars(Serve(s) \/ PollTerminated(s))

LiveSpec == Spec /\ Fairness

----------------------------------------------------------------------------
(* Properties                                                              *)

ReplyType == [to : Session \cup {None}, op : Operation,
              kind : ReplyKind, node : Node \cup {None}, sent : SUBSET Node]

\* Every variable stays in its domain.
TypeOK ==
    /\ pc \in PcType
    /\ gRunning \in BOOLEAN
    /\ ps \subseteq Session
    /\ status \in [Session -> SessionStatus]
    /\ request \in [Session -> BOOLEAN]
    /\ running \subseteq Node
    /\ candidate \subseteq Node
    /\ reply \in ReplyType
    /\ discarded \subseteq Node

\* While the loop runs, the poll structure holds exactly the sessions that
\* are allocated: a freed session is never polled again, and a session that
\* was accepted is never lost between nc_accept and nc_ps_poll.
PollSetExact ==
    pc \in Loop => ps = {s \in Session : status[s] \in {"open", "hungup"}}

\* A candidate contains everything that is running, however the sessions'
\* edits, commits and copies interleave: so a commit adds what was edited and
\* drops nothing.  Relies on every duplication succeeding.
CandidateExtendsRunning == candidate # {} => running \subseteq candidate

\* An edit thrown away by discard-changes or delete-config is gone: neither a
\* later clone of running nor a later commit by any session brings it back
\* unless some session edits it again.
DiscardedStaysOut == (running \cup candidate) \cap discarded = {}

\* No step makes anything running that was not in the candidate before it:
\* an edit is never visible to readers until some session commits.
RunningGrowsFromCandidate == [][running' \subseteq running \cup candidate]_vars

\* An edit-config answered with an error leaves no edit behind it that a
\* later commit would publish, although it may already have created the
\* candidate.
FailedEditAddsNothing ==
    [][reply'.op = "edit-config" /\ reply'.kind = "error"
       => candidate' \ running' \subseteq candidate \ running]_vars

\* After a signal main() leaves its loop and stops, whatever clients do.
ShutdownCompletes == ~gRunning ~> pc = "stopped"

\* A request that reached an open session is read, or its session ends, or
\* the server stops.
RequestServed ==
    \A s \in Session : request[s] ~> (~request[s] \/ pc = "stopped")

\* The two datastores implement the abstract store: what is pending is the
\* part of the candidate that is not running.
Store == INSTANCE ConfigStore WITH pending <- candidate \ running
StoreRefined == Store!StoreSpec

----------------------------------------------------------------------------
(* What a comment in the source says of an edit.                           *)

\* NetconfExecutor::editConfig says it takes the children of the <config> of
\* the edit-config and applies them to the candidate.
EditReachesCandidate ==
    reply.op = "edit-config" /\ reply.kind = "ok"
    => reply.sent \subseteq candidate
=============================================================================
