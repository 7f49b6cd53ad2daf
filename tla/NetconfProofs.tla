---------------------------- MODULE NetconfProofs ----------------------------
(***************************************************************************)
(* Proofs about the two ends of NETCONF.  The server, for any number of    *)
(* sessions and nodes: types, the poll set, what a candidate holds, what an*)
(* edit leaves, and that the two datastores implement ConfigStore.  The    *)
(* client, for any servers and replies of any size: whom a request goes to,*)
(* and that every way out of GetInterfaces frees what it was given.        *)
(***************************************************************************)
EXTENDS NetconfServer, NetconfClient, TLAPS

-----------------------------------------------------------------------------
(* The server                                                              *)

\* The steps that read or write the datastores, cut down to what they do to
\* the datastores.  Every step of the server is one of these, or leaves the
\* datastores alone.
StoreStep ==
    \/ \E n \in Node :
          /\ \E seed \in Seeds : candidate' = seed \cup {n}
          /\ discarded' = discarded \ {n}
          /\ running' = running
    \/ candidate' \in Seeds /\ running' = running /\ discarded' = discarded
    \/ running' = {} /\ candidate' = candidate /\ discarded' = discarded
    \/ running' \in Dup(candidate) /\ candidate' = candidate
                                   /\ discarded' = discarded
    \/ /\ candidate' = {}
       /\ discarded' = discarded \cup (candidate \ running)
       /\ running' = running
    \/ UNCHANGED storeVars

\* A payload, copied without its children, has at most its root to merge.
LEMMA ConfigNodesType ==
    ASSUME NEW first \in Node \cup {Config}, NEW config
    PROVE  \/ ConfigNodes(Payload(first, config)) = {}
           \/ \E n \in Node : ConfigNodes(Payload(first, config)) = {n}
BY DEF ConfigNodes, Payload

\* Every step of the server does one of the datastore steps, or nothing, to
\* the two datastores.
LEMMA NextIsStoreStep ==
    ASSUME [Next]_vars
    PROVE  StoreStep
<1>1. CASE UNCHANGED vars
    BY <1>1 DEF vars, StoreStep, storeVars
<1>2. CASE Start \/ Shutdown \/ AcceptTimeout \/ PollIdle \/ Signal
    BY <1>2 DEF Start, Shutdown, AcceptTimeout, PollIdle, Signal, StoreStep,
                storeVars
<1>3. ASSUME NEW s \in Session,
             \/ Connect(s) \/ Send(s) \/ HangUp(s)
             \/ Accept(s) \/ Refuse(s) \/ PollTerminated(s)
             \/ NoOp(s) \/ GetSchema(s) \/ CloseSession(s)
             \/ GetEmpty(s) \/ GetData(s) \/ GetFails(s)
      PROVE  StoreStep
    BY <1>3 DEF Connect, Send, HangUp, Accept, Refuse, PollTerminated, NoOp,
                GetSchema, CloseSession, GetEmpty, GetData, GetFails,
                StoreStep, storeVars
<1>4. ASSUME NEW s \in Session, CopyConfig(s) \/ Commit(s)
      PROVE  StoreStep
    BY <1>4 DEF CopyConfig, Commit, StoreStep
<1>5. ASSUME NEW s \in Session, NEW o, Discard(s, o)
      PROVE  StoreStep
    BY <1>5 DEF Discard, StoreStep
<1>6. ASSUME NEW s \in Session, NEW first \in Node \cup {Config},
             NEW config \in SUBSET Node, EditConfig(s, first, config)
      PROVE  StoreStep
  <2>2. CASE EditNothing(s, first, config)
      BY <2>2 DEF EditNothing, StoreStep
  <2>3. CASE EditMerge(s, first, config)
    <3>1. PICK n \in Node : ConfigNodes(Payload(first, config)) = {n}
        BY <2>3, ConfigNodesType DEF EditMerge
    <3>2. QED BY <2>3, <3>1 DEF EditMerge, StoreStep
  <2>4. CASE EditFails(s, first, config)
      BY <2>4 DEF EditFails, StoreStep
  <2>5. QED BY <1>6, <2>2, <2>3, <2>4 DEF EditConfig
<1>7. QED BY <1>1, <1>2, <1>3, <1>4, <1>5, <1>6 DEF Next, MainStep, Serve

\* Whatever it serves, the callback runs inside one read of one request.
LEMMA ServeReads ==
    ASSUME NEW s \in Session, Serve(s)
    PROVE  Read(s) \/ CloseSession(s)
BY DEF Serve, GetEmpty, GetData, GetFails, CopyConfig, Commit, Discard, NoOp,
       GetSchema, EditConfig, EditNothing, EditMerge, EditFails

----------------------------------------------------------------------------
(* The datastores hold nodes.                                              *)

StoreType ==
    /\ running \subseteq Node
    /\ candidate \subseteq Node
    /\ discarded \subseteq Node

LEMMA StoreTypeStep ==
    ASSUME StoreType, StoreStep
    PROVE  StoreType'
BY DEF StoreType, StoreStep, Seeds, Dup, storeVars

\* TypeOK is an invariant of the server: no reply, session or datastore ever
\* leaves its domain, whichever requests the callback of Server.cpp handles.
THEOREM TypeCorrect == Spec => []TypeOK
<1>1. Init => TypeOK
    BY DEF Init, TypeOK, PcType, SessionStatus, NoReply, ReplyType, ReplyKind,
           Operation
<1>2. TypeOK /\ [Next]_vars => TypeOK'
  <2> SUFFICES ASSUME TypeOK, [Next]_vars PROVE TypeOK'
      OBVIOUS
  <2>1. StoreType'
      BY NextIsStoreStep, StoreTypeStep DEF TypeOK, StoreType
  <2>2. reply' \in ReplyType
    <3>1. CASE reply' = reply
        BY <3>1 DEF TypeOK
    <3>2. ASSUME NEW s \in Session, NEW o \in Operation,
                 NEW k \in ReplyKind, Answer(s, o, k)
          PROVE  reply' \in ReplyType
        BY <3>2 DEF Answer, ReplyType
    <3>3. ASSUME NEW s \in Session, Serve(s) PROVE reply' \in ReplyType
      <4>1. ASSUME NEW first \in Node \cup {Config},
                   NEW config \in SUBSET Node, EditConfig(s, first, config)
            PROVE  reply' \in ReplyType
          BY <4>1 DEF EditConfig, EditNothing, EditMerge, EditFails,
                      ReplyType, ReplyKind, Operation
      <4>2. CASE GetData(s)
          BY <4>2 DEF GetData, ReplyType, ReplyKind, Operation, TypeOK
      <4>3. CASE \/ GetEmpty(s) \/ GetFails(s) \/ CopyConfig(s)
                 \/ Commit(s) \/ NoOp(s) \/ GetSchema(s) \/ CloseSession(s)
                 \/ \E o \in {"delete-config", "discard-changes"} :
                       Discard(s, o)
        <5>1. \E o \in Operation, k \in ReplyKind : Answer(s, o, k)
            BY <4>3 DEF GetEmpty, GetFails, CopyConfig, Commit, NoOp,
                        GetSchema, CloseSession, Discard, Operation, ReplyKind
        <5>2. QED BY <5>1, <3>2
      <4>4. QED BY <3>3, <4>1, <4>2, <4>3 DEF Serve
    <3>4. QED
        BY <3>1, <3>3 DEF Next, MainStep, vars, Start, Shutdown,
           AcceptTimeout, PollIdle, Signal, Connect, Send, HangUp, Accept,
           Refuse, PollTerminated
  <2> DEFINE LoopType == /\ pc \in PcType
                         /\ gRunning \in BOOLEAN
                         /\ ps \subseteq Session
                         /\ status \in [Session -> SessionStatus]
                         /\ request \in [Session -> BOOLEAN]
  <2>3. LoopType'
    <3>1. LoopType
        BY DEF TypeOK
    <3>2. CASE UNCHANGED loopVars
        BY <3>1, <3>2 DEF loopVars
    <3>3. CASE Start \/ Shutdown \/ AcceptTimeout \/ PollIdle \/ Signal
        BY <3>1, <3>3 DEF Start, Shutdown, AcceptTimeout, PollIdle, Signal,
                          PcType
    <3>4. ASSUME NEW s \in Session, Connect(s) \/ Send(s) \/ HangUp(s)
          PROVE  LoopType'
        BY <3>1, <3>4 DEF Connect, Send, HangUp, SessionStatus
    <3>5. ASSUME NEW s \in Session, Accept(s) \/ Refuse(s)
          PROVE  LoopType'
        BY <3>1, <3>5 DEF Accept, Refuse, SessionStatus, PcType
    <3>6. ASSUME NEW s \in Session, PollTerminated(s) \/ CloseSession(s)
          PROVE  LoopType'
        BY <3>1, <3>6 DEF PollTerminated, CloseSession, Drop, SessionStatus,
                          PcType
    <3>7. ASSUME NEW s \in Session, Read(s)
          PROVE  LoopType'
        BY <3>1, <3>7 DEF Read, PcType
    <3>8. QED
        BY <3>2, <3>3, <3>4, <3>5, <3>6, <3>7, ServeReads
        DEF Next, MainStep, vars, loopVars
  <2>4. QED BY <2>1, <2>2, <2>3 DEF TypeOK, StoreType
<1>3. QED BY <1>1, <1>2, PTL DEF Spec

----------------------------------------------------------------------------
(* What the datastores hold.                                               *)

\* When no duplication fails, what a commit publishes always contains what
\* was running: no interleaving of the sessions' edit-config, copy-config,
\* discard-changes and commit makes a commit lose a running node.
THEOREM CandidateKeepsRunning ==
    DupMayFail = FALSE => (Spec => []CandidateExtendsRunning)
<1> SUFFICES ASSUME DupMayFail = FALSE
             PROVE  Spec => []CandidateExtendsRunning
    OBVIOUS
<1>1. Init => CandidateExtendsRunning
    BY DEF Init, CandidateExtendsRunning
<1>2. CandidateExtendsRunning /\ [Next]_vars => CandidateExtendsRunning'
  <2> SUFFICES ASSUME CandidateExtendsRunning, [Next]_vars
               PROVE  CandidateExtendsRunning'
      OBVIOUS
  <2>1. StoreStep
      BY NextIsStoreStep
  <2>2. QED BY <2>1 DEF StoreStep, Seeds, Dup, CandidateExtendsRunning, storeVars
<1>3. QED BY <1>1, <1>2, PTL DEF Spec

\* Edits freed by discard-changes or delete-config never come back on their
\* own, even when duplications fail.
THEOREM DiscardIsFinal == Spec => []DiscardedStaysOut
<1>1. Init => DiscardedStaysOut
    BY DEF Init, DiscardedStaysOut
<1>2. DiscardedStaysOut /\ [Next]_vars => DiscardedStaysOut'
  <2> SUFFICES ASSUME DiscardedStaysOut, [Next]_vars
               PROVE  DiscardedStaysOut'
      OBVIOUS
  <2>1. StoreStep
      BY NextIsStoreStep
  <2>2. \A seed \in Seeds : seed \subseteq running \cup candidate
      BY DEF Seeds, Dup
  <2>3. QED BY <2>1, <2>2 DEF StoreStep, Dup, DiscardedStaysOut, storeVars
<1>3. QED BY <1>1, <1>2, PTL DEF Spec

\* Readers never see an edit that was not in the candidate one step earlier:
\* only commit can add to g_running.
THEOREM OnlyCandidatePublished == Spec => RunningGrowsFromCandidate
<1>1. [Next]_vars => running' \subseteq running \cup candidate
  <2> SUFFICES ASSUME [Next]_vars PROVE running' \subseteq running \cup candidate
      OBVIOUS
  <2>1. StoreStep
      BY NextIsStoreStep
  <2>2. QED BY <2>1 DEF StoreStep, Dup, storeVars
<1>2. QED BY <1>1, PTL DEF Spec, RunningGrowsFromCandidate

\* An edit-config answered with an error has added nothing that a commit would
\* publish, even when the duplication of running into the candidate failed, and
\* whatever is answered, or not answered, by the steps that follow.
THEOREM FailedEditIsNoEdit == Spec => FailedEditAddsNothing
<1>1. [Next]_vars /\ reply'.op = "edit-config" /\ reply'.kind = "error"
      => candidate' \ running' \subseteq candidate \ running
  <2> SUFFICES ASSUME [Next]_vars,
                      reply'.op = "edit-config" /\ reply'.kind = "error"
               PROVE  candidate' \ running' \subseteq candidate \ running
      OBVIOUS
  <2>1. CASE UNCHANGED storeVars
      BY <2>1 DEF storeVars
  <2>2. CASE UNCHANGED vars
      BY <2>2 DEF vars, storeVars
  <2>3. CASE Start \/ Shutdown \/ AcceptTimeout \/ PollIdle \/ Signal
      BY <2>1, <2>3 DEF Start, Shutdown, AcceptTimeout, PollIdle, Signal, storeVars
  <2>4. ASSUME NEW s \in Session,
               \/ Connect(s) \/ Send(s) \/ HangUp(s)
               \/ Accept(s) \/ Refuse(s) \/ PollTerminated(s)
        PROVE  UNCHANGED storeVars
      BY <2>4 DEF Connect, Send, HangUp, Accept, Refuse, PollTerminated, storeVars
  <2>5. ASSUME NEW s \in Session, Serve(s)
        PROVE  candidate' \ running' \subseteq candidate \ running
    <3>1. ASSUME NEW first \in Node \cup {Config}, NEW config \in SUBSET Node,
                 EditConfig(s, first, config)
          PROVE  candidate' \ running' \subseteq candidate \ running
      <4>1. EditFails(s, first, config)
          BY <3>1 DEF EditConfig, EditNothing, EditMerge
      <4>2. QED BY <4>1 DEF EditFails, Seeds, Dup
    <3>2. CASE \/ GetEmpty(s) \/ GetData(s) \/ GetFails(s) \/ CopyConfig(s) \/ Commit(s)
               \/ NoOp(s) \/ GetSchema(s) \/ CloseSession(s)
        BY <3>2 DEF GetEmpty, GetData, GetFails, CopyConfig, Commit, NoOp, GetSchema,
                    CloseSession, Answer
    <3>3. CASE \E o \in {"delete-config", "discard-changes"} : Discard(s, o)
        BY <3>3 DEF Discard, Answer
    <3>4. QED BY <2>5, <3>1, <3>2, <3>3 DEF Serve
  <2>6. QED BY <2>1, <2>2, <2>3, <2>4, <2>5 DEF Next, MainStep
<1>2. QED BY <1>1, PTL DEF Spec, FailedEditAddsNothing

----------------------------------------------------------------------------
(* The poll set.                                                           *)

\* The loop of main() polls exactly the sessions that are allocated: none
\* after nc_session_free, and every one since it was accepted.
THEOREM PollsTheLiving == Spec => []PollSetExact
<1> DEFINE Living == {s \in Session : status[s] \in {"open", "hungup"}}
           IInv == /\ status \in [Session -> SessionStatus]
                   /\ pc \in {"start"} \cup Loop => ps = Living
<1>1. Init => IInv
    BY DEF Init, SessionStatus
<1>2. IInv /\ [Next]_vars => IInv'
  <2> SUFFICES ASSUME IInv, [Next]_vars PROVE IInv'
      OBVIOUS
  <2>1. CASE UNCHANGED <<pc, ps, status>>
      BY <2>1
  <2>2. CASE Start \/ Shutdown \/ AcceptTimeout \/ PollIdle \/ Signal
      BY <2>2 DEF Start, Shutdown, AcceptTimeout, PollIdle, Signal, Loop
  <2>3. ASSUME NEW s \in Session, Connect(s) \/ Send(s) \/ HangUp(s)
        PROVE  IInv'
      BY <2>3 DEF Connect, Send, HangUp, SessionStatus, Loop
  <2>4. ASSUME NEW s \in Session, Accept(s) \/ Refuse(s)
        PROVE  IInv'
      BY <2>4 DEF Accept, Refuse, SessionStatus, Loop
  <2>5. ASSUME NEW s \in Session, PollTerminated(s) \/ CloseSession(s)
        PROVE  IInv'
      BY <2>5 DEF PollTerminated, CloseSession, Drop, SessionStatus, Loop
  <2>6. ASSUME NEW s \in Session, Read(s)
        PROVE  IInv'
      BY <2>6 DEF Read, Loop
  <2>7. QED
      BY <2>1, <2>2, <2>3, <2>4, <2>5, <2>6, ServeReads
      DEF Next, MainStep, vars
<1>3. IInv => PollSetExact
    BY DEF PollSetExact, Loop
<1>4. QED BY <1>1, <1>2, <1>3, PTL DEF Spec

----------------------------------------------------------------------------
(* Refinement.                                                             *)

\* When no duplication fails, g_running and g_candidate implement the
\* abstract store: readers see published edits only, and every commit
\* publishes all that is pending on top of what runs.
THEOREM ImplementsStore == DupMayFail = FALSE => (Spec => StoreRefined)
<1> SUFFICES ASSUME DupMayFail = FALSE
             PROVE  Spec => StoreRefined
    OBVIOUS
<1>1. Init => Store!StoreInit
    BY DEF Init, Store!StoreInit
<1>2. ASSUME TypeOK, CandidateExtendsRunning, [Next]_vars
      PROVE  [Store!StoreNext]_(Store!storeVars)
  <2> DEFINE pending == candidate \ running
  <2>1. CASE UNCHANGED <<running, pending>>
      BY <2>1 DEF Store!storeVars
  <2>2. ASSUME NEW n \in Node, NEW seed \in Seeds,
               candidate' = seed \cup {n}, running' = running
        PROVE  Store!Edit(n) \/ UNCHANGED <<running, pending>>
    <3>1. seed \ running = pending
        BY <2>2 DEF Seeds, Dup
    <3>2. pending' = pending \cup ({n} \ running)
        BY <2>2, <3>1
    <3>3. CASE n \in running
        BY <2>2, <3>2, <3>3
    <3>4. CASE n \notin running
        BY <2>2, <3>2, <3>4 DEF Store!Edit
    <3>5. QED BY <3>3, <3>4
  <2>3. CASE candidate' \in Seeds /\ running' = running
      BY <2>3 DEF Seeds, Dup, Store!storeVars
  <2>4. CASE running' = {} /\ candidate' = candidate
      BY <1>2, <2>4 DEF Store!Wipe, Store!StoreNext, CandidateExtendsRunning
  <2>5. CASE running' = candidate /\ candidate' = candidate
    <3>1. CASE candidate = {}
        BY <2>4, <2>5, <3>1
    <3>2. CASE candidate # {}
        BY <1>2, <2>5, <3>2
        DEF Store!Publish, Store!StoreNext, CandidateExtendsRunning
    <3>3. QED BY <3>1, <3>2
  <2>6. CASE candidate' = {} /\ running' = running
      BY <2>6 DEF Store!Forget, Store!StoreNext
  <2>7. StoreStep
      BY <1>2, NextIsStoreStep
  <2>8. QED
      BY <2>1, <2>2, <2>3, <2>4, <2>5, <2>6, <2>7
      DEF StoreStep, Dup, storeVars, Store!StoreNext, Store!storeVars
<1>3. QED
    BY <1>1, <1>2, TypeCorrect, CandidateKeepsRunning, PTL
    DEF Spec, StoreRefined, Store!StoreSpec

-----------------------------------------------------------------------------
(* The client: whom a request goes to                                      *)

Defaulted ==
  client = default_unix_socket /\ named.way \in {"no", "remote"} /\ ~generate
ServerInv ==
  /\ stage = "options" => client = named.server
  /\ stage = "options" /\ ~initialized => named.way \in {"no", "remote"}
  /\ client = named.server \/ Defaulted

LEMMA ServerInitInv == ClientInit => ServerInv
BY DEF ClientInit, ServerInv, Named

LEMMA ServerStepInv ==
  ASSUME ServerInv, [ClientNext]_clientVars
  PROVE  ServerInv'
<1>1. ASSUME NEW server \in UnixSockets, OptionUnix(server) PROVE ServerInv'
  BY <1>1 DEF ServerInv, Defaulted, OptionUnix, Named
<1>2. ASSUME NEW server \in RemoteServers, OptionRemote(server) PROVE ServerInv'
  BY <1>2 DEF ServerInv, Defaulted, OptionRemote, Reach, Named
<1>3. CASE OptionGenerate
  BY <1>3 DEF ServerInv, Defaulted, OptionGenerate
<1>4. CASE Begin
  BY <1>4 DEF ServerInv, Defaulted, Begin
<1>5. ASSUME NEW server, SetTarget(server) PROVE ServerInv'
  BY <1>5 DEF ServerInv, Defaulted, SetTarget, Reach, Named
<1>6. CASE UNCHANGED serverVars /\ (stage' = "options" => stage = "options")
  BY <1>6 DEF ServerInv, Defaulted, serverVars
<1>7. ASSUME \/ Ask \/ Receive \/ getData \/ EndWalk \/ Return \/ Again
             \/ \E n \in Nodes : toInterfaceConfig(n)
             \/ UNCHANGED clientVars
      PROVE  UNCHANGED serverVars /\ (stage' = "options" => stage = "options")
  BY <1>7 DEF Ask, Receive, getData, EndWalk, Return, Again, toInterfaceConfig, Go, clientVars
<1> QED
  BY <1>1, <1>2, <1>3, <1>4, <1>5, <1>6, <1>7 DEF ClientNext

\* With any servers, options and targets, in any order and whichever of them is
\* reached: a request goes to the one named last, or to the default one in place
\* of one over ssh or tls (main, TargetToken::executeSet).
THEOREM NamedServerIsAsked == ClientSpec => []NamedServerAnswers
<1>1. ServerInv => NamedServerAnswers
  BY DEF ServerInv, NamedServerAnswers, Defaulted
<1> QED
  BY <1>1, ServerInitInv, ServerStepInv, PTL DEF ClientSpec

-----------------------------------------------------------------------------
(* The client: what is freed                                               *)

\* All trees but those of E have been freed, and each tree is counted.
FreedBut(f, E) ==
  /\ f = [t \in DOMAIN f |-> f[t]]
  /\ \A t \in DOMAIN f : f[t] \in Nat /\ (t \in E \/ f[t] >= 1)

Stages == {"options", "asking", "failed", "waiting", "reading", "walking", "returning",
           "returned", "aborted"}

\* The trees somebody still holds, at each stage.
Held ==
  CASE stage = "waiting" -> {"filter"}
    [] stage \in {"reading", "returning"} -> {"filter", "copy"}
    [] stage = "walking" -> {"filter", "copy", "data"}
    [] OTHER -> {}
FreedInv ==
  /\ stage \in Stages
  /\ stage # "aborted" => FreedBut(freed, Held)

LEMMA AllocateFreed ==
  ASSUME NEW E, NEW T, FreedBut(freed, E)
  PROVE  FreedBut(Allocate(T), E \cup T)
BY DEF FreedBut, Allocate, Allocated

LEMMA FreeFreed ==
  ASSUME NEW f, NEW E, NEW T, FreedBut(f, E)
  PROVE  FreedBut(Free(f, T), E \ T)
BY DEF FreedBut, Free

LEMMA FreedMore ==
  ASSUME NEW f, NEW E, NEW F, FreedBut(f, E), E \subseteq F
  PROVE  FreedBut(f, F)
BY DEF FreedBut

LEMMA GoFreed ==
  ASSUME NEW next \in Stages, NEW f, NEW E, Go(next, f), FreedBut(f, E),
         stage' = next => E \subseteq Held'
  PROVE  FreedInv'
<1>1. freed' = f /\ stage' \in {next, "aborted"}
  BY DEF Go
<1>2. stage' \in Stages
  BY <1>1 DEF Stages
<1>3. stage' # "aborted" => FreedBut(freed', Held')
  BY <1>1, FreedMore
<1> QED
  BY <1>2, <1>3 DEF FreedInv, FreedBut

LEMMA FreedInitInv == ClientInit => FreedInv
BY DEF ClientInit, FreedInv, Stages, FreedBut, Nothing

LEMMA AskFreed ==
  ASSUME FreedInv, Ask
  PROVE  FreedInv'
<1>1. FreedBut(freed, {})
  BY DEF FreedInv, Ask, Held
<1>2. CASE stage' \in {"aborted", "failed"} /\ freed' = freed
  BY <1>1, <1>2 DEF FreedInv, Held, Stages, FreedBut
<1>3. CASE freed' = Allocate({"filter"}) /\ stage' = "waiting"
  <2>1. FreedBut(freed', {"filter"})
    BY <1>1, <1>3, AllocateFreed
  <2>2. Held' = {"filter"} /\ stage' \in Stages
    BY <1>3 DEF Held, Stages
  <2> QED
    BY <2>1, <2>2 DEF FreedInv, FreedBut
<1> QED
  BY <1>2, <1>3 DEF Ask

LEMMA ReceiveFreed ==
  ASSUME FreedInv, Receive
  PROVE  FreedInv'
<1>1. FreedBut(freed, {"filter"})
  BY DEF FreedInv, Receive, Held
<1>2. CASE Go("returning", freed)
  <2>1. stage' = "returning" => {"filter"} \subseteq Held'
    BY DEF Held
  <2> QED
    BY <1>1, <1>2, <2>1, GoFreed DEF Stages
<1>3. ASSUME NEW T \in SUBSET {"envelope", "reply"}, Go("returning", Free(Allocate(T), T))
      PROVE  FreedInv'
  <2>1. FreedBut(Free(Allocate(T), T), ({"filter"} \cup T) \ T)
    BY <1>1, AllocateFreed, FreeFreed
  <2>2. stage' = "returning" => ({"filter"} \cup T) \ T \subseteq Held'
    BY DEF Held
  <2> QED
    BY <1>3, <2>1, <2>2, GoFreed DEF Stages
<1>4. ASSUME NEW T \in SUBSET {"envelope", "reply"}, NEW C \in {{}, {"copy"}},
             NEW next \in {"reading", "returning"},
             Go(next, Free(Free(Allocate(T \cup C), T), {"reply"}))
      PROVE  FreedInv'
  <2>1. FreedBut(Allocate(T \cup C), {"filter"} \cup (T \cup C))
    BY <1>1, AllocateFreed
  <2>2. FreedBut(Free(Allocate(T \cup C), T), ({"filter"} \cup (T \cup C)) \ T)
    BY <2>1, FreeFreed
  <2>3. FreedBut(Free(Free(Allocate(T \cup C), T), {"reply"}),
                 (({"filter"} \cup (T \cup C)) \ T) \ {"reply"})
    BY <2>2, FreeFreed
  <2>4. stage' = next =>
          (({"filter"} \cup (T \cup C)) \ T) \ {"reply"} \subseteq Held'
    BY DEF Held
  <2> QED
    BY <1>4, <2>3, <2>4, GoFreed DEF Stages
<1> QED
  BY <1>2, <1>3, <1>4 DEF Receive

LEMMA getDataFreed ==
  ASSUME FreedInv, getData
  PROVE  FreedInv'
<1>1. FreedBut(freed, {"filter", "copy"})
  BY DEF FreedInv, getData, Held
<1>2. CASE freed' = Allocate({"data"}) /\ stage' = "walking"
  <2>1. FreedBut(freed', {"filter", "copy"} \cup {"data"})
    BY <1>1, <1>2, AllocateFreed
  <2>2. Held' = {"filter", "copy"} \cup {"data"} /\ stage' \in Stages
    BY <1>2 DEF Held, Stages
  <2> QED
    BY <2>1, <2>2 DEF FreedInv, FreedBut
<1>3. CASE freed' = freed /\ stage' = "returning"
  <2>1. Held' = {"filter", "copy"} /\ stage' \in Stages
    BY <1>3 DEF Held, Stages
  <2> QED
    BY <1>1, <1>3, <2>1 DEF FreedInv, FreedBut
<1> QED
  BY <1>2, <1>3 DEF getData

LEMMA WalkFreed ==
  ASSUME FreedInv, (\E n \in Nodes : toInterfaceConfig(n)) \/ EndWalk
  PROVE  FreedInv'
<1>1. FreedBut(freed, {"filter", "copy", "data"})
  BY DEF FreedInv, toInterfaceConfig, EndWalk, Held
<1>2. FreedBut(Free(freed, {"data"}), {"filter", "copy", "data"} \ {"data"})
  BY <1>1, FreeFreed
<1>3. stage' \in {"walking", "returning"} =>
        {"filter", "copy", "data"} \ {"data"} \subseteq Held'
  BY DEF Held
<1>4. \E next \in {"walking", "returning"} : Go(next, Free(freed, {"data"}))
  BY DEF toInterfaceConfig, EndWalk
<1> QED
  BY <1>2, <1>3, <1>4, GoFreed DEF Stages

LEMMA ReturnFreed ==
  ASSUME FreedInv, Return
  PROVE  FreedInv'
<1>1. FreedBut(freed, {"filter", "copy"})
  BY DEF FreedInv, Return, Held
<1>2. FreedBut(Free(freed, {"copy", "filter"}), {"filter", "copy"} \ {"copy", "filter"})
  BY <1>1, FreeFreed
<1> QED
  BY <1>2, GoFreed DEF Return, Stages

LEMMA FreedStepInv ==
  ASSUME FreedInv, [ClientNext]_clientVars
  PROVE  FreedInv'
<1>1. CASE Ask \/ Receive \/ getData \/ (\E n \in Nodes : toInterfaceConfig(n)) \/ EndWalk \/ Return
  BY <1>1, AskFreed, ReceiveFreed, getDataFreed, WalkFreed, ReturnFreed
<1>2. CASE Again
  BY <1>2 DEF Again, FreedInv, Stages, FreedBut, Nothing
<1>3. CASE /\ freed' = freed /\ Held' = Held /\ stage' \in Stages
           /\ stage = "aborted" => stage' = "aborted"
  BY <1>3 DEF FreedInv, FreedBut
<1>4. ASSUME \/ \E server \in UnixSockets : OptionUnix(server)
             \/ \E server \in RemoteServers : OptionRemote(server)
             \/ OptionGenerate \/ Begin
             \/ \E server \in UnixSockets \cup RemoteServers : SetTarget(server)
             \/ UNCHANGED clientVars
      PROVE  /\ freed' = freed /\ Held' = Held /\ stage' \in Stages
             /\ stage = "aborted" => stage' = "aborted"
  BY <1>4 DEF OptionUnix, OptionRemote, OptionGenerate, Begin, SetTarget, Held, Stages,
              clientVars, callVars, FreedInv
<1> QED
  BY <1>1, <1>2, <1>3, <1>4 DEF ClientNext

\* Whatever the reply, and of however many interfaces: no tree is left when
\* GetInterfaces has returned or thrown (GetInterfaces, Client::getConfig).
THEOREM NoTreeLeaks == ClientSpec => []NothingLeaks
<1>1. FreedInv => NothingLeaks
  BY DEF FreedInv, FreedBut, Held, NothingLeaks, Allocated
<1> QED
  BY <1>1, FreedInitInv, FreedStepInv, PTL DEF ClientSpec

=============================================================================
