----------------------------- MODULE ChatStream -----------------------------
(***************************************************************************)
(* The HTTP side of an agent run in the SGA backend (server/routes.ts):    *)
(* the chat stream handler and the session message handler, the two maps   *)
(* they share per session id (activeSSEConnections and                     *)
(* activeAbortControllers), the requests for approval and for human input  *)
(* with their global table pendingResolvers, and the handlers that answer, *)
(* abort and delete.                                                       *)
(*                                                                         *)
(* Node runs one handler at a time and only switches at an await, so one   *)
(* action is one segment of a handler between two awaits.  The text of     *)
(* messages and the events written to a response are left out.             *)
(***************************************************************************)
EXTENDS Integers

CONSTANTS
  Sessions,  \* session ids; the UI reuses an id after the session is deleted
  Streams,   \* HTTP requests that start an agent run; r also names its `res`
  MaxAsks,   \* bound: how many approvals one run may ask for
  Loaded,    \* bound: the statuses a session on disk may have
  None       \* an absent map entry or field

ASSUME SeparateNames  == Sessions \cap Streams = {}
ASSUME AsksAssumption == MaxAsks \in Nat

Statuses == {"active", "waiting_input", "error"}

ASSUME LoadedAssumption == Loaded \subseteq Statuses

\* A session object is named by what made it: POST /sessions or a load from
\* disk (its session id), or the chat stream that found none in the store.
Objects == Sessions \cup Streams

\* A stream makes a controller when it arrives and, when the map has none by
\* the time its run starts, a second one.
Controllers == Streams \X {1, 2}

Types     == {"approval", "human_input"}
Actions   == [stream : Streams, n : 1 .. MaxAsks, type : Types]
Decisions == {"allow", "deny", "absent"}
Routes    == {"direct", "auto", "coordinator", "json"}

ASSUME NoneAssumption ==
  None \notin Objects \cup Controllers \cup Actions \cup Routes

VARIABLES
  sse,              \* activeSSEConnections: session id -> stream
  ctrl,             \* activeAbortControllers: session id -> controller
  aborted,          \* controllers whose signal is aborted
  store,            \* SessionStore.sessions: session id -> session object
  status,           \* Session.status, per object
  pendingAction,    \* Session.pendingAction, per object
  restored,         \* history: objects that are "waiting_input" because they
                    \* were loaded so
  pendingResolvers, \* keys of the table pendingResolvers
  pc,               \* where the handler of a stream is
  sess,             \* session id of a stream
  obj,              \* the session object its handler holds
  route,            \* the branch its run takes
  runCtrl,          \* the controller its run listens to
  wait,             \* the action its run awaits
  asks,             \* how many approvals its run has asked for
  closers,          \* close events of the stream that have not fired
  ended,            \* streams whose response was ended (res.writableEnded)
  userAllowed,      \* history: approvals a user answered with "allow"
  granted           \* history: approvals after which the tool was called

maps     == <<sse, ctrl, aborted>>
sessions == <<store, status, pendingAction, restored>>
runs     == <<sess, obj, route, runCtrl>>
asking   == <<pendingResolvers, wait, asks, userAllowed, granted>>
vars     == <<maps, sessions, runs, asking, pc, closers, ended>>

PCs == {"idle", "preparing", "opened", "running", "tool", "waiting", "ended"}

TypeOK ==
  /\ sse \in [Sessions -> Streams \cup {None}]
  /\ ctrl \in [Sessions -> Controllers \cup {None}]
  /\ aborted \subseteq Controllers
  /\ store \in [Sessions -> Objects \cup {None}]
  /\ status \in [Objects -> Statuses]
  /\ pendingAction \in [Objects -> Actions \cup {None}]
  /\ restored \subseteq Objects
  /\ pendingResolvers \subseteq Actions
  /\ pc \in [Streams -> PCs]
  /\ sess \in [Streams -> Sessions \cup {None}]
  /\ obj \in [Streams -> Objects \cup {None}]
  /\ route \in [Streams -> Routes \cup {None}]
  /\ runCtrl \in [Streams -> Controllers \cup {None}]
  /\ wait \in [Streams -> Actions \cup {None}]
  /\ asks \in [Streams -> 0 .. MaxAsks]
  /\ closers \in [Streams -> SUBSET {"req", "res"}]
  /\ ended \subseteq Streams
  /\ userAllowed \subseteq Actions
  /\ granted \subseteq Actions

\* Sessions come from disk with the status they were saved with, and without
\* pending action or resolver (loadAllFromDisk).
Init ==
  /\ sse  = [s \in Sessions |-> None]
  /\ ctrl = [s \in Sessions |-> None]
  /\ aborted = {}
  /\ store \in [Sessions -> Objects \cup {None}]
  /\ \A s \in Sessions : store[s] \in {s, None}
  /\ status \in [Objects -> Loaded \cup {"active"}]
  /\ \A o \in Objects : status[o] # "active" => o \in Sessions /\ store[o] = o
  /\ pendingAction = [o \in Objects |-> None]
  /\ restored = {o \in Objects : status[o] = "waiting_input"}
  /\ pendingResolvers = {}
  /\ pc = [r \in Streams |-> "idle"]
  /\ sess = [r \in Streams |-> None]
  /\ obj = [r \in Streams |-> None]
  /\ route = [r \in Streams |-> None]
  /\ runCtrl = [r \in Streams |-> None]
  /\ wait = [r \in Streams |-> None]
  /\ asks = [r \in Streams |-> 0]
  /\ closers = [r \in Streams |-> {}]
  /\ ended = {}
  /\ userAllowed = {}
  /\ granted = {}

\* The handler is over and its locals are gone; `sess` outlives it in the close
\* callbacks.  The history of its actions is of no further use.
Forget(r) ==
  /\ pc' = [pc EXCEPT ![r] = "ended"]
  /\ obj' = [obj EXCEPT ![r] = None]
  /\ route' = [route EXCEPT ![r] = None]
  /\ runCtrl' = [runCtrl EXCEPT ![r] = None]
  /\ asks' = [asks EXCEPT ![r] = 0]
  /\ userAllowed' = {a \in userAllowed : a.stream # r}
  /\ granted' = {a \in granted : a.stream # r}

-----------------------------------------------------------------------------
(* The shared tables.  An operator named ...Bug is a mutation of the one    *)
(* below it: a mistake the checks must notice, no part of the model.        *)

DropResponseBug(s) == sse
DropResponse(s) == [sse EXCEPT ![s] = None]

UnregisterBug(s) == ctrl
Unregister(s) == [ctrl EXCEPT ![s] = None]

\* Streams whose response is over once the registered one of s is ended.
EndRegisteredBug(s) == ended \cup {sse[s]}
EndRegistered(s) == ended \cup ({sse[s]} \ {None})

\* `if (!res.writableEnded) res.end()`, at the end of every branch of a run.
EndResponseBug(r) == IF route[r] = "auto" THEN ended ELSE ended \cup {r}
EndResponse(r) == ended \cup {r}

DropResolverBug(a) == pendingResolvers
DropResolver(a) == pendingResolvers \ {a}

-----------------------------------------------------------------------------
(* Opening a stream                                                        *)

\* closeSSEConnection ends the response and aborts the controller registered
\* for the id; the new stream then registers its own in their place.
Arrive(r, s) ==
  /\ pc[r] = "idle"
  /\ sess' = [sess EXCEPT ![r] = s]
  /\ sse' = [sse EXCEPT ![s] = r]
  /\ aborted' = aborted \cup ({ctrl[s]} \ {None})
  /\ closers' = [closers EXCEPT ![r] = {"req", "res"}]

\* POST /api/chat/stream with a provider configuration: the handler goes on
\* after `await ensureSgaProvider`.
ChatStart(r, s) ==
  /\ Arrive(r, s)
  /\ ctrl' = [ctrl EXCEPT ![s] = <<r, 1>>]
  /\ ended' = EndRegistered(s)
  /\ pc' = [pc EXCEPT ![r] = "preparing"]
  /\ UNCHANGED <<sessions, asking, obj, route, runCtrl>>

\* The same request without any provider configuration: the response ends at
\* once; only the controller is unregistered.
ChatNoConfig(r, s) ==
  /\ Arrive(r, s)
  /\ ctrl' = Unregister(s)
  /\ ended' = EndRegistered(s) \cup {r}
  /\ pc' = [pc EXCEPT ![r] = "ended"]
  /\ UNCHANGED <<sessions, asking, obj, route, runCtrl>>

\* The provider is ready: find the session or put a new one in the store.
OpenSession(r) ==
  LET s == sess[r] IN
  /\ pc[r] = "preparing"
  /\ store' = [store EXCEPT ![s] = IF @ = None THEN r ELSE @]
  /\ obj' = [obj EXCEPT ![r] = store'[s]]
  /\ pc' = [pc EXCEPT ![r] = "opened"]
  /\ UNCHANGED <<maps, asking, status, pendingAction, restored, sess, route,
                 runCtrl, closers, ended>>

\* Something thrown before the run starts: the outer catch ends the response
\* and leaves both maps alone.
PrepareFails(r) ==
  /\ pc[r] \in {"preparing", "opened"}
  /\ ended' = ended \cup {r}
  /\ Forget(r)
  /\ UNCHANGED <<maps, sessions, sess, pendingResolvers, wait, closers>>

\* The run listens to whatever controller the map holds for the session id by
\* now, or to a new one.  Only handleStreamResponse registers the response.  A
\* session whose active agent is codex takes the direct branch, asks nothing
\* and never throws.
BeginRun(r, s, branch) ==
  LET c == IF ctrl[s] = None THEN <<r, 2>> ELSE ctrl[s] IN
  /\ runCtrl' = [runCtrl EXCEPT ![r] = c]
  /\ ctrl' = [ctrl EXCEPT ![s] = c]
  /\ sse' = IF branch = "coordinator" THEN sse ELSE [sse EXCEPT ![s] = r]
  /\ route' = [route EXCEPT ![r] = branch]
  /\ pc' = [pc EXCEPT ![r] = "running"]

ChatRun(r) ==
  /\ pc[r] = "opened"
  /\ \E branch \in {"direct", "coordinator"} : BeginRun(r, sess[r], branch)
  /\ UNCHANGED <<aborted, sessions, asking, sess, obj, closers, ended>>

\* POST /sessions/:id/messages is refused unless the session is active.
Accepts(r, s) ==
  /\ pc[r] = "idle"
  /\ store[s] # None
  /\ status[store[s]] = "active"
  /\ sess' = [sess EXCEPT ![r] = s]
  /\ obj' = [obj EXCEPT ![r] = store[s]]

SendStream(r, s) ==
  /\ Accepts(r, s)
  /\ \E branch \in {"direct", "auto"} : BeginRun(r, s, branch)
  /\ UNCHANGED <<aborted, sessions, asking, closers, ended>>

\* Without stream=true the run has no controller and touches neither map.
SendJson(r, s) ==
  /\ Accepts(r, s)
  /\ route' = [route EXCEPT ![r] = "json"]
  /\ pc' = [pc EXCEPT ![r] = "running"]
  /\ UNCHANGED <<maps, sessions, asking, runCtrl, closers, ended>>

-----------------------------------------------------------------------------
(* The agent run                                                           *)

Aborted(r) == runCtrl[r] \in aborted

\* requestApproval and requestHumanInput: register a resolver, mark the
\* session, await.
Ask(r, type) ==
  LET a == [stream |-> r, n |-> asks'[r], type |-> type] IN
  /\ wait' = [wait EXCEPT ![r] = a]
  /\ pendingResolvers' = pendingResolvers \cup {a}
  /\ status' = [status EXCEPT ![obj[r]] = "waiting_input"]
  /\ pendingAction' = [pendingAction EXCEPT ![obj[r]] = a]
  /\ restored' = restored \ {obj[r]}
  /\ pc' = [pc EXCEPT ![r] = "waiting"]
  /\ UNCHANGED <<maps, runs, store, closers, ended, userAllowed, granted>>

\* The runner looks at its signal right before it asks for an approval.
AskApproval(r) ==
  /\ pc[r] = "running"
  /\ ~Aborted(r)
  /\ asks[r] < MaxAsks
  /\ asks' = [asks EXCEPT ![r] = @ + 1]
  /\ Ask(r, "approval")

\* AskUserQuestion, approved and called, asks without looking at the signal.
AskHuman(r) ==
  /\ pc[r] = "tool"
  /\ UNCHANGED asks
  /\ Ask(r, "human_input")

ToolDone(r) ==
  /\ pc[r] = "tool"
  /\ pc' = [pc EXCEPT ![r] = "running"]
  /\ UNCHANGED <<maps, sessions, runs, asking, closers, ended>>

\* Every branch ends its response.  The streaming ones but "auto" drop both
\* map entries of the session id, whoever put them there; "auto" drops only the
\* response.
EndRun(r) ==
  LET s == sess[r] IN
  /\ pc[r] = "running"
  /\ Forget(r)
  /\ ended' = EndResponse(r)
  /\ sse' = IF route[r] = "json" THEN sse ELSE DropResponse(s)
  /\ ctrl' = IF route[r] \in {"json", "auto"} THEN ctrl ELSE Unregister(s)
  /\ UNCHANGED <<aborted, sess, pendingResolvers, wait, closers, store,
                 pendingAction>>

\* runAgent returned: its loop finished, or it saw the signal and broke out.
RunReturns(r) ==
  /\ EndRun(r)
  /\ UNCHANGED <<status, restored>>

\* runAgent threw.  Only the direct and json branches mark the session, by id,
\* and the direct one only when it was not aborted.
RunThrows(r) ==
  LET o == store[sess[r]] IN
  /\ EndRun(r)
  /\ status' = IF \/ route[r] \notin {"direct", "json"}
                  \/ route[r] = "direct" /\ Aborted(r)
                  \/ o = None
               THEN status
               ELSE [status EXCEPT ![o] = "error"]
  /\ restored' = {p \in restored : status'[p] = "waiting_input"}

-----------------------------------------------------------------------------
(* The other handlers                                                      *)

\* onConnectionClose, bound to the close events of request and response: it
\* aborts the controller its own stream made on arrival but drops the map
\* entries of the session id.  The request closes once its body is consumed;
\* the response closes when it ended or the client went away.
ConnectionClosed(r, end) ==
  LET s == sess[r] IN
  /\ end \in closers[r]
  /\ closers' = [closers EXCEPT ![r] = @ \ {end}]
  /\ sse' = DropResponse(s)
  /\ ctrl' = Unregister(s)
  /\ aborted' = aborted \cup {<<r, 1>>}
  /\ UNCHANGED <<sessions, runs, asking, pc, ended>>

\* POST /api/chat/abort/:sessionId
ChatAbort(s) ==
  /\ ctrl[s] # None
  /\ aborted' = aborted \cup {ctrl[s]}
  /\ ctrl' = Unregister(s)
  /\ ended' = EndRegistered(s)
  /\ sse' = DropResponse(s)
  /\ UNCHANGED <<sessions, runs, asking, pc, closers>>

\* DELETE /sessions/:id: the run of the session goes on with the object it
\* holds.  pendingResolvers.delete(sessionId) finds nothing: the table is keyed
\* by action id.
DeleteSession(s) ==
  /\ store[s] # None
  /\ store' = [store EXCEPT ![s] = None]
  /\ sse' = DropResponse(s)
  /\ UNCHANGED <<ctrl, aborted, status, pendingAction, restored, runs, asking,
                 pc, closers, ended>>

\* What the resolved promise carries: the handlers build an approval response
\* or an input response from the type of the session's pending action, and a
\* missing decision counts as a denial.
ApprovesBug(o, decision) ==
  /\ pendingAction[o].type = "approval"
  /\ decision # "deny"
Approves(o, decision) ==
  /\ pendingAction[o].type = "approval"
  /\ decision = "allow"

\* clearSessionWaitingInput, on the object the run holds.
ClearedStatusBug(o) == status
ClearedStatus(o) == [status EXCEPT ![o] = "active"]

\* POST .../input resolves the action the client names; before anything else
\* runs, the awaiting run clears its session's waiting state and goes on.
Answer(s, a, decision) ==
  LET o == store[s]
      r == a.stream
      tool == a.type = "approval" /\ Approves(o, decision)
  IN
  /\ o # None
  /\ status[o] = "waiting_input"
  /\ pendingAction[o] # None
  /\ a \in pendingResolvers
  /\ pendingResolvers' = DropResolver(a)
  /\ userAllowed' = IF decision = "allow" /\ a.type = "approval"
                     THEN userAllowed \cup {a} ELSE userAllowed
  /\ status' = ClearedStatus(obj[r])
  /\ pendingAction' = [pendingAction EXCEPT ![obj[r]] = None]
  /\ wait' = [wait EXCEPT ![r] = None]
  /\ pc' = [pc EXCEPT ![r] = IF tool THEN "tool" ELSE "running"]
  /\ granted' = IF tool THEN granted \cup {a} ELSE granted
  /\ UNCHANGED <<maps, runs, store, restored, asks, closers, ended>>

-----------------------------------------------------------------------------
Handler(r) ==
  \/ OpenSession(r) \/ PrepareFails(r) \/ ChatRun(r)
  \/ AskApproval(r) \/ AskHuman(r) \/ ToolDone(r)
  \/ RunReturns(r) \/ RunThrows(r)

Request(s) ==
  \/ \E r \in Streams : ChatStart(r, s) \/ ChatNoConfig(r, s)
                        \/ SendStream(r, s) \/ SendJson(r, s)
  \/ ChatAbort(s)
  \/ DeleteSession(s)
  \/ \E a \in pendingResolvers, decision \in Decisions : Answer(s, a, decision)

Next ==
  \/ \E r \in Streams : Handler(r)
  \/ \E r \in Streams, end \in {"req", "res"} : ConnectionClosed(r, end)
  \/ \E s \in Sessions : Request(s)

Spec == Init /\ [][Next]_vars

\* Node goes on with a handler once what it awaits has settled: provider calls
\* and tools answer or time out, and the run loop is bounded by maxTurns.  No
\* user owes an answer, so Answer has no fairness.
Fairness == \A r \in Streams : WF_vars(Handler(r))

FairSpec == Spec /\ Fairness

-----------------------------------------------------------------------------
(* What must hold                                                          *)

\* pendingResolvers holds exactly the actions that some run awaits: no answer
\* is lost because its resolver is missing, none is left behind by a run that
\* went on (the `finally` blocks of requestApproval and requestHumanInput and
\* the deletes of the two input handlers).
ResolverIffAwaited ==
  pendingResolvers = {wait[r] : r \in {q \in Streams : pc[q] = "waiting"}}

\* A session that became waiting_input in this run of the server names a pending
\* action that can still be answered, asked by a run of that same session
\* object, and one that was loaded so names none.  So what GET /sessions/:id
\* shows is always an id that POST .../input accepts.  (Nobody can answer a
\* session that was loaded as waiting.)
WaitingIsAnswerable ==
  \A o \in Objects : status[o] = "waiting_input" =>
    IF o \in restored THEN pendingAction[o] = None
    ELSE /\ pendingAction[o] \in pendingResolvers
         /\ obj[pendingAction[o].stream] = o

\* A tool that needs an approval is called only after a user sent "allow" for
\* that very action, although the handlers pick the shape of the answer from
\* another run's pending action when two runs share a session.
GrantedOnlyByAllow == granted \subseteq userAllowed

\* A controller that is registered has not been aborted: an abort always
\* unregisters, so isActive never reports a run that was told to stop and an
\* abort request is never spent on a dead controller.
RegisteredIsLive == \A s \in Sessions : ctrl[s] \notin aborted

\* A registered response belongs to a stream of that session id which will
\* still drop it: its handler is running or its close event is to come.
RegisteredResponseIsDropped ==
  \A s \in Sessions : sse[s] # None =>
    /\ sess[sse[s]] = s
    /\ pc[sse[s]] # "ended" \/ "res" \in closers[sse[s]]

\* No handler finishes with its response open: whichever branch it leaves by,
\* the client's stream is ended.
FinishedMeansEnded == \A r \in Streams : pc[r] = "ended" => r \in ended

\* The abort handler answers "No active agent running for this session" only
\* if no streaming run of the session could still be stopped.
InactiveMeansNoRun ==
  \A r \in Streams :
    pc[r] \in {"running", "tool", "waiting"} /\ route[r] # "json" /\ ~Aborted(r)
      => ctrl[sess[r]] # None

\* A run whose controller was aborted ends, as the abort handler's "Agent
\* aborted successfully" tells the client.
AbortedRunEnds ==
  \A r \in Streams :
    (pc[r] \in {"running", "tool", "waiting"} /\ Aborted(r)) ~> pc[r] = "ended"

-----------------------------------------------------------------------------
\* Whatever requests, answers and close events meet on a session, each request
\* leads one run through one life.
StageAt ==
  [place \in PCs |->
     CASE place = "idle"                    -> "new"
       [] place \in {"preparing", "opened"} -> "opening"
       [] place = "running"                 -> "running"
       [] place = "waiting"                 -> "asking"
       [] place = "tool"                    -> "acting"
       [] place = "ended"                   -> "over"]

AgentRuns ==
  INSTANCE AgentRuns WITH
    Requests <- Streams,
    stage    <- [r \in Streams |-> StageAt[pc[r]]],
    stopped  <- {r \in Streams : Aborted(r)},
    told     <- ended

AgentRunsSpec == AgentRuns!RunsSpec
=============================================================================
