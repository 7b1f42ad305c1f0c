-------------------------- MODULE ChatStreamProofs --------------------------
(***************************************************************************)
(* Proofs about ChatStream, for any sets of sessions and streams and any   *)
(* number of approvals per run.                                            *)
(*                                                                         *)
(* The safety invariants of ChatStream are not inductive.  IInv adds what  *)
(* the handlers keep true about a single stream (RunState), what the maps  *)
(* hold (OwnRegistration) and which controllers cannot have been aborted   *)
(* yet (FreshControllers).                                                 *)
(***************************************************************************)
EXTENDS ChatStream, TLAPS

\* What the program counter of a stream says of its own state.
RunState ==
  \A r \in Streams :
    /\ pc[r] = "idle" => closers[r] = {}
    /\ pc[r] # "idle" => sess[r] \in Sessions
    /\ pc[r] \in {"opened", "running", "tool", "waiting"} => obj[r] \in Objects
    /\ pc[r] \in {"idle", "preparing", "opened", "ended"} => route[r] = None
    /\ pc[r] \in {"tool", "waiting"} => asks[r] # 0
    /\ pc[r] = "waiting" <=> wait[r] # None
    /\ pc[r] = "waiting" => wait[r].stream = r

\* What a map holds for a session id comes from a stream of that id that got
\* far enough to put it there; a stream that waits to be set up and is still
\* registered has its close event ahead; a JSON request registers nothing.
HoldsOwnController(s) ==
  \A r \in Streams, i \in {1, 2} : ctrl[s] = <<r, i>> =>
    /\ sess[r] = s
    /\ pc[r] # "idle"
    /\ i = 2 => pc[r] \notin {"preparing", "opened"}

HoldsOwnResponse(s) ==
  \A r \in Streams : sse[s] = r =>
    /\ sess[r] = s
    /\ pc[r] # "idle"
    /\ route[r] # "json"
    /\ pc[r] \in {"preparing", "opened", "ended"} => "res" \in closers[r]

OwnRegistration ==
  \A s \in Sessions : HoldsOwnController(s) /\ HoldsOwnResponse(s)

Fresh(r) ==
  /\ pc[r] = "idle" => <<r, 1>> \notin aborted
  /\ pc[r] \in {"idle", "preparing", "opened"} => <<r, 2>> \notin aborted

FreshControllers == \A r \in Streams : Fresh(r)

IInv ==
  /\ TypeOK
  /\ RunState
  /\ OwnRegistration
  /\ FreshControllers
  /\ RegisteredIsLive
  /\ ResolverIffAwaited
  /\ WaitingIsAnswerable

-----------------------------------------------------------------------------
(* The inductive invariant holds initially.                                *)

LEMMA InitInv == Init => IInv
<1> SUFFICES ASSUME Init PROVE IInv
  OBVIOUS
<1>s. Loaded \cup {"active"} \subseteq Statuses
  BY LoadedAssumption DEF Statuses
<1>1. TypeOK
  <2>1. status \in [Objects -> Statuses] /\ restored \subseteq Objects
    BY <1>s DEF Init
  <2>. QED
    BY <2>1, AsksAssumption DEF Init, TypeOK, PCs
<1>2. RunState
  BY DEF Init, RunState
<1>3. FreshControllers /\ RegisteredIsLive
  BY DEF Init, FreshControllers, Fresh, RegisteredIsLive
<1>n. None \notin Streams \cup Controllers
  BY NoneAssumption DEF Objects
<1>5. OwnRegistration
  <2>1. \A s \in Sessions : ctrl[s] = None /\ sse[s] = None
    BY DEF Init
  <2>2. \A r \in Streams, i \in {1, 2} : None # r /\ None # <<r, i>>
    BY <1>n DEF Controllers
  <2>. QED
    BY <2>1, <2>2 DEF OwnRegistration, HoldsOwnController, HoldsOwnResponse
<1>4. ResolverIffAwaited /\ WaitingIsAnswerable
  BY DEF Init, ResolverIffAwaited, WaitingIsAnswerable
<1>. QED
  BY <1>1, <1>2, <1>3, <1>4, <1>5 DEF IInv

-----------------------------------------------------------------------------
(* Every step keeps each part of it: one lemma per part, one case per      *)
(* action.                                                                 *)

LEMMA TypeStep ==
  ASSUME IInv, [Next]_vars
  PROVE  TypeOK'
<1>1. ASSUME NEW r \in Streams, NEW s \in Sessions, ChatStart(r, s)
      PROVE  TypeOK'
  BY <1>1, NoneAssumption, AsksAssumption
     DEF IInv, TypeOK, RunState, Objects, Controllers, Types, Routes, PCs,
         ChatStart, Arrive, EndRegistered, sessions, asking
<1>2. ASSUME NEW r \in Streams, NEW s \in Sessions, ChatNoConfig(r, s)
      PROVE  TypeOK'
  BY <1>2, NoneAssumption, AsksAssumption
     DEF IInv, TypeOK, RunState, Objects, Types, Routes, PCs, ChatNoConfig,
         Arrive, EndRegistered, Unregister, sessions, asking
<1>3. ASSUME NEW r \in Streams, NEW s \in Sessions, SendStream(r, s)
      PROVE  TypeOK'
  BY <1>3, NoneAssumption, AsksAssumption
     DEF IInv, TypeOK, RunState, Objects, Controllers, Types, Routes, PCs,
         SendStream, Accepts, BeginRun, sessions, asking
<1>4. ASSUME NEW r \in Streams, NEW s \in Sessions, SendJson(r, s)
      PROVE  TypeOK'
  BY <1>4, NoneAssumption, AsksAssumption
     DEF IInv, TypeOK, RunState, Objects, Types, Routes, PCs, SendJson,
         Accepts, maps, sessions, asking
<1>5. ASSUME NEW r \in Streams, OpenSession(r)
      PROVE  TypeOK'
  BY <1>5, NoneAssumption, AsksAssumption
     DEF IInv, TypeOK, RunState, Objects, Types, Routes, PCs, OpenSession,
         maps, asking
<1>6. ASSUME NEW r \in Streams, PrepareFails(r)
      PROVE  TypeOK'
  BY <1>6, NoneAssumption, AsksAssumption
     DEF IInv, TypeOK, RunState, Objects, Types, Routes, PCs, PrepareFails,
         Forget, maps, sessions
<1>7. ASSUME NEW r \in Streams, ChatRun(r)
      PROVE  TypeOK'
  BY <1>7, NoneAssumption, AsksAssumption
     DEF IInv, TypeOK, RunState, Objects, Controllers, Types, Routes, PCs,
         ChatRun, BeginRun, sessions, asking
<1>8. ASSUME NEW r \in Streams, AskApproval(r)
      PROVE  TypeOK'
  BY <1>8, NoneAssumption, AsksAssumption
     DEF IInv, TypeOK, RunState, Objects, Actions, Types, Routes, PCs, Statuses,
         AskApproval, Ask, maps, runs
<1>9. ASSUME NEW r \in Streams, AskHuman(r)
      PROVE  TypeOK'
  BY <1>9, NoneAssumption, AsksAssumption
     DEF IInv, TypeOK, RunState, Objects, Actions, Types, Routes, PCs, Statuses,
         AskHuman, Ask, maps, runs
<1>10. ASSUME NEW r \in Streams, ToolDone(r)
       PROVE  TypeOK'
  BY <1>10, NoneAssumption, AsksAssumption
     DEF IInv, TypeOK, RunState, Objects, Types, Routes, PCs, ToolDone, maps,
         sessions, runs, asking
<1>11. ASSUME NEW r \in Streams, EndRun(r), RunReturns(r) \/ RunThrows(r)
       PROVE  TypeOK'
  BY <1>11, NoneAssumption, AsksAssumption
     DEF IInv, TypeOK, RunState, Objects, Types, Routes, PCs, Statuses, EndRun,
         RunReturns, RunThrows, Forget, EndResponse, DropResponse, Unregister
<1>12. ASSUME NEW r \in Streams, NEW end \in {"req", "res"},
              ConnectionClosed(r, end)
       PROVE  TypeOK'
  BY <1>12, NoneAssumption, AsksAssumption
     DEF IInv, TypeOK, RunState, Objects, Controllers, Types, Routes, PCs,
         ConnectionClosed, DropResponse, Unregister, sessions, runs, asking
<1>13. ASSUME NEW s \in Sessions, ChatAbort(s)
       PROVE  TypeOK'
  BY <1>13, NoneAssumption, AsksAssumption
     DEF IInv, TypeOK, RunState, Objects, Types, Routes, PCs, ChatAbort,
         EndRegistered, DropResponse, Unregister, sessions, runs, asking
<1>14. ASSUME NEW s \in Sessions, DeleteSession(s)
       PROVE  TypeOK'
  BY <1>14, NoneAssumption, AsksAssumption
     DEF IInv, TypeOK, RunState, Objects, Types, Routes, PCs, DeleteSession,
         DropResponse, runs, asking
<1>15. ASSUME NEW s \in Sessions,
              NEW a \in pendingResolvers, NEW decision \in Decisions,
              Answer(s, a, decision)
       PROVE  TypeOK'
  <2>1. a \in Actions /\ a.stream \in Streams
    BY <1>15 DEF IInv, TypeOK, Actions
  <2>2. /\ pendingResolvers' \subseteq Actions
        /\ userAllowed' \subseteq Actions
        /\ granted' \subseteq Actions
    BY <1>15, <2>1 DEF IInv, TypeOK, Answer, DropResolver
  <2>3. /\ status' \in [Objects -> Statuses]
        /\ pendingAction' \in [Objects -> Actions \cup {None}]
    BY <1>15 DEF IInv, TypeOK, Statuses, Answer, ClearedStatus
  <2>4. /\ wait' \in [Streams -> Actions \cup {None}]
        /\ pc' \in [Streams -> PCs]
    BY <1>15, <2>1 DEF IInv, TypeOK, Answer, PCs
  <2>. QED
    BY <1>15, <2>2, <2>3, <2>4 DEF IInv, TypeOK, Answer, maps, runs
<1>16. CASE UNCHANGED vars
  BY <1>16, NoneAssumption, AsksAssumption
     DEF IInv, TypeOK, RunState, Objects, Types, Routes, PCs, vars, maps,
         sessions, runs, asking
<1>. QED
  BY <1>1, <1>2, <1>3, <1>4, <1>5, <1>6, <1>7, <1>8, <1>9, <1>10, <1>11,
     <1>12, <1>13, <1>14, <1>15, <1>16
     DEF Next, Handler, Request, RunReturns, RunThrows

LEMMA RunStateStep ==
  ASSUME IInv, [Next]_vars
  PROVE  RunState'
<1>1. ASSUME NEW r \in Streams, NEW s \in Sessions, ChatStart(r, s)
      PROVE  RunState'
  BY <1>1, NoneAssumption, AsksAssumption
     DEF IInv, TypeOK, RunState, ResolverIffAwaited, Objects, Types, Routes,
         PCs, ChatStart, Arrive, sessions, asking
<1>2. ASSUME NEW r \in Streams, NEW s \in Sessions, ChatNoConfig(r, s)
      PROVE  RunState'
  BY <1>2, NoneAssumption, AsksAssumption
     DEF IInv, TypeOK, RunState, ResolverIffAwaited, Objects, Types, Routes,
         PCs, ChatNoConfig, Arrive, Unregister, sessions, asking
<1>3. ASSUME NEW r \in Streams, NEW s \in Sessions, SendStream(r, s)
      PROVE  RunState'
  BY <1>3, NoneAssumption, AsksAssumption
     DEF IInv, TypeOK, RunState, ResolverIffAwaited, Objects, Types, Routes,
         PCs, SendStream, Accepts, BeginRun, sessions, asking
<1>4. ASSUME NEW r \in Streams, NEW s \in Sessions, SendJson(r, s)
      PROVE  RunState'
  BY <1>4, NoneAssumption, AsksAssumption
     DEF IInv, TypeOK, RunState, ResolverIffAwaited, Objects, Types, Routes,
         PCs, SendJson, Accepts, maps, sessions, asking
<1>5. ASSUME NEW r \in Streams, OpenSession(r)
      PROVE  RunState'
  BY <1>5, NoneAssumption, AsksAssumption
     DEF IInv, TypeOK, RunState, ResolverIffAwaited, Objects, Types, Routes,
         PCs, OpenSession, maps, asking
<1>6. ASSUME NEW r \in Streams, PrepareFails(r)
      PROVE  RunState'
  BY <1>6, NoneAssumption, AsksAssumption
     DEF IInv, TypeOK, RunState, ResolverIffAwaited, Objects, Types, Routes,
         PCs, PrepareFails, Forget, maps, sessions
<1>7. ASSUME NEW r \in Streams, ChatRun(r)
      PROVE  RunState'
  BY <1>7, NoneAssumption, AsksAssumption
     DEF IInv, TypeOK, RunState, ResolverIffAwaited, Objects, Types, Routes,
         PCs, ChatRun, BeginRun, sessions, asking
<1>8. ASSUME NEW r \in Streams, AskApproval(r)
      PROVE  RunState'
  BY <1>8, NoneAssumption, AsksAssumption
     DEF IInv, TypeOK, RunState, ResolverIffAwaited, Objects, Actions, Types,
         Routes, PCs, AskApproval, Ask, maps, runs
<1>9. ASSUME NEW r \in Streams, AskHuman(r)
      PROVE  RunState'
  BY <1>9, NoneAssumption, AsksAssumption
     DEF IInv, TypeOK, RunState, ResolverIffAwaited, Objects, Actions, Types,
         Routes, PCs, AskHuman, Ask, maps, runs
<1>10. ASSUME NEW r \in Streams, ToolDone(r)
       PROVE  RunState'
  BY <1>10, NoneAssumption, AsksAssumption
     DEF IInv, TypeOK, RunState, ResolverIffAwaited, Objects, Types, Routes,
         PCs, ToolDone, maps, sessions, runs, asking
<1>11. ASSUME NEW r \in Streams, EndRun(r), RunReturns(r) \/ RunThrows(r)
       PROVE  RunState'
  BY <1>11, NoneAssumption, AsksAssumption
     DEF IInv, TypeOK, RunState, ResolverIffAwaited, Objects, Types, Routes,
         PCs, EndRun, RunReturns, RunThrows, Forget, Unregister
<1>12. ASSUME NEW r \in Streams, NEW end \in {"req", "res"},
              ConnectionClosed(r, end)
       PROVE  RunState'
  BY <1>12, NoneAssumption, AsksAssumption
     DEF IInv, TypeOK, RunState, ResolverIffAwaited, Objects, Types, Routes,
         PCs, ConnectionClosed, Unregister, sessions, runs, asking
<1>13. ASSUME NEW s \in Sessions, ChatAbort(s)
       PROVE  RunState'
  BY <1>13, NoneAssumption, AsksAssumption
     DEF IInv, TypeOK, RunState, ResolverIffAwaited, Objects, Types, Routes,
         PCs, ChatAbort, Unregister, sessions, runs, asking
<1>14. ASSUME NEW s \in Sessions, DeleteSession(s)
       PROVE  RunState'
  BY <1>14, NoneAssumption, AsksAssumption
     DEF IInv, TypeOK, RunState, ResolverIffAwaited, Objects, Types, Routes,
         PCs, DeleteSession, runs, asking
<1>15. ASSUME NEW s \in Sessions,
              NEW a \in pendingResolvers, NEW decision \in Decisions,
              Answer(s, a, decision)
       PROVE  RunState'
  BY <1>15, NoneAssumption, AsksAssumption
     DEF IInv, TypeOK, RunState, ResolverIffAwaited, Objects, Types, Routes,
         PCs, Answer, maps, runs
<1>16. CASE UNCHANGED vars
  BY <1>16, NoneAssumption, AsksAssumption
     DEF IInv, TypeOK, RunState, ResolverIffAwaited, Objects, Types, Routes,
         PCs, vars, maps, sessions, runs, asking
<1>. QED
  BY <1>1, <1>2, <1>3, <1>4, <1>5, <1>6, <1>7, <1>8, <1>9, <1>10, <1>11,
     <1>12, <1>13, <1>14, <1>15, <1>16
     DEF Next, Handler, Request, RunReturns, RunThrows

LEMMA FreshStep ==
  ASSUME IInv, [Next]_vars, NEW q \in Streams
  PROVE  Fresh(q)'
<1>t. /\ pc \in [Streams -> PCs]
      /\ ctrl \in [Sessions -> Controllers \cup {None}]
      /\ sess \in [Streams -> Sessions \cup {None}]
  BY DEF IInv, TypeOK
<1>f. Fresh(q)
  BY DEF IInv, FreshControllers
<1>o. \A s \in Sessions, i \in {1, 2} : ctrl[s] = <<q, i>> =>
        /\ pc[q] # "idle"
        /\ i = 2 => pc[q] \notin {"preparing", "opened"}
  BY DEF IInv, OwnRegistration, HoldsOwnController
<1>c. \A r \in Streams : pc[r] = "idle" => closers[r] = {}
  BY DEF IInv, RunState
<1>1. ASSUME NEW r \in Streams, NEW s \in Sessions, ChatStart(r, s)
      PROVE  Fresh(q)'
  BY <1>1, <1>t, <1>f, <1>o, <1>c DEF Fresh, PCs, ChatStart, Arrive
<1>2. ASSUME NEW r \in Streams, NEW s \in Sessions, ChatNoConfig(r, s)
      PROVE  Fresh(q)'
  BY <1>2, <1>t, <1>f, <1>o, <1>c
     DEF Fresh, PCs, ChatNoConfig, Arrive, Unregister
<1>3. ASSUME NEW r \in Streams, NEW s \in Sessions, SendStream(r, s)
      PROVE  Fresh(q)'
  BY <1>3, <1>t, <1>f, <1>o, <1>c DEF Fresh, PCs, SendStream, BeginRun
<1>4. ASSUME NEW r \in Streams, NEW s \in Sessions, SendJson(r, s)
      PROVE  Fresh(q)'
  BY <1>4, <1>t, <1>f, <1>o, <1>c DEF Fresh, PCs, SendJson, maps
<1>5. ASSUME NEW r \in Streams, OpenSession(r)
      PROVE  Fresh(q)'
  BY <1>5, <1>t, <1>f, <1>o, <1>c DEF Fresh, PCs, OpenSession, maps
<1>6. ASSUME NEW r \in Streams, PrepareFails(r)
      PROVE  Fresh(q)'
  BY <1>6, <1>t, <1>f, <1>o, <1>c DEF Fresh, PCs, PrepareFails, Forget, maps
<1>7. ASSUME NEW r \in Streams, ChatRun(r)
      PROVE  Fresh(q)'
  BY <1>7, <1>t, <1>f, <1>o, <1>c DEF Fresh, PCs, ChatRun, BeginRun
<1>8. ASSUME NEW r \in Streams, AskApproval(r)
      PROVE  Fresh(q)'
  BY <1>8, <1>t, <1>f, <1>o, <1>c DEF Fresh, PCs, AskApproval, Ask, maps, runs
<1>9. ASSUME NEW r \in Streams, AskHuman(r)
      PROVE  Fresh(q)'
  BY <1>9, <1>t, <1>f, <1>o, <1>c DEF Fresh, PCs, AskHuman, Ask, maps, runs
<1>10. ASSUME NEW r \in Streams, ToolDone(r)
       PROVE  Fresh(q)'
  BY <1>10, <1>t, <1>f, <1>o, <1>c DEF Fresh, PCs, ToolDone, maps, runs
<1>11. ASSUME NEW r \in Streams, EndRun(r), RunReturns(r) \/ RunThrows(r)
       PROVE  Fresh(q)'
  BY <1>11, <1>t, <1>f, <1>o, <1>c
     DEF Fresh, PCs, EndRun, RunReturns, RunThrows, Forget, Unregister
<1>12. ASSUME NEW r \in Streams, NEW end \in {"req", "res"},
              ConnectionClosed(r, end)
       PROVE  Fresh(q)'
  BY <1>12, <1>t, <1>f, <1>o, <1>c
     DEF Fresh, PCs, ConnectionClosed, Unregister, runs
<1>13. ASSUME NEW s \in Sessions, ChatAbort(s)
       PROVE  Fresh(q)'
  BY <1>13, <1>t, <1>f, <1>o, <1>c DEF Fresh, PCs, ChatAbort, Unregister, runs
<1>14. ASSUME NEW s \in Sessions, DeleteSession(s)
       PROVE  Fresh(q)'
  BY <1>14, <1>t, <1>f, <1>o, <1>c DEF Fresh, PCs, DeleteSession, runs
<1>15. ASSUME NEW s \in Sessions,
              NEW a \in pendingResolvers, NEW decision \in Decisions,
              Answer(s, a, decision)
       PROVE  Fresh(q)'
  BY <1>15, <1>t, <1>f, <1>o, <1>c DEF Fresh, PCs, Answer, maps, runs
<1>16. CASE UNCHANGED vars
  BY <1>16, <1>t, <1>f, <1>o, <1>c DEF Fresh, PCs, vars, maps, runs
<1>. QED
  BY <1>1, <1>2, <1>3, <1>4, <1>5, <1>6, <1>7, <1>8, <1>9, <1>10, <1>11,
     <1>12, <1>13, <1>14, <1>15, <1>16
     DEF Next, Handler, Request, RunReturns, RunThrows

LEMMA LiveStep ==
  ASSUME IInv, [Next]_vars, NEW q \in Sessions
  PROVE  (ctrl[q] \notin aborted)'
<1>t. /\ ctrl \in [Sessions -> Controllers \cup {None}]
      /\ aborted \subseteq Controllers
      /\ None \notin Controllers
  BY NoneAssumption DEF IInv, TypeOK
<1>l. \A s \in Sessions : ctrl[s] \notin aborted
  BY DEF IInv, RegisteredIsLive
<1>f. \A r \in Streams :
        /\ <<r, 1>> \in Controllers /\ <<r, 2>> \in Controllers
        /\ pc[r] = "idle" => <<r, 1>> \notin aborted
        /\ pc[r] \in {"idle", "opened"} => <<r, 2>> \notin aborted
        /\ pc[r] # "idle" => sess[r] \in Sessions
  BY DEF IInv, FreshControllers, Fresh, RunState, Controllers
<1>o. \A s \in Sessions, r \in Streams :
        ctrl[s] = <<r, 1>> => sess[r] = s /\ pc[r] # "idle"
  BY DEF IInv, OwnRegistration, HoldsOwnController
<1>u. \A s \in Sessions : ctrl[s] = ctrl[q] => s = q \/ ctrl[q] = None
  <2> SUFFICES ASSUME NEW s \in Sessions, ctrl[s] = ctrl[q], ctrl[q] # None
               PROVE  s = q
    OBVIOUS
  <2>1. PICK r \in Streams, i \in {1, 2} : ctrl[q] = <<r, i>>
    BY <1>t DEF Controllers
  <2>. QED
    BY <2>1 DEF IInv, OwnRegistration, HoldsOwnController
<1>1. ASSUME NEW r \in Streams, NEW s \in Sessions, ChatStart(r, s)
      PROVE  (ctrl[q] \notin aborted)'
  BY <1>1, <1>t, <1>l, <1>f, <1>o, <1>u DEF ChatStart, Arrive
<1>2. ASSUME NEW r \in Streams, NEW s \in Sessions, ChatNoConfig(r, s)
      PROVE  (ctrl[q] \notin aborted)'
  BY <1>2, <1>t, <1>l, <1>f, <1>o, <1>u DEF ChatNoConfig, Arrive, Unregister
<1>3. ASSUME NEW r \in Streams, NEW s \in Sessions, SendStream(r, s)
      PROVE  (ctrl[q] \notin aborted)'
  <2>1. /\ pc[r] = "idle" /\ aborted' = aborted
        /\ ctrl' = [ctrl EXCEPT ![s] = IF ctrl[s] = None THEN <<r, 2>> ELSE ctrl[s]]
    BY <1>3 DEF SendStream, Accepts, BeginRun
  <2>. QED
    BY <2>1, <1>t, <1>l, <1>f
<1>4. ASSUME NEW r \in Streams, NEW s \in Sessions, SendJson(r, s)
      PROVE  (ctrl[q] \notin aborted)'
  BY <1>4, <1>t, <1>l, <1>f, <1>o, <1>u DEF SendJson, maps
<1>5. ASSUME NEW r \in Streams, OpenSession(r)
      PROVE  (ctrl[q] \notin aborted)'
  BY <1>5, <1>t, <1>l, <1>f, <1>o, <1>u DEF OpenSession, maps
<1>6. ASSUME NEW r \in Streams, PrepareFails(r)
      PROVE  (ctrl[q] \notin aborted)'
  BY <1>6, <1>t, <1>l, <1>f, <1>o, <1>u DEF PrepareFails, maps
<1>7. ASSUME NEW r \in Streams, ChatRun(r)
      PROVE  (ctrl[q] \notin aborted)'
  BY <1>7, <1>t, <1>l, <1>f, <1>o, <1>u DEF ChatRun, BeginRun
<1>8. ASSUME NEW r \in Streams, AskApproval(r)
      PROVE  (ctrl[q] \notin aborted)'
  BY <1>8, <1>t, <1>l, <1>f, <1>o, <1>u DEF AskApproval, Ask, maps, runs
<1>9. ASSUME NEW r \in Streams, AskHuman(r)
      PROVE  (ctrl[q] \notin aborted)'
  BY <1>9, <1>t, <1>l, <1>f, <1>o, <1>u DEF AskHuman, Ask, maps, runs
<1>10. ASSUME NEW r \in Streams, ToolDone(r)
       PROVE  (ctrl[q] \notin aborted)'
  BY <1>10, <1>t, <1>l, <1>f, <1>o, <1>u DEF ToolDone, maps, runs
<1>11. ASSUME NEW r \in Streams, EndRun(r), RunReturns(r) \/ RunThrows(r)
       PROVE  (ctrl[q] \notin aborted)'
  BY <1>11, <1>t, <1>l, <1>f, <1>o, <1>u
     DEF EndRun, RunReturns, RunThrows, Unregister
<1>12. ASSUME NEW r \in Streams, NEW end \in {"req", "res"},
              ConnectionClosed(r, end)
       PROVE  (ctrl[q] \notin aborted)'
  BY <1>12, <1>t, <1>l, <1>f, <1>o, <1>u
     DEF ConnectionClosed, Unregister, runs
<1>13. ASSUME NEW s \in Sessions, ChatAbort(s)
       PROVE  (ctrl[q] \notin aborted)'
  BY <1>13, <1>t, <1>l, <1>f, <1>o, <1>u DEF ChatAbort, Unregister, runs
<1>14. ASSUME NEW s \in Sessions, DeleteSession(s)
       PROVE  (ctrl[q] \notin aborted)'
  BY <1>14, <1>t, <1>l, <1>f, <1>o, <1>u DEF DeleteSession, runs
<1>15. ASSUME NEW s \in Sessions,
              NEW a \in pendingResolvers, NEW decision \in Decisions,
              Answer(s, a, decision)
       PROVE  (ctrl[q] \notin aborted)'
  BY <1>15, <1>t, <1>l, <1>f, <1>o, <1>u DEF Answer, maps, runs
<1>16. CASE UNCHANGED vars
  BY <1>16, <1>t, <1>l, <1>f, <1>o, <1>u DEF vars, maps, runs
<1>. QED
  BY <1>1, <1>2, <1>3, <1>4, <1>5, <1>6, <1>7, <1>8, <1>9, <1>10, <1>11,
     <1>12, <1>13, <1>14, <1>15, <1>16
     DEF Next, Handler, Request, RunReturns, RunThrows

LEMMA ControllerStep ==
  ASSUME IInv, [Next]_vars, NEW q \in Sessions
  PROVE  HoldsOwnController(q)'
<1>t. /\ pc \in [Streams -> PCs]
      /\ ctrl \in [Sessions -> Controllers \cup {None}]
      /\ sess \in [Streams -> Sessions \cup {None}]
  BY DEF IInv, TypeOK
<1>h. /\ \A s \in Sessions : HoldsOwnController(s)
      /\ \A r \in Streams : pc[r] # "idle" => sess[r] \in Sessions
  BY DEF IInv, OwnRegistration, RunState
<1>n. None \notin Controllers
  BY NoneAssumption
<1>1. ASSUME NEW r \in Streams, NEW s \in Sessions, ChatStart(r, s)
      PROVE  HoldsOwnController(q)'
  BY <1>1, <1>t, <1>h, <1>n DEF HoldsOwnController, PCs, ChatStart, Arrive
<1>2. ASSUME NEW r \in Streams, NEW s \in Sessions, ChatNoConfig(r, s)
      PROVE  HoldsOwnController(q)'
  BY <1>2, <1>t, <1>h, <1>n
     DEF HoldsOwnController, Controllers, PCs, ChatNoConfig, Arrive,
         Unregister
<1>3. ASSUME NEW r \in Streams, NEW s \in Sessions, SendStream(r, s)
      PROVE  HoldsOwnController(q)'
  BY <1>3, <1>t, <1>h, <1>n
     DEF HoldsOwnController, PCs, SendStream, Accepts, BeginRun
<1>4. ASSUME NEW r \in Streams, NEW s \in Sessions, SendJson(r, s)
      PROVE  HoldsOwnController(q)'
  BY <1>4, <1>t, <1>h, <1>n
     DEF HoldsOwnController, PCs, SendJson, Accepts, maps
<1>5. ASSUME NEW r \in Streams, OpenSession(r)
      PROVE  HoldsOwnController(q)'
  BY <1>5, <1>t, <1>h, <1>n DEF HoldsOwnController, PCs, OpenSession, maps
<1>6. ASSUME NEW r \in Streams, PrepareFails(r)
      PROVE  HoldsOwnController(q)'
  BY <1>6, <1>t, <1>h, <1>n
     DEF HoldsOwnController, PCs, PrepareFails, Forget, maps
<1>7. ASSUME NEW r \in Streams, ChatRun(r)
      PROVE  HoldsOwnController(q)'
  BY <1>7, <1>t, <1>h, <1>n DEF HoldsOwnController, PCs, ChatRun, BeginRun
<1>8. ASSUME NEW r \in Streams, AskApproval(r)
      PROVE  HoldsOwnController(q)'
  BY <1>8, <1>t, <1>h, <1>n
     DEF HoldsOwnController, PCs, AskApproval, Ask, maps, runs
<1>9. ASSUME NEW r \in Streams, AskHuman(r)
      PROVE  HoldsOwnController(q)'
  BY <1>9, <1>t, <1>h, <1>n
     DEF HoldsOwnController, PCs, AskHuman, Ask, maps, runs
<1>10. ASSUME NEW r \in Streams, ToolDone(r)
       PROVE  HoldsOwnController(q)'
  BY <1>10, <1>t, <1>h, <1>n DEF HoldsOwnController, PCs, ToolDone, maps, runs
<1>11. ASSUME NEW r \in Streams, EndRun(r), RunReturns(r) \/ RunThrows(r)
       PROVE  HoldsOwnController(q)'
  BY <1>11, <1>t, <1>h, <1>n
     DEF HoldsOwnController, Controllers, PCs, EndRun, RunReturns, RunThrows,
         Forget, Unregister
<1>12. ASSUME NEW r \in Streams, NEW end \in {"req", "res"},
              ConnectionClosed(r, end)
       PROVE  HoldsOwnController(q)'
  BY <1>12, <1>t, <1>h, <1>n
     DEF HoldsOwnController, Controllers, PCs, ConnectionClosed, Unregister,
         runs
<1>13. ASSUME NEW s \in Sessions, ChatAbort(s)
       PROVE  HoldsOwnController(q)'
  BY <1>13, <1>t, <1>h, <1>n
     DEF HoldsOwnController, Controllers, PCs, ChatAbort, Unregister, runs
<1>14. ASSUME NEW s \in Sessions, DeleteSession(s)
       PROVE  HoldsOwnController(q)'
  BY <1>14, <1>t, <1>h, <1>n DEF HoldsOwnController, PCs, DeleteSession, runs
<1>15. ASSUME NEW s \in Sessions,
              NEW a \in pendingResolvers, NEW decision \in Decisions,
              Answer(s, a, decision)
       PROVE  HoldsOwnController(q)'
  BY <1>15, <1>t, <1>h, <1>n DEF HoldsOwnController, PCs, Answer, maps, runs
<1>16. CASE UNCHANGED vars
  BY <1>16, <1>t, <1>h, <1>n DEF HoldsOwnController, PCs, vars, maps, runs
<1>. QED
  BY <1>1, <1>2, <1>3, <1>4, <1>5, <1>6, <1>7, <1>8, <1>9, <1>10, <1>11,
     <1>12, <1>13, <1>14, <1>15, <1>16
     DEF Next, Handler, Request, RunReturns, RunThrows

LEMMA ResponseStep ==
  ASSUME IInv, [Next]_vars, NEW q \in Sessions
  PROVE  HoldsOwnResponse(q)'
<1>t. /\ pc \in [Streams -> PCs]
      /\ sse \in [Sessions -> Streams \cup {None}]
      /\ sess \in [Streams -> Sessions \cup {None}]
      /\ route \in [Streams -> Routes \cup {None}]
      /\ closers \in [Streams -> SUBSET {"req", "res"}]
  BY DEF IInv, TypeOK
<1>h. /\ HoldsOwnResponse(q)
      /\ \A r \in Streams : pc[r] # "idle" => sess[r] \in Sessions
      /\ \A r \in Streams : pc[r] \in {"idle", "preparing", "opened", "ended"} => route[r] = None
  BY DEF IInv, OwnRegistration, RunState
<1>n. None \notin Streams /\ None # "json"
  BY NoneAssumption DEF Objects, Routes
<1>1. ASSUME NEW r \in Streams, NEW s \in Sessions, ChatStart(r, s)
      PROVE  HoldsOwnResponse(q)'
  BY <1>1, <1>t, <1>h, <1>n DEF HoldsOwnResponse, PCs, ChatStart, Arrive
<1>2. ASSUME NEW r \in Streams, NEW s \in Sessions, ChatNoConfig(r, s)
      PROVE  HoldsOwnResponse(q)'
  BY <1>2, <1>t, <1>h, <1>n
     DEF HoldsOwnResponse, PCs, ChatNoConfig, Arrive, Unregister
<1>3. ASSUME NEW r \in Streams, NEW s \in Sessions, SendStream(r, s)
      PROVE  HoldsOwnResponse(q)'
  BY <1>3, <1>t, <1>h, <1>n
     DEF HoldsOwnResponse, PCs, SendStream, Accepts, BeginRun
<1>4. ASSUME NEW r \in Streams, NEW s \in Sessions, SendJson(r, s)
      PROVE  HoldsOwnResponse(q)'
  BY <1>4, <1>t, <1>h, <1>n DEF HoldsOwnResponse, PCs, SendJson, Accepts, maps
<1>5. ASSUME NEW r \in Streams, OpenSession(r)
      PROVE  HoldsOwnResponse(q)'
  BY <1>5, <1>t, <1>h, <1>n DEF HoldsOwnResponse, PCs, OpenSession, maps
<1>6. ASSUME NEW r \in Streams, PrepareFails(r)
      PROVE  HoldsOwnResponse(q)'
  BY <1>6, <1>t, <1>h, <1>n
     DEF HoldsOwnResponse, PCs, PrepareFails, Forget, maps
<1>7. ASSUME NEW r \in Streams, ChatRun(r)
      PROVE  HoldsOwnResponse(q)'
  BY <1>7, <1>t, <1>h, <1>n DEF HoldsOwnResponse, PCs, ChatRun, BeginRun
<1>8. ASSUME NEW r \in Streams, AskApproval(r)
      PROVE  HoldsOwnResponse(q)'
  BY <1>8, <1>t, <1>h, <1>n
     DEF HoldsOwnResponse, PCs, AskApproval, Ask, maps, runs
<1>9. ASSUME NEW r \in Streams, AskHuman(r)
      PROVE  HoldsOwnResponse(q)'
  BY <1>9, <1>t, <1>h, <1>n
     DEF HoldsOwnResponse, PCs, AskHuman, Ask, maps, runs
<1>10. ASSUME NEW r \in Streams, ToolDone(r)
       PROVE  HoldsOwnResponse(q)'
  BY <1>10, <1>t, <1>h, <1>n DEF HoldsOwnResponse, PCs, ToolDone, maps, runs
<1>11. ASSUME NEW r \in Streams, EndRun(r), RunReturns(r) \/ RunThrows(r)
       PROVE  HoldsOwnResponse(q)'
  BY <1>11, <1>t, <1>h, <1>n
     DEF HoldsOwnResponse, PCs, EndRun, RunReturns, RunThrows, Forget,
         DropResponse, Unregister
<1>12. ASSUME NEW r \in Streams, NEW end \in {"req", "res"},
              ConnectionClosed(r, end)
       PROVE  HoldsOwnResponse(q)'
  BY <1>12, <1>t, <1>h, <1>n
     DEF HoldsOwnResponse, PCs, ConnectionClosed, DropResponse, Unregister,
         runs
<1>13. ASSUME NEW s \in Sessions, ChatAbort(s)
       PROVE  HoldsOwnResponse(q)'
  BY <1>13, <1>t, <1>h, <1>n
     DEF HoldsOwnResponse, PCs, ChatAbort, DropResponse, Unregister, runs
<1>14. ASSUME NEW s \in Sessions, DeleteSession(s)
       PROVE  HoldsOwnResponse(q)'
  BY <1>14, <1>t, <1>h, <1>n
     DEF HoldsOwnResponse, PCs, DeleteSession, DropResponse, runs
<1>15. ASSUME NEW s \in Sessions,
              NEW a \in pendingResolvers, NEW decision \in Decisions,
              Answer(s, a, decision)
       PROVE  HoldsOwnResponse(q)'
  BY <1>15, <1>t, <1>h, <1>n DEF HoldsOwnResponse, PCs, Answer, maps, runs
<1>16. CASE UNCHANGED vars
  BY <1>16, <1>t, <1>h, <1>n DEF HoldsOwnResponse, PCs, vars, maps, runs
<1>. QED
  BY <1>1, <1>2, <1>3, <1>4, <1>5, <1>6, <1>7, <1>8, <1>9, <1>10, <1>11,
     <1>12, <1>13, <1>14, <1>15, <1>16
     DEF Next, Handler, Request, RunReturns, RunThrows

LEMMA ResolverIffAwaitedStep ==
  ASSUME IInv, [Next]_vars
  PROVE  ResolverIffAwaited'
<1>1. ASSUME NEW r \in Streams, NEW s \in Sessions, ChatStart(r, s)
      PROVE  ResolverIffAwaited'
  BY <1>1, NoneAssumption
     DEF IInv, TypeOK, RunState, ResolverIffAwaited, Objects, Types, Routes,
         PCs, ChatStart, Arrive, sessions, asking
<1>2. ASSUME NEW r \in Streams, NEW s \in Sessions, ChatNoConfig(r, s)
      PROVE  ResolverIffAwaited'
  BY <1>2, NoneAssumption
     DEF IInv, TypeOK, RunState, ResolverIffAwaited, Objects, Types, Routes,
         PCs, ChatNoConfig, Arrive, Unregister, sessions, asking
<1>3. ASSUME NEW r \in Streams, NEW s \in Sessions, SendStream(r, s)
      PROVE  ResolverIffAwaited'
  BY <1>3, NoneAssumption
     DEF IInv, TypeOK, RunState, ResolverIffAwaited, Objects, Types, Routes,
         PCs, SendStream, Accepts, BeginRun, sessions, asking
<1>4. ASSUME NEW r \in Streams, NEW s \in Sessions, SendJson(r, s)
      PROVE  ResolverIffAwaited'
  BY <1>4, NoneAssumption
     DEF IInv, TypeOK, RunState, ResolverIffAwaited, Objects, Types, Routes,
         PCs, SendJson, Accepts, maps, sessions, asking
<1>5. ASSUME NEW r \in Streams, OpenSession(r)
      PROVE  ResolverIffAwaited'
  BY <1>5, NoneAssumption
     DEF IInv, TypeOK, RunState, ResolverIffAwaited, Objects, Types, Routes,
         PCs, OpenSession, maps, asking
<1>6. ASSUME NEW r \in Streams, PrepareFails(r)
      PROVE  ResolverIffAwaited'
  BY <1>6, NoneAssumption
     DEF IInv, TypeOK, RunState, ResolverIffAwaited, Objects, Types, Routes,
         PCs, PrepareFails, Forget, maps, sessions
<1>7. ASSUME NEW r \in Streams, ChatRun(r)
      PROVE  ResolverIffAwaited'
  BY <1>7, NoneAssumption
     DEF IInv, TypeOK, RunState, ResolverIffAwaited, Objects, Types, Routes,
         PCs, ChatRun, BeginRun, sessions, asking
<1>8. ASSUME NEW r \in Streams, AskApproval(r)
      PROVE  ResolverIffAwaited'
  BY <1>8, NoneAssumption
     DEF IInv, TypeOK, RunState, ResolverIffAwaited, Objects, Types, Routes,
         PCs, AskApproval, Ask, maps, runs
<1>9. ASSUME NEW r \in Streams, AskHuman(r)
      PROVE  ResolverIffAwaited'
  BY <1>9, NoneAssumption
     DEF IInv, TypeOK, RunState, ResolverIffAwaited, Objects, Types, Routes,
         PCs, AskHuman, Ask, maps, runs
<1>10. ASSUME NEW r \in Streams, ToolDone(r)
       PROVE  ResolverIffAwaited'
  BY <1>10, NoneAssumption
     DEF IInv, TypeOK, RunState, ResolverIffAwaited, Objects, Types, Routes,
         PCs, ToolDone, maps, sessions, runs, asking
<1>11. ASSUME NEW r \in Streams, EndRun(r), RunReturns(r) \/ RunThrows(r)
       PROVE  ResolverIffAwaited'
  BY <1>11, NoneAssumption
     DEF IInv, TypeOK, RunState, ResolverIffAwaited, Objects, Types, Routes,
         PCs, EndRun, RunReturns, RunThrows, Forget, Unregister
<1>12. ASSUME NEW r \in Streams, NEW end \in {"req", "res"},
              ConnectionClosed(r, end)
       PROVE  ResolverIffAwaited'
  BY <1>12, NoneAssumption
     DEF IInv, TypeOK, RunState, ResolverIffAwaited, Objects, Types, Routes,
         PCs, ConnectionClosed, Unregister, sessions, runs, asking
<1>13. ASSUME NEW s \in Sessions, ChatAbort(s)
       PROVE  ResolverIffAwaited'
  BY <1>13, NoneAssumption
     DEF IInv, TypeOK, RunState, ResolverIffAwaited, Objects, Types, Routes,
         PCs, ChatAbort, Unregister, sessions, runs, asking
<1>14. ASSUME NEW s \in Sessions, DeleteSession(s)
       PROVE  ResolverIffAwaited'
  BY <1>14, NoneAssumption
     DEF IInv, TypeOK, RunState, ResolverIffAwaited, Objects, Types, Routes,
         PCs, DeleteSession, runs, asking
<1>15. ASSUME NEW s \in Sessions,
              NEW a \in pendingResolvers, NEW decision \in Decisions,
              Answer(s, a, decision)
       PROVE  ResolverIffAwaited'
  BY <1>15, NoneAssumption
     DEF IInv, TypeOK, RunState, ResolverIffAwaited, Objects, Types, Routes,
         PCs, Answer, DropResolver, maps, runs
<1>16. CASE UNCHANGED vars
  BY <1>16, NoneAssumption
     DEF IInv, TypeOK, RunState, ResolverIffAwaited, Objects, Types, Routes,
         PCs, vars, maps, sessions, runs, asking
<1>. QED
  BY <1>1, <1>2, <1>3, <1>4, <1>5, <1>6, <1>7, <1>8, <1>9, <1>10, <1>11,
     <1>12, <1>13, <1>14, <1>15, <1>16
     DEF Next, Handler, Request, RunReturns, RunThrows

LEMMA WaitingIsAnswerableStep ==
  ASSUME IInv, [Next]_vars
  PROVE  WaitingIsAnswerable'
<1>1. ASSUME NEW r \in Streams, NEW s \in Sessions, ChatStart(r, s)
      PROVE  WaitingIsAnswerable'
  BY <1>1, NoneAssumption
     DEF IInv, TypeOK, RunState, ResolverIffAwaited, WaitingIsAnswerable,
         Objects, Types, Routes, PCs, ChatStart, sessions, asking
<1>2. ASSUME NEW r \in Streams, NEW s \in Sessions, ChatNoConfig(r, s)
      PROVE  WaitingIsAnswerable'
  BY <1>2, NoneAssumption
     DEF IInv, TypeOK, RunState, ResolverIffAwaited, WaitingIsAnswerable,
         Objects, Types, Routes, PCs, ChatNoConfig, Unregister, sessions,
         asking
<1>3. ASSUME NEW r \in Streams, NEW s \in Sessions, SendStream(r, s)
      PROVE  WaitingIsAnswerable'
  BY <1>3, NoneAssumption
     DEF IInv, TypeOK, RunState, ResolverIffAwaited, WaitingIsAnswerable,
         Objects, Types, Routes, PCs, SendStream, Accepts, sessions, asking
<1>4. ASSUME NEW r \in Streams, NEW s \in Sessions, SendJson(r, s)
      PROVE  WaitingIsAnswerable'
  BY <1>4, NoneAssumption
     DEF IInv, TypeOK, RunState, ResolverIffAwaited, WaitingIsAnswerable,
         Objects, Types, Routes, PCs, SendJson, Accepts, maps, sessions,
         asking
<1>5. ASSUME NEW r \in Streams, OpenSession(r)
      PROVE  WaitingIsAnswerable'
  BY <1>5, NoneAssumption
     DEF IInv, TypeOK, RunState, ResolverIffAwaited, WaitingIsAnswerable,
         Objects, Types, Routes, PCs, OpenSession, maps, asking
<1>6. ASSUME NEW r \in Streams, PrepareFails(r)
      PROVE  WaitingIsAnswerable'
  BY <1>6, NoneAssumption
     DEF IInv, TypeOK, RunState, ResolverIffAwaited, WaitingIsAnswerable,
         Objects, Types, Routes, PCs, PrepareFails, Forget, maps, sessions
<1>7. ASSUME NEW r \in Streams, ChatRun(r)
      PROVE  WaitingIsAnswerable'
  BY <1>7, NoneAssumption
     DEF IInv, TypeOK, RunState, ResolverIffAwaited, WaitingIsAnswerable,
         Objects, Types, Routes, PCs, ChatRun, sessions, asking
<1>8. ASSUME NEW r \in Streams, AskApproval(r)
      PROVE  WaitingIsAnswerable'
  BY <1>8, NoneAssumption
     DEF IInv, TypeOK, RunState, ResolverIffAwaited, WaitingIsAnswerable,
         Objects, Types, Routes, PCs, AskApproval, Ask, maps, runs
<1>9. ASSUME NEW r \in Streams, AskHuman(r)
      PROVE  WaitingIsAnswerable'
  BY <1>9, NoneAssumption
     DEF IInv, TypeOK, RunState, ResolverIffAwaited, WaitingIsAnswerable,
         Objects, Types, Routes, PCs, AskHuman, Ask, maps, runs
<1>10. ASSUME NEW r \in Streams, ToolDone(r)
       PROVE  WaitingIsAnswerable'
  BY <1>10, NoneAssumption
     DEF IInv, TypeOK, RunState, ResolverIffAwaited, WaitingIsAnswerable,
         Objects, Types, Routes, PCs, ToolDone, maps, sessions, runs, asking
<1>11. ASSUME NEW r \in Streams, EndRun(r), RunReturns(r) \/ RunThrows(r)
       PROVE  WaitingIsAnswerable'
  BY <1>11, NoneAssumption
     DEF IInv, TypeOK, RunState, ResolverIffAwaited, WaitingIsAnswerable,
         Objects, Types, Routes, PCs, EndRun, RunReturns, RunThrows, Forget,
         Unregister
<1>12. ASSUME NEW r \in Streams, NEW end \in {"req", "res"},
              ConnectionClosed(r, end)
       PROVE  WaitingIsAnswerable'
  BY <1>12, NoneAssumption
     DEF IInv, TypeOK, RunState, ResolverIffAwaited, WaitingIsAnswerable,
         Objects, Types, Routes, PCs, ConnectionClosed, Unregister, sessions,
         runs, asking
<1>13. ASSUME NEW s \in Sessions, ChatAbort(s)
       PROVE  WaitingIsAnswerable'
  BY <1>13, NoneAssumption
     DEF IInv, TypeOK, RunState, ResolverIffAwaited, WaitingIsAnswerable,
         Objects, Types, Routes, PCs, ChatAbort, Unregister, sessions, runs,
         asking
<1>14. ASSUME NEW s \in Sessions, DeleteSession(s)
       PROVE  WaitingIsAnswerable'
  BY <1>14, NoneAssumption
     DEF IInv, TypeOK, RunState, ResolverIffAwaited, WaitingIsAnswerable,
         Objects, Types, Routes, PCs, DeleteSession, runs, asking
<1>15. ASSUME NEW s \in Sessions,
              NEW a \in pendingResolvers, NEW decision \in Decisions,
              Answer(s, a, decision)
       PROVE  WaitingIsAnswerable'
  BY <1>15, NoneAssumption
     DEF IInv, TypeOK, RunState, ResolverIffAwaited, WaitingIsAnswerable,
         Objects, Types, Routes, PCs, Answer, DropResolver, ClearedStatus,
         maps, runs
<1>16. CASE UNCHANGED vars
  BY <1>16, NoneAssumption
     DEF IInv, TypeOK, RunState, ResolverIffAwaited, WaitingIsAnswerable,
         Objects, Types, Routes, PCs, vars, maps, sessions, runs, asking
<1>. QED
  BY <1>1, <1>2, <1>3, <1>4, <1>5, <1>6, <1>7, <1>8, <1>9, <1>10, <1>11,
     <1>12, <1>13, <1>14, <1>15, <1>16
     DEF Next, Handler, Request, RunReturns, RunThrows

LEMMA GrantedStep ==
  ASSUME GrantedOnlyByAllow, [Next]_vars
  PROVE  GrantedOnlyByAllow'
<1>g. GrantedOnlyByAllow
  OBVIOUS
<1>1. ASSUME NEW r \in Streams, NEW s \in Sessions, ChatStart(r, s)
      PROVE  GrantedOnlyByAllow'
  BY <1>1, <1>g DEF GrantedOnlyByAllow, ChatStart, sessions, asking
<1>2. ASSUME NEW r \in Streams, NEW s \in Sessions, ChatNoConfig(r, s)
      PROVE  GrantedOnlyByAllow'
  BY <1>2, <1>g
     DEF GrantedOnlyByAllow, ChatNoConfig, Unregister, sessions, asking
<1>3. ASSUME NEW r \in Streams, NEW s \in Sessions, SendStream(r, s)
      PROVE  GrantedOnlyByAllow'
  BY <1>3, <1>g DEF GrantedOnlyByAllow, SendStream, sessions, asking
<1>4. ASSUME NEW r \in Streams, NEW s \in Sessions, SendJson(r, s)
      PROVE  GrantedOnlyByAllow'
  BY <1>4, <1>g DEF GrantedOnlyByAllow, SendJson, maps, sessions, asking
<1>5. ASSUME NEW r \in Streams, OpenSession(r)
      PROVE  GrantedOnlyByAllow'
  BY <1>5, <1>g DEF GrantedOnlyByAllow, OpenSession, maps, asking
<1>6. ASSUME NEW r \in Streams, PrepareFails(r)
      PROVE  GrantedOnlyByAllow'
  BY <1>6, <1>g DEF GrantedOnlyByAllow, PrepareFails, Forget, maps, sessions
<1>7. ASSUME NEW r \in Streams, ChatRun(r)
      PROVE  GrantedOnlyByAllow'
  BY <1>7, <1>g DEF GrantedOnlyByAllow, ChatRun, sessions, asking
<1>8. ASSUME NEW r \in Streams, AskApproval(r)
      PROVE  GrantedOnlyByAllow'
  BY <1>8, <1>g DEF GrantedOnlyByAllow, AskApproval, Ask, maps, runs
<1>9. ASSUME NEW r \in Streams, AskHuman(r)
      PROVE  GrantedOnlyByAllow'
  BY <1>9, <1>g DEF GrantedOnlyByAllow, AskHuman, Ask, maps, runs
<1>10. ASSUME NEW r \in Streams, ToolDone(r)
       PROVE  GrantedOnlyByAllow'
  BY <1>10, <1>g
     DEF GrantedOnlyByAllow, ToolDone, maps, sessions, runs, asking
<1>11. ASSUME NEW r \in Streams, EndRun(r), RunReturns(r) \/ RunThrows(r)
       PROVE  GrantedOnlyByAllow'
  BY <1>11, <1>g
     DEF GrantedOnlyByAllow, EndRun, RunReturns, RunThrows, Forget,
         Unregister
<1>12. ASSUME NEW r \in Streams, NEW end \in {"req", "res"},
              ConnectionClosed(r, end)
       PROVE  GrantedOnlyByAllow'
  BY <1>12, <1>g
     DEF GrantedOnlyByAllow, ConnectionClosed, Unregister, sessions, runs,
         asking
<1>13. ASSUME NEW s \in Sessions, ChatAbort(s)
       PROVE  GrantedOnlyByAllow'
  BY <1>13, <1>g
     DEF GrantedOnlyByAllow, ChatAbort, Unregister, sessions, runs, asking
<1>14. ASSUME NEW s \in Sessions, DeleteSession(s)
       PROVE  GrantedOnlyByAllow'
  BY <1>14, <1>g DEF GrantedOnlyByAllow, DeleteSession, runs, asking
<1>15. ASSUME NEW s \in Sessions,
              NEW a \in pendingResolvers, NEW decision \in Decisions,
              Answer(s, a, decision)
       PROVE  GrantedOnlyByAllow'
  BY <1>15, <1>g DEF GrantedOnlyByAllow, Answer, Approves, maps, runs
<1>16. CASE UNCHANGED vars
  BY <1>16, <1>g DEF GrantedOnlyByAllow, vars, maps, sessions, runs, asking
<1>. QED
  BY <1>1, <1>2, <1>3, <1>4, <1>5, <1>6, <1>7, <1>8, <1>9, <1>10, <1>11,
     <1>12, <1>13, <1>14, <1>15, <1>16
     DEF Next, Handler, Request, RunReturns, RunThrows

LEMMA FinishedStep ==
  ASSUME IInv, FinishedMeansEnded, [Next]_vars
  PROVE  FinishedMeansEnded'
<1>e. pc \in [Streams -> PCs] /\ FinishedMeansEnded
  BY DEF IInv, TypeOK
<1>1. ASSUME NEW r \in Streams, NEW s \in Sessions, ChatStart(r, s)
      PROVE  FinishedMeansEnded'
  BY <1>1, <1>e DEF FinishedMeansEnded, ChatStart, EndRegistered
<1>2. ASSUME NEW r \in Streams, NEW s \in Sessions, ChatNoConfig(r, s)
      PROVE  FinishedMeansEnded'
  BY <1>2, <1>e
     DEF FinishedMeansEnded, ChatNoConfig, EndRegistered, Unregister
<1>3. ASSUME NEW r \in Streams, NEW s \in Sessions, SendStream(r, s)
      PROVE  FinishedMeansEnded'
  BY <1>3, <1>e DEF FinishedMeansEnded, SendStream, BeginRun
<1>4. ASSUME NEW r \in Streams, NEW s \in Sessions, SendJson(r, s)
      PROVE  FinishedMeansEnded'
  BY <1>4, <1>e DEF FinishedMeansEnded, SendJson, maps
<1>5. ASSUME NEW r \in Streams, OpenSession(r)
      PROVE  FinishedMeansEnded'
  BY <1>5, <1>e DEF FinishedMeansEnded, OpenSession, maps
<1>6. ASSUME NEW r \in Streams, PrepareFails(r)
      PROVE  FinishedMeansEnded'
  BY <1>6, <1>e DEF FinishedMeansEnded, PrepareFails, Forget, maps
<1>7. ASSUME NEW r \in Streams, ChatRun(r)
      PROVE  FinishedMeansEnded'
  BY <1>7, <1>e DEF FinishedMeansEnded, ChatRun, BeginRun
<1>8. ASSUME NEW r \in Streams, AskApproval(r)
      PROVE  FinishedMeansEnded'
  BY <1>8, <1>e DEF FinishedMeansEnded, AskApproval, Ask, maps, runs
<1>9. ASSUME NEW r \in Streams, AskHuman(r)
      PROVE  FinishedMeansEnded'
  BY <1>9, <1>e DEF FinishedMeansEnded, AskHuman, Ask, maps, runs
<1>10. ASSUME NEW r \in Streams, ToolDone(r)
       PROVE  FinishedMeansEnded'
  BY <1>10, <1>e DEF FinishedMeansEnded, ToolDone, maps, runs
<1>11. ASSUME NEW r \in Streams, EndRun(r), RunReturns(r) \/ RunThrows(r)
       PROVE  FinishedMeansEnded'
  BY <1>11, <1>e
     DEF FinishedMeansEnded, EndRun, RunReturns, RunThrows, Forget,
         EndResponse, Unregister
<1>12. ASSUME NEW r \in Streams, NEW end \in {"req", "res"},
              ConnectionClosed(r, end)
       PROVE  FinishedMeansEnded'
  BY <1>12, <1>e DEF FinishedMeansEnded, ConnectionClosed, Unregister, runs
<1>13. ASSUME NEW s \in Sessions, ChatAbort(s)
       PROVE  FinishedMeansEnded'
  BY <1>13, <1>e
     DEF FinishedMeansEnded, ChatAbort, EndRegistered, Unregister, runs
<1>14. ASSUME NEW s \in Sessions, DeleteSession(s)
       PROVE  FinishedMeansEnded'
  BY <1>14, <1>e DEF FinishedMeansEnded, DeleteSession, runs
<1>15. ASSUME NEW s \in Sessions,
              NEW a \in pendingResolvers, NEW decision \in Decisions,
              Answer(s, a, decision)
       PROVE  FinishedMeansEnded'
  BY <1>15, <1>e DEF FinishedMeansEnded, Answer, maps, runs
<1>16. CASE UNCHANGED vars
  BY <1>16, <1>e DEF FinishedMeansEnded, vars, maps, runs
<1>. QED
  BY <1>1, <1>2, <1>3, <1>4, <1>5, <1>6, <1>7, <1>8, <1>9, <1>10, <1>11,
     <1>12, <1>13, <1>14, <1>15, <1>16
     DEF Next, Handler, Request, RunReturns, RunThrows

-----------------------------------------------------------------------------
(* The theorems                                                            *)

LEMMA IInvStep == IInv /\ [Next]_vars => IInv'
<1> SUFFICES ASSUME IInv, [Next]_vars PROVE IInv'
  OBVIOUS
<1>1. TypeOK' /\ RunState' /\ ResolverIffAwaited' /\ WaitingIsAnswerable'
  BY TypeStep, RunStateStep, ResolverIffAwaitedStep, WaitingIsAnswerableStep
<1>2. OwnRegistration'
  BY ControllerStep, ResponseStep DEF OwnRegistration
<1>3. FreshControllers' /\ RegisteredIsLive'
  BY FreshStep, LiveStep DEF FreshControllers, RegisteredIsLive
<1>. QED
  BY <1>1, <1>2, <1>3 DEF IInv

\* The two maps, the sessions and the runs keep the shapes the handlers rely
\* on, together with everything the proofs below need of them.
THEOREM Invariance == Spec => []IInv
  BY InitInv, IInvStep, PTL DEF Spec

\* The variables of the chat handlers keep their types.
THEOREM TypeCorrect == Spec => []TypeOK
<1>1. IInv => TypeOK
  BY DEF IInv
<1>. QED
  BY Invariance, <1>1, PTL

\* The resolver table holds exactly the actions that some run awaits: no
\* promise is orphaned and none is left behind.
THEOREM ResolversExact == Spec => []ResolverIffAwaited
<1>1. IInv => ResolverIffAwaited
  BY DEF IInv
<1>. QED
  BY Invariance, <1>1, PTL

\* The pending action a waiting session shows can always be answered, however
\* many runs, deletions and answers interleave on its id.
THEOREM WaitingAnswerable == Spec => []WaitingIsAnswerable
<1>1. IInv => WaitingIsAnswerable
  BY DEF IInv
<1>. QED
  BY Invariance, <1>1, PTL

\* No registered controller has been aborted.
THEOREM RegisteredLive == Spec => []RegisteredIsLive
<1>1. IInv => RegisteredIsLive
  BY DEF IInv
<1>. QED
  BY Invariance, <1>1, PTL

\* Every registered response belongs to a stream of that session which will
\* still drop it, so activeSSEConnections cannot leak an entry.
THEOREM RegisteredDropped == Spec => []RegisteredResponseIsDropped
<1>1. IInv => RegisteredResponseIsDropped
  BY DEF IInv, TypeOK, OwnRegistration, HoldsOwnResponse,
         RegisteredResponseIsDropped
<1>. QED
  BY Invariance, <1>1, PTL

\* A tool that needs an approval is called only after a user allowed that very
\* action, for any number of runs that share a session.
THEOREM GrantedSafe == Spec => []GrantedOnlyByAllow
<1>1. Init => GrantedOnlyByAllow
  BY DEF Init, GrantedOnlyByAllow
<1>2. GrantedOnlyByAllow /\ [Next]_vars => GrantedOnlyByAllow'
  BY GrantedStep
<1>. QED
  BY <1>1, <1>2, PTL DEF Spec

\* A handler that is over has ended its response, on every branch.
THEOREM FinishedEnded == Spec => []FinishedMeansEnded
<1>1. Init => FinishedMeansEnded
  BY DEF Init, FinishedMeansEnded
<1>2. IInv /\ FinishedMeansEnded /\ [Next]_vars => FinishedMeansEnded'
  BY FinishedStep
<1>. QED
  BY Invariance, <1>1, <1>2, PTL DEF Spec

-----------------------------------------------------------------------------
(* One life per request                                                    *)

\* Only a run that goes on has a controller, and only a request that came has
\* its response ended.
Lives ==
  /\ \A r \in Streams : pc[r] \notin {"running", "tool", "waiting"} => runCtrl[r] = None
  /\ \A r \in ended : pc[r] # "idle"

LEMMA Stages ==
  /\ StageAt["idle"] = "new" /\ StageAt["preparing"] = "opening" /\ StageAt["opened"] = "opening"
  /\ StageAt["running"] = "running" /\ StageAt["waiting"] = "asking"
  /\ StageAt["tool"] = "acting" /\ StageAt["ended"] = "over"
BY DEF StageAt, PCs

\* Thread r moves, or none does.
LEMMA Moves ==
  ASSUME TypeOK, NEW r \in Streams, NEW where, pc' = [pc EXCEPT ![r] = where]
  PROVE  AgentRuns!To(r, StageAt[where])
BY DEF TypeOK, AgentRuns!To

\* A run whose stage moves makes a step of AgentRuns.
MovesOn(r) == StageAt[pc'[r]] # StageAt[pc[r]]

LEMMA Moved ==
  ASSUME NEW r \in Streams, MovesOn(r),
         AgentRuns!Open(r) \/ AgentRuns!Run(r) \/ AgentRuns!Ask(r) \/ AgentRuns!Answer(r)
           \/ AgentRuns!Acted(r) \/ AgentRuns!End(r)
  PROVE  AgentRuns!RunsNext
BY DEF AgentRuns!RunsNext, MovesOn

LEMMA Closes ==
  ASSUME IInv, TypeOK', Lives', runCtrl' = runCtrl, aborted \subseteq aborted', ended \subseteq ended'
  PROVE  AgentRuns!Stop
<1>1. ASSUME NEW r \in Streams, runCtrl'[r] \in aborted'
      PROVE  StageAt[pc'[r]] \in {"running", "asking", "acting"}
  <2>1. runCtrl'[r] # None
    BY <1>1, NoneAssumption DEF TypeOK
  <2>2. pc'[r] \in {"running", "tool", "waiting"}
    BY <2>1 DEF Lives
  <2>. QED
    BY <2>2, Stages
<1>2. ASSUME NEW r \in ended'
      PROVE  r \in Streams /\ StageAt[pc'[r]] # "new"
  <2>1. r \in Streams /\ pc'[r] \in PCs \ {"idle"}
    BY DEF TypeOK, Lives
  <2>. QED
    BY <2>1, Stages DEF PCs
<1>. QED
  BY <1>1, <1>2 DEF AgentRuns!Stop, AgentRuns!Live, Aborted

\* The controller that a run begins with is not aborted.
LEMMA Unaborted ==
  ASSUME IInv, NEW r \in Streams, NEW s \in Sessions, NEW branch,
         pc[r] \in {"idle", "opened"}, BeginRun(r, s, branch)
  PROVE  runCtrl'[r] \notin aborted /\ \A q \in Streams \ {r} : runCtrl'[q] = runCtrl[q]
<1>1. ctrl[s] \notin aborted /\ <<r, 2>> \notin aborted
  BY DEF IInv, RegisteredIsLive, FreshControllers, Fresh
<1>. QED
  BY <1>1 DEF BeginRun, IInv, TypeOK

\* What EndRegistered ends belongs to a request that came.
LEMMA Registered ==
  ASSUME IInv, NEW s \in Sessions
  PROVE  \A r \in EndRegistered(s) : r \in ended \/ (r \in Streams /\ pc[r] # "idle")
BY DEF IInv, TypeOK, EndRegistered, OwnRegistration, HoldsOwnResponse

LEMMA StepLives ==
  ASSUME IInv, Lives, [Next]_vars
  PROVE  Lives'
<1>. USE DEF Lives
<1>t. /\ pc \in [Streams -> PCs] /\ runCtrl \in [Streams -> Controllers \cup {None}]
      /\ ended \subseteq Streams
  BY DEF IInv, TypeOK
<1>1. ASSUME NEW r \in Streams, NEW s \in Sessions, ChatStart(r, s) \/ ChatNoConfig(r, s)
      PROVE  Lives'
  BY <1>1, <1>t, Registered DEF ChatStart, ChatNoConfig, Arrive
<1>2. ASSUME NEW r \in Streams, NEW s \in Sessions, SendStream(r, s) \/ SendJson(r, s)
      PROVE  Lives'
  BY <1>2, <1>t DEF SendStream, SendJson, Accepts, BeginRun
<1>3. ASSUME NEW r \in Streams, OpenSession(r) \/ ChatRun(r)
      PROVE  Lives'
  BY <1>3, <1>t DEF OpenSession, ChatRun, BeginRun
<1>4. ASSUME NEW r \in Streams, PrepareFails(r) \/ EndRun(r)
      PROVE  Lives'
  BY <1>4, <1>t DEF PrepareFails, EndRun, Forget, EndResponse
<1>5. ASSUME NEW r \in Streams, AskApproval(r) \/ AskHuman(r) \/ ToolDone(r)
      PROVE  Lives'
  BY <1>5, <1>t DEF AskApproval, AskHuman, ToolDone, Ask, runs
<1>6. ASSUME NEW r \in Streams, NEW end \in {"req", "res"}, ConnectionClosed(r, end)
      PROVE  Lives'
  BY <1>6 DEF ConnectionClosed, runs
<1>7. ASSUME NEW s \in Sessions, ChatAbort(s) \/ DeleteSession(s)
      PROVE  Lives'
  BY <1>7, Registered DEF ChatAbort, DeleteSession, runs
<1>8. ASSUME NEW s \in Sessions, NEW a \in pendingResolvers, NEW decision \in Decisions,
             Answer(s, a, decision)
      PROVE  Lives'
  <2>1. a.stream \in Streams /\ pc[a.stream] = "waiting"
    BY DEF IInv, ResolverIffAwaited, RunState
  <2>. QED
    BY <1>8, <2>1, <1>t DEF Answer, runs
<1>9. CASE UNCHANGED vars
  BY <1>9 DEF vars, runs
<1>. QED
  BY <1>1, <1>2, <1>3, <1>4, <1>5, <1>6, <1>7, <1>8, <1>9
     DEF Next, Handler, Request, RunReturns, RunThrows

LEMMA StepRuns ==
  ASSUME IInv, Lives, [Next]_vars, TypeOK', Lives'
  PROVE  [AgentRuns!RunsNext]_(AgentRuns!runsVars)
<1>t. /\ TypeOK
      /\ pc \in [Streams -> PCs] /\ runCtrl \in [Streams -> Controllers \cup {None}]
      /\ None \notin aborted
  BY NoneAssumption DEF IInv, TypeOK
<1>u. ASSUME pc' = pc, runCtrl' = runCtrl, aborted' = aborted, ended' = ended
      PROVE  UNCHANGED AgentRuns!runsVars
  BY <1>u DEF AgentRuns!runsVars, Aborted
\* A step that leaves controllers and responses alone.
<1>k. ASSUME runCtrl' = runCtrl, aborted' = aborted, ended' = ended
      PROVE  UNCHANGED <<{r \in Streams : Aborted(r)}, ended>>
  BY <1>k DEF Aborted
<1>1. ASSUME NEW r \in Streams, NEW s \in Sessions, ChatStart(r, s) \/ ChatNoConfig(r, s)
      PROVE  AgentRuns!RunsNext
  <2>1. /\ pc[r] = "idle" /\ runCtrl' = runCtrl
        /\ aborted \subseteq aborted' /\ ended \subseteq ended'
    BY <1>1 DEF ChatStart, ChatNoConfig, Arrive, EndRegistered
  <2>2. AgentRuns!Stop
    BY <2>1, Closes
  <2>3. \/ pc' = [pc EXCEPT ![r] = "preparing"]
        \/ pc' = [pc EXCEPT ![r] = "ended"] /\ r \in ended'
    BY <1>1 DEF ChatStart, ChatNoConfig
  <2>4. AgentRuns!To(r, "opening") \/ (AgentRuns!To(r, "over") /\ r \in ended')
    BY <2>3, <1>t, Moves, Stages
  <2>5. MovesOn(r)
    BY <2>1, <2>3, <1>t, Stages DEF MovesOn
  <2>6. AgentRuns!Open(r)
    BY <2>1, <2>2, <2>4, Stages DEF AgentRuns!Open
  <2>. QED
    BY <2>5, <2>6, Moved
<1>2. ASSUME NEW r \in Streams, NEW s \in Sessions,
             SendStream(r, s) \/ SendJson(r, s) \/ (ChatRun(r) /\ s = sess[r])
      PROVE  AgentRuns!RunsNext
  <2>1. /\ pc[r] \in {"idle", "opened"} /\ pc' = [pc EXCEPT ![r] = "running"]
        /\ aborted' = aborted /\ ended' = ended
    BY <1>2 DEF SendStream, SendJson, ChatRun, Accepts, BeginRun, maps
  <2>2. runCtrl[r] = None
    BY <2>1 DEF Lives
  <2>3. runCtrl'[r] \notin aborted /\ \A q \in Streams \ {r} : runCtrl'[q] = runCtrl[q]
    BY <1>2, <2>1, <2>2, <1>t, Unaborted DEF SendStream, SendJson, ChatRun
  <2>4. AgentRuns!To(r, "running") /\ StageAt[pc[r]] \in {"new", "opening"}
    BY <2>1, <1>t, Moves, Stages
  <2>5. MovesOn(r)
    BY <2>1, <1>t, Stages DEF MovesOn
  <2>6. AgentRuns!Run(r)
    BY <2>1, <2>2, <2>3, <2>4, <1>t DEF AgentRuns!Run, Aborted
  <2>. QED
    BY <2>5, <2>6, Moved
<1>3. ASSUME NEW r \in Streams, OpenSession(r)
      PROVE  UNCHANGED AgentRuns!runsVars
  <2>1. /\ pc[r] = "preparing" /\ pc' = [pc EXCEPT ![r] = "opened"]
        /\ UNCHANGED <<runCtrl, aborted, ended>>
    BY <1>3 DEF OpenSession, maps
  <2>2. \A q \in Streams : StageAt[pc'[q]] = StageAt[pc[q]]
    BY <2>1, <1>t, Stages
  <2>. QED
    BY <2>1, <2>2, <1>k DEF AgentRuns!runsVars
<1>4. ASSUME NEW r \in Streams, PrepareFails(r) \/ EndRun(r)
      PROVE  AgentRuns!RunsNext
  <2>1. /\ pc[r] \in {"preparing", "opened", "running"} /\ Forget(r)
        /\ aborted' = aborted /\ ended' = ended \cup {r}
    BY <1>4 DEF PrepareFails, EndRun, EndResponse, maps
  <2>2. runCtrl' = [runCtrl EXCEPT ![r] = None] /\ pc' = [pc EXCEPT ![r] = "ended"]
    BY <2>1 DEF Forget
  <2>3. AgentRuns!To(r, "over") /\ StageAt[pc[r]] \in {"opening", "running"}
    BY <2>1, <2>2, <1>t, Moves, Stages
  <2>5. MovesOn(r)
    BY <2>1, <2>2, <1>t, Stages DEF MovesOn
  <2>6. AgentRuns!End(r)
    BY <2>1, <2>2, <2>3, <1>t DEF AgentRuns!End, Aborted
  <2>. QED
    BY <2>5, <2>6, Moved
<1>5. ASSUME NEW r \in Streams, AskApproval(r) \/ AskHuman(r)
      PROVE  AgentRuns!RunsNext
  <2>1. /\ (pc[r] = "running" /\ ~Aborted(r)) \/ pc[r] = "tool"
        /\ pc' = [pc EXCEPT ![r] = "waiting"]
        /\ UNCHANGED <<runCtrl, aborted, ended>>
    BY <1>5 DEF AskApproval, AskHuman, Ask, maps, runs
  <2>2. AgentRuns!To(r, "asking")
    BY <2>1, <1>t, Moves, Stages
  <2>5. MovesOn(r)
    BY <2>1, <1>t, Stages DEF MovesOn
  <2>6. AgentRuns!Ask(r)
    BY <2>1, <2>2, <1>k, Stages DEF AgentRuns!Ask
  <2>. QED
    BY <2>5, <2>6, Moved
<1>6. ASSUME NEW r \in Streams, ToolDone(r)
      PROVE  AgentRuns!RunsNext
  <2>1. /\ pc[r] = "tool" /\ pc' = [pc EXCEPT ![r] = "running"]
        /\ UNCHANGED <<runCtrl, aborted, ended>>
    BY <1>6 DEF ToolDone, maps, runs
  <2>2. AgentRuns!To(r, "running")
    BY <2>1, <1>t, Moves, Stages
  <2>5. MovesOn(r)
    BY <2>1, <1>t, Stages DEF MovesOn
  <2>6. AgentRuns!Acted(r)
    BY <2>1, <2>2, <1>k, Stages DEF AgentRuns!Acted
  <2>. QED
    BY <2>5, <2>6, Moved
<1>7. ASSUME NEW s \in Sessions, NEW a \in pendingResolvers, NEW decision \in Decisions,
             Answer(s, a, decision)
      PROVE  AgentRuns!RunsNext
  <2>1. PICK r \in Streams : r = a.stream /\ pc[r] = "waiting"
    BY DEF IInv, ResolverIffAwaited, RunState
  <2>2. /\ pc' = [pc EXCEPT ![r] = "tool"] \/ pc' = [pc EXCEPT ![r] = "running"]
        /\ UNCHANGED <<runCtrl, aborted, ended>>
    BY <1>7, <2>1 DEF Answer, maps, runs
  <2>3. AgentRuns!To(r, "acting") \/ AgentRuns!To(r, "running")
    BY <2>2, <1>t, Moves, Stages
  <2>5. MovesOn(r)
    BY <2>1, <2>2, <1>t, Stages DEF MovesOn
  <2>6. AgentRuns!Answer(r)
    BY <2>1, <2>2, <2>3, <1>k, Stages DEF AgentRuns!Answer
  <2>. QED
    BY <2>5, <2>6, Moved
<1>8. ASSUME NEW s \in Sessions, NEW r \in Streams, NEW end \in {"req", "res"},
             ConnectionClosed(r, end) \/ ChatAbort(s)
      PROVE  AgentRuns!Stop /\ UNCHANGED [q \in Streams |-> StageAt[pc[q]]]
  <2>1. /\ UNCHANGED <<pc, runCtrl>>
        /\ aborted \subseteq aborted' /\ ended \subseteq ended'
    BY <1>8 DEF ConnectionClosed, ChatAbort, EndRegistered, runs
  <2>. QED
    BY <2>1, Closes
<1>9. ASSUME NEW s \in Sessions, DeleteSession(s)
      PROVE  UNCHANGED AgentRuns!runsVars
  BY <1>9, <1>u DEF DeleteSession, runs
<1>10. CASE UNCHANGED vars
  BY <1>10, <1>u DEF vars, maps, runs
<1>. QED
  <2>1. ASSUME NEW r \in Streams, Handler(r)
        PROVE  [AgentRuns!RunsNext]_(AgentRuns!runsVars)
    <3>1. ChatRun(r) => sess[r] \in Sessions
      BY DEF ChatRun, IInv, RunState
    <3>. QED
      BY <2>1, <3>1, <1>2, <1>3, <1>4, <1>5, <1>6
         DEF Handler, RunReturns, RunThrows
  <2>2. ASSUME NEW r \in Streams, NEW end \in {"req", "res"}, ConnectionClosed(r, end)
        PROVE  [AgentRuns!RunsNext]_(AgentRuns!runsVars)
    <3>1. PICK s \in Sessions : s = sess[r]
      BY <2>2 DEF ConnectionClosed, IInv, RunState
    <3>. QED
      BY <2>2, <3>1, <1>8 DEF AgentRuns!RunsNext
  <2>3. ASSUME NEW s \in Sessions, Request(s)
        PROVE  [AgentRuns!RunsNext]_(AgentRuns!runsVars)
    <3>1. CASE ChatAbort(s)
      <4>1. /\ UNCHANGED <<pc, runCtrl>>
            /\ aborted \subseteq aborted' /\ ended \subseteq ended'
        BY <3>1 DEF ChatAbort, EndRegistered, runs
      <4>. QED
        BY <4>1, Closes DEF AgentRuns!RunsNext
    <3>. QED
      BY <2>3, <3>1, <1>1, <1>2, <1>7, <1>9 DEF Request
  <2>. QED
    BY <2>1, <2>2, <2>3, <1>10 DEF Next

\* Every request leads one run through one life, for any number of requests and
\* sessions: it begins under a live controller, asks for no approval once it
\* was told to stop, acts only when answered, and ends with its response.
THEOREM Implements == Spec => AgentRunsSpec
<1>1. Init => Lives /\ AgentRuns!RunsInit
  BY NoneAssumption, Stages DEF Init, Lives, AgentRuns!RunsInit, Aborted
<1>2. IInv /\ IInv' /\ Lives /\ [Next]_vars => Lives' /\ [AgentRuns!RunsNext]_(AgentRuns!runsVars)
  BY StepLives, StepRuns DEF IInv
<1>. QED
  BY Invariance, <1>1, <1>2, PTL DEF Spec, AgentRunsSpec, AgentRuns!RunsSpec

=============================================================================
