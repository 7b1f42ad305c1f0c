-------------------------- MODULE CodexBackendProofs --------------------------
(***************************************************************************)
(* Proofs about CodexBackend, for any calls, keys, processes and limits.   *)
(***************************************************************************)
EXTENDS CodexBackend, TLAPS

\* Who starts has a process to start.
LaunchKnown == \A t \in Threads : pc[t] \in Starting => launch[t] # None

TypeInv == TypeOK /\ LaunchKnown

\* At most one thread starts, stops or restarts codex.
Busy(t) == pc[t] \in Starting \cup {"dropping"}

Alone == \A t, u \in Threads : Busy(t) /\ Busy(u) => t = u

\* What a thread at work holds, and what it leaves in this.state.
Held(t) ==
  /\ launch[t] # None => launch[t] <= spawned /\ pc[t] \in Starting \cup {"hung"}
  /\ pc[t] \in {"killing", "closing", "proxying"} =>
       launch[t] \notin alive \cup watched \cup proxied /\ exit[launch[t]] = "no"
  /\ pc[t] = "killing" => on[t] = current
  /\ pc[t] = "cleaning" => on[t] = launch[t]
  /\ pc[t] \in {"killing", "closing"} => current # None /\ stopping
  /\ pc[t] \in {"closing", "dropping"} => current \notin alive \cup proxies
  /\ pc[t] \in {"proxying", "handshake", "cleaning"} => current = None

ThreadsHold == \A t \in Threads : Held(t)

\* A process goes through its life once; its handler runs when it has exited.
Lives ==
  /\ \A p \in Procs : p > spawned => p \notin alive \cup watched \cup proxied /\ exit[p] = "no"
  /\ \A p \in Procs : exit[p] # "no" => p \notin alive
  /\ \A p \in Procs : pc[p] # "idle" => exit[p] # "no"
  /\ proxies \subseteq proxied
  /\ current # None => current \in watched
  /\ watched \cap alive \subseteq {current}

OneAtATime == Alone /\ ThreadsHold /\ Lives /\ NoOrphan /\ ProxyOwned

\* The counter is back at zero once a start succeeded, and a stop under way is
\* somebody's.
Settled ==
  /\ current # None => restarts = 0 \/ \E t \in Threads : pc[t] = "dropping"
  /\ stopping => limit = 0 \/ \E t \in Threads : pc[t] \in {"killing", "closing"}

Noticed == CrashIsNoticed /\ Settled

-----------------------------------------------------------------------------
(* Types                                                                   *)

Places == {"idle", "dropping", "hung"} \cup Starting \cup Messaging

\* The thread that moves, and the others.
LEMMA AtStep ==
  ASSUME TypeOK, NEW t \in Threads, NEW where \in Places,
         NEW n \in Procs \cup {None}, NEW p \in Procs \cup {None}, At(t, where, n, p)
  PROVE  /\ pc' \in [Threads -> Places]
         /\ launch' \in [Threads -> Procs \cup {None}]
         /\ on' \in [Threads -> Procs \cup {None}]
         /\ pc'[t] = where /\ launch'[t] = n /\ on'[t] = p
         /\ \A u \in Threads \ {t} :
              pc'[u] = pc[u] /\ launch'[u] = launch[u] /\ on'[u] = on[u]
  BY DEF TypeOK, At, Places

\* Where a call goes that sends.
LEMMA SendStep ==
  ASSUME NEW c \in Calls, NEW p \in Procs, Send(c, p)
  PROVE  \E where \in {"opening", "turn", "lost", "hung"} : At(c, where, None, p)
  BY DEF Send

LEMMA Numbers ==
  /\ None \notin Procs
  /\ \A n \in Procs : n \in Nat /\ n >= 1 /\ n <= MaxProcs
  /\ \A n \in Nat : n < MaxProcs => n + 1 \in Procs
  /\ \A c \in Calls : c \in Threads /\ c \notin Procs
  /\ \A p \in Procs : p \in Threads
  BY ConstAssumption DEF Procs, Threads

\* The parts of the type that the moves of threads do not touch.
FieldsOK ==
  /\ limit \in Limits
  /\ available \in BOOLEAN
  /\ current \in Procs \cup {None}
  /\ restarts \in 0 .. limit
  /\ stopping \in BOOLEAN
  /\ spawned \in 0 .. MaxProcs
  /\ keyOf \in [Procs -> Keys \cup {None}]
  /\ alive \subseteq Procs
  /\ exit \in [Procs -> {"no", "zero", "code", "signal"}]
  /\ watched \subseteq Procs
  /\ proxied \subseteq Procs
  /\ proxies \subseteq Procs
  /\ threads \subseteq Procs
  /\ messages \subseteq Calls

FlowOK ==
  /\ pc \in [Threads -> Places]
  /\ launch \in [Threads -> Procs \cup {None}]
  /\ on \in [Threads -> Procs \cup {None}]

LEMMA InitType == Init => TypeOK
<1> SUFFICES ASSUME Init PROVE TypeOK
  OBVIOUS
<1>1. FlowOK
  BY DEF Init, FlowOK, Places
<1>2. restarts \in 0 .. limit /\ spawned \in 0 .. MaxProcs
  BY ConstAssumption DEF Init
<1>3. FieldsOK
  BY <1>2 DEF Init, FieldsOK
<1>. QED
  BY <1>1, <1>3 DEF TypeOK, FieldsOK, FlowOK, Places

\* A step that only moves t, to a place and with processes of the right kind.
LEMMA MoveType ==
  ASSUME TypeOK, NEW t \in Threads, NEW where \in Places,
         NEW n \in Procs \cup {None}, NEW p \in Procs \cup {None}, At(t, where, n, p)
  PROVE  FlowOK'
  BY AtStep DEF FlowOK

LEMMA FailedType ==
  ASSUME TypeOK, NEW t \in Threads, Failed(t)
  PROVE  FlowOK' /\ available' \in BOOLEAN
<1>1. "idle" \in Places
  BY DEF Places
<1>2. At(t, "idle", None, None) /\ available' = (available /\ t \notin Procs)
  BY DEF Failed, Done
<1>. QED
  BY <1>1, <1>2, MoveType DEF TypeOK

LEMMA CallType ==
  ASSUME TypeOK, NEW c \in Calls,
         \/ Message(c) \/ Switch(c) \/ Reply(c) \/ Abort(c)
  PROVE  TypeOK'
<1>. c \in Threads
  BY Numbers
<1>1. CASE ThreadStarted(c) \/ TurnAccepted(c) \/ RequestFails(c) \/ TurnEnds(c) \/ Abort(c)
  <2>1. \E where \in {"turn", "running", "idle"}, p \in Procs \cup {None} :
          At(c, where, None, p)
    BY <1>1 DEF ThreadStarted, TurnAccepted, RequestFails, TurnEnds, Abort, Done, TypeOK
  <2>2. FlowOK'
    BY <2>1, MoveType DEF Places, Messaging
  <2>3. threads' \subseteq Procs /\ UNCHANGED <<fields, procs, proxies, messages>>
    BY <1>1 DEF ThreadStarted, TurnAccepted, RequestFails, TurnEnds, Abort, TypeOK
  <2>4. FieldsOK'
    BY <2>3 DEF FieldsOK, TypeOK, fields, procs
  <2>. QED
    BY <2>2, <2>4 DEF TypeOK, FieldsOK, FlowOK, Places
<1>2. CASE Message(c) \/ Switch(c)
  <2>1. /\ UNCHANGED <<limit, current, restarts, alive, exit, watched, proxied, proxies, threads>>
        /\ available' \in BOOLEAN /\ messages' \subseteq Calls
    BY <1>2 DEF Message, Switch, TypeOK
  <2>2. CASE UNCHANGED <<stopping, spawned, keyOf>> /\ (\/ current # None /\ Send(c, current)
                                                        \/ Done(c))
    <3>1. \E where \in Places, p \in Procs \cup {None} : At(c, where, None, p)
      BY <2>2, SendStep DEF Done, Places, Messaging, TypeOK
    <3>2. FlowOK'
      BY <3>1, MoveType
    <3>3. FieldsOK'
      BY <2>1, <2>2 DEF FieldsOK, TypeOK
    <3>. QED
      BY <3>2, <3>3 DEF TypeOK, FieldsOK, FlowOK, Places
  <2>3. ASSUME NEW k \in Keys, StartFresh(c, k) \/ (current # None /\ StartStops(c, k))
        PROVE  TypeOK'
    <3>1. PICK where \in Places, p \in Procs \cup {None} : SetOut(c, k, where, p)
      BY <2>3 DEF StartFresh, StartStops, AfterKill, Places, Starting, TypeOK
    <3>2. spawned < MaxProcs /\ spawned' = spawned + 1 /\ spawned + 1 \in Procs
      BY <3>1, Numbers DEF SetOut, TypeOK
    <3>3. FlowOK'
      BY <3>1, <3>2, MoveType DEF SetOut
    <3>4. keyOf' \in [Procs -> Keys \cup {None}]
      BY <3>1 DEF SetOut, TypeOK
    <3>5. spawned' \in 0 .. MaxProcs
      BY <3>2 DEF Procs
    <3>6. stopping' \in BOOLEAN
      BY <2>3 DEF StartFresh, StartStops
    <3>7. FieldsOK'
      BY <2>1, <3>4, <3>5, <3>6 DEF FieldsOK, TypeOK
    <3>. QED
      BY <3>3, <3>7 DEF TypeOK, FieldsOK, FlowOK, Places
  <2>. QED
    BY <1>2, <2>2, <2>3 DEF Message, Switch
<1>. QED
  BY <1>1, <1>2 DEF Reply

LEMMA StartType ==
  ASSUME TypeInv, NEW t \in Threads, Start(t)
  PROVE  TypeOK'
<1>. DEFINE n == launch[t]
<1>0. TypeOK /\ n \in Procs \cup {None} /\ None \notin Procs
  BY Numbers DEF TypeInv, TypeOK
<1>1. CASE StopKilled(t)
  <2>1. FlowOK' /\ available' \in BOOLEAN
    BY <1>0, <1>1, FailedType, MoveType DEF StopKilled, Places, Starting, TypeOK
  <2>2. FieldsOK'
    BY <1>0, <1>1, <2>1 DEF StopKilled, FieldsOK, TypeOK, procs
  <2>. QED
    BY <2>1, <2>2 DEF TypeOK, FieldsOK, FlowOK, Places
<1>2. CASE StopClosed(t)
  <2>1. FlowOK' /\ available' \in BOOLEAN
    BY <1>0, <1>2, FailedType, MoveType DEF StopClosed, Places, Starting, TypeOK
  <2>2. FieldsOK'
    BY <1>0, <1>2, <2>1 DEF StopClosed, FieldsOK, TypeOK, procs
  <2>. QED
    BY <2>1, <2>2 DEF TypeOK, FieldsOK, FlowOK, Places
<1>3. CASE Spawn(t)
  <2>0. n \in Procs
    BY <1>0, <1>3 DEF Spawn, Starting, TypeInv, LaunchKnown
  <2>1. FlowOK'
    BY <1>0, <2>0, <1>3, MoveType DEF Spawn, Places, Starting
  <2>2. FieldsOK'
    BY <1>0, <2>0, <1>3 DEF Spawn, FieldsOK, TypeOK, fields
  <2>. QED
    BY <2>1, <2>2 DEF TypeOK, FieldsOK, FlowOK, Places
<1>4. CASE SpawnFails(t)
  <2>1. FlowOK' /\ available' \in BOOLEAN
    BY <1>0, <1>4, FailedType DEF SpawnFails
  <2>2. FieldsOK'
    BY <1>0, <1>4, <2>1 DEF SpawnFails, FieldsOK, TypeOK, procs
  <2>. QED
    BY <2>1, <2>2 DEF TypeOK, FieldsOK, FlowOK, Places
<1>5. CASE Initialized(t)
  <2>1. n \in Procs /\ (t \in messages => t \in Calls)
    BY <1>0, <1>5 DEF Initialized, TypeOK
  <2>2. \E where \in Places, p \in Procs \cup {None} : At(t, where, None, p)
    BY <1>0, <1>5, <2>1, SendStep DEF Initialized, Done, Places, Messaging
  <2>3. FlowOK'
    BY <1>0, <2>2, MoveType
  <2>4. restarts' \in 0 .. limit
    BY <1>0, <1>5, ConstAssumption DEF Initialized, RestartsAfterStart, TypeOK
  <2>5. FieldsOK'
    BY <1>0, <1>5, <2>1, <2>4 DEF Initialized, FieldsOK, TypeOK
  <2>. QED
    BY <2>3, <2>5 DEF TypeOK, FieldsOK, FlowOK, Places
<1>6. CASE InitializeFails(t)
  <2>1. AfterKill(n, "cleaning") \in Places
    BY DEF AfterKill, Places, Starting
  <2>2. FlowOK'
    BY <1>0, <1>6, <2>1, MoveType DEF InitializeFails
  <2>3. FieldsOK'
    BY <1>0, <1>6 DEF InitializeFails, FieldsOK, TypeOK, fields, procs
  <2>. QED
    BY <2>2, <2>3 DEF TypeOK, FieldsOK, FlowOK, Places
<1>7. CASE StartFails(t)
  <2>1. FlowOK' /\ available' \in BOOLEAN
    BY <1>0, <1>7, FailedType DEF StartFails
  <2>2. FieldsOK'
    BY <1>0, <1>7, <2>1 DEF StartFails, ProxiesLeft, FieldsOK, TypeOK, procs
  <2>. QED
    BY <2>1, <2>2 DEF TypeOK, FieldsOK, FlowOK, Places
<1>. QED
  BY <1>1, <1>2, <1>3, <1>4, <1>5, <1>6, <1>7 DEF Start

\* The handler of a process that exits.
LEMMA RelaunchType ==
  ASSUME TypeOK, NEW p \in Procs, Relaunch(p)
  PROVE  /\ FlowOK' /\ keyOf' \in [Procs -> Keys \cup {None}]
         /\ spawned' \in 0 .. MaxProcs /\ current' = None /\ available' = TRUE /\ stopping' = FALSE
<1>1. SetOut(p, keyOf[p], "proxying", None) /\ current' = None /\ available' = TRUE /\ stopping' = FALSE
  BY DEF Relaunch, StartFresh
<1>2. spawned < MaxProcs /\ spawned' = spawned + 1 /\ spawned + 1 \in Procs
  BY <1>1, Numbers DEF SetOut, TypeOK
<1>3. p \in Threads /\ "proxying" \in Places
  BY Numbers DEF Places, Starting
<1>4. FlowOK'
  BY <1>1, <1>2, <1>3, MoveType DEF SetOut
<1>5. keyOf' \in [Procs -> Keys \cup {None}]
  BY <1>1 DEF SetOut, TypeOK
<1>6. spawned' \in 0 .. MaxProcs
  BY <1>2 DEF Procs
<1>. QED
  BY <1>1, <1>4, <1>5, <1>6

LEMMA ExitType ==
  ASSUME TypeOK, NEW p \in Procs, NEW how \in {"zero", "code", "signal"},
         ExitIgnored(p, how) \/ ExitGivesUp(p, how) \/ ExitRestarts(p, how) \/ Dropped(p)
  PROVE  TypeOK'
<1>1. CASE ExitIgnored(p, how) \/ ExitGivesUp(p, how)
  <2>1. UNCHANGED <<limit, current, restarts, stopping, spawned, keyOf, watched,
                    proxied, proxies, threads, flow>>
        /\ available' \in BOOLEAN
    BY <1>1 DEF ExitIgnored, ExitGivesUp, fields, TypeOK
  <2>2. alive' \subseteq Procs /\ exit' \in [Procs -> {"no", "zero", "code", "signal"}]
    BY <1>1 DEF ExitIgnored, ExitGivesUp, Exit, TypeOK
  <2>. QED
    BY <2>1, <2>2 DEF TypeOK, flow
<1>2. CASE ExitRestarts(p, how)
  <2>1. UNCHANGED <<limit, watched, proxied, threads, messages>>
    BY <1>2 DEF ExitRestarts
  <2>2. alive' \subseteq Procs /\ exit' \in [Procs -> {"no", "zero", "code", "signal"}]
    BY <1>2 DEF ExitRestarts, Exit, TypeOK
  <2>3. restarts' \in 0 .. limit
    BY <1>2, ConstAssumption DEF ExitRestarts, MayRestart, TypeOK
  <2>4. CASE Relaunch(p) /\ UNCHANGED proxies
    <3>1. FieldsOK'
      BY <2>1, <2>2, <2>3, <2>4, RelaunchType DEF FieldsOK, TypeOK
    <3>. QED
      BY <2>4, <3>1, RelaunchType DEF TypeOK, FieldsOK, FlowOK, Places
  <2>5. CASE /\ proxies' = proxies \ {current}
             /\ At(p, "dropping", None, None)
             /\ UNCHANGED <<available, current, stopping, spawned, keyOf>>
    <3>1. p \in Threads /\ "dropping" \in Places
      BY Numbers DEF Places
    <3>2. FlowOK'
      BY <2>5, <3>1, MoveType
    <3>3. FieldsOK'
      BY <2>1, <2>2, <2>3, <2>5 DEF FieldsOK, TypeOK
    <3>. QED
      BY <3>2, <3>3 DEF TypeOK, FieldsOK, FlowOK, Places
  <2>. QED
    BY <1>2, <2>4, <2>5 DEF ExitRestarts
<1>3. CASE Dropped(p)
  <2>1. Relaunch(p) /\ UNCHANGED <<limit, restarts, alive, exit, watched, proxied,
                                   proxies, threads, messages>>
    BY <1>3 DEF Dropped
  <2>2. FieldsOK'
    BY <2>1, RelaunchType DEF FieldsOK, TypeOK
  <2>. QED
    BY <2>1, <2>2, RelaunchType DEF TypeOK, FieldsOK, FlowOK, Places
<1>. QED
  BY <1>1, <1>2, <1>3

LEMMA MoveLaunch ==
  ASSUME TypeInv, NEW t \in Threads, NEW where \in Places,
         NEW n \in Procs \cup {None}, NEW p \in Procs \cup {None}, At(t, where, n, p),
         where \in Starting => n # None
  PROVE  LaunchKnown'
BY AtStep DEF TypeInv, LaunchKnown

LEMMA StepType ==
  ASSUME TypeInv, [Next]_vars
  PROVE  TypeInv'
<1>. USE DEF TypeInv
<1>0. /\ None \notin Procs
      /\ spawned < MaxProcs => spawned + 1 \in Procs
      /\ \A t \in Threads : launch[t] \in Procs \cup {None} /\ on[t] \in Procs \cup {None}
      /\ current \in Procs \cup {None}
  BY Numbers DEF TypeOK
<1>1. ASSUME NEW c \in Calls, Message(c) \/ Switch(c) \/ Reply(c) \/ Abort(c)
      PROVE  TypeInv'
  <2>1. c \in Threads
    BY Numbers
  <2>2. \E where \in Places, n \in Procs \cup {None}, p \in Procs \cup {None} :
          At(c, where, n, p) /\ (where \in Starting => n # None)
    <3>1. CASE ThreadStarted(c) \/ TurnAccepted(c) \/ RequestFails(c) \/ TurnEnds(c) \/ Abort(c)
      <4>1. \E where \in {"turn", "running", "idle"}, p \in Procs \cup {None} :
              At(c, where, None, p)
        BY <1>0, <2>1, <3>1
        DEF ThreadStarted, TurnAccepted, RequestFails, TurnEnds, Abort, Done
      <4>. QED
        BY <4>1 DEF Places, Starting, Messaging
    <3>2. ASSUME NEW k \in Keys, StartFresh(c, k) \/ StartStops(c, k)
          PROVE  \E where \in Places, n \in Procs, p \in Procs \cup {None} : At(c, where, n, p)
      BY <1>0, <3>2 DEF StartFresh, StartStops, SetOut, AfterKill, Places, Starting
    <3>3. CASE current # None /\ Send(c, current)
      BY <1>0, <3>3, SendStep DEF Places, Starting, Messaging
    <3>4. CASE Done(c)
      BY <3>4 DEF Done, Places, Starting
    <3>5. \A n \in Procs : n # None
      BY <1>0
    <3>. QED
      BY <1>1, <3>1, <3>2, <3>3, <3>4, <3>5 DEF Message, Switch, Reply
  <2>. QED
    BY <1>1, <2>1, <2>2, CallType, MoveLaunch
<1>2. ASSUME NEW t \in Threads, Start(t)
      PROVE  TypeInv'
  <2>1. pc[t] \in Starting => launch[t] # None
    BY DEF LaunchKnown
  <2>2. \E where \in Places, n \in Procs \cup {None}, p \in Procs \cup {None} :
          At(t, where, n, p) /\ (where \in Starting => n # None)
    <3>1. CASE StopKilled(t) \/ StopClosed(t) \/ SpawnFails(t) \/ StartFails(t)
      BY <1>0, <2>1, <3>1
      DEF StopKilled, StopClosed, SpawnFails, StartFails, Failed, Done, Places, Starting
    <3>2. CASE Spawn(t) \/ InitializeFails(t)
      BY <1>0, <2>1, <3>2 DEF Spawn, InitializeFails, AfterKill, Places, Starting
    <3>3. CASE Initialized(t)
      <4>1. launch[t] \in Procs /\ (t \in messages => t \in Calls)
        BY <3>3 DEF Initialized, TypeOK
      <4>. QED
        BY <3>3, <4>1, SendStep DEF Initialized, Done, Places, Starting, Messaging
    <3>. QED
      BY <1>2, <3>1, <3>2, <3>3 DEF Start
  <2>. QED
    BY <1>2, <2>2, StartType, MoveLaunch
<1>3. ASSUME NEW p \in Procs, NEW how \in {"zero", "code", "signal"},
             ExitIgnored(p, how) \/ ExitGivesUp(p, how) \/ ExitRestarts(p, how) \/ Dropped(p)
      PROVE  TypeInv'
  <2>1. CASE UNCHANGED flow
    BY <1>3, <2>1, ExitType DEF LaunchKnown, flow
  <2>2. CASE At(p, "dropping", None, None) \/ Relaunch(p)
    <3>1. \E where \in Places, n \in Procs \cup {None} :
            At(p, where, n, None) /\ (where \in Starting => n # None)
      BY <1>0, <2>2 DEF Relaunch, StartFresh, SetOut, Places, Starting
    <3>2. p \in Threads
      BY Numbers
    <3>. QED
      BY <1>3, <3>1, <3>2, ExitType, MoveLaunch
  <2>. QED
    BY <1>3, <2>1, <2>2 DEF ExitIgnored, ExitGivesUp, ExitRestarts, Dropped
<1>4. CASE UNCHANGED vars
  BY <1>4 DEF vars, fields, procs, flow, TypeOK, LaunchKnown
<1>. QED
  BY <1>1, <1>2, <1>3, <1>4 DEF Next

\* The variables keep their types, whether starts overlap or not; the restart
\* counter does not pass its limit.
THEOREM TypeCorrect == Spec => []TypeOK
<1>1. Init => TypeInv
  BY InitType DEF TypeInv, Init, LaunchKnown, Starting
<1>. QED
  BY <1>1, StepType, PTL DEF Spec, TypeInv

-----------------------------------------------------------------------------
(* One start at a time, under ~Overlap                                     *)

\* What the lemmas below know of the constants and the types.
LEMMA Kinds ==
  ASSUME TypeOK
  PROVE  /\ None \notin Procs
         /\ current \in Procs \cup {None} /\ spawned \in Nat
         /\ \A n \in Procs : n \in Nat
         /\ \A t \in Threads : launch[t] \in Procs \cup {None} /\ on[t] \in Procs \cup {None}
         /\ alive \subseteq Procs /\ watched \subseteq Procs
         /\ proxied \subseteq Procs /\ proxies \subseteq Procs
  BY Numbers DEF TypeOK

\* A thread that holds nothing moves among places where it holds nothing.
LEMMA QuietMove ==
  ASSUME TypeOK, OneAtATime, NEW c \in Calls,
         NEW where \in {"idle", "hung"} \cup Messaging, NEW p \in Procs \cup {None},
         pc[c] \in {"idle"} \cup Messaging, At(c, where, None, p),
         UNCHANGED <<current, stopping, spawned, alive, exit, watched, proxied, proxies>>
  PROVE  OneAtATime'
<1>. USE Kinds DEF OneAtATime
<1>1. c \in Threads /\ c \notin Procs
  BY Numbers
<1>2. where \in Places /\ where \notin Starting \cup {"dropping"} /\ None \in Procs \cup {None}
  BY DEF Places, Starting, Messaging
<1>3. /\ pc'[c] = where /\ launch'[c] = None
      /\ \A u \in Threads \ {c} :
           pc'[u] = pc[u] /\ launch'[u] = launch[u] /\ on'[u] = on[u]
  BY <1>1, <1>2, AtStep
<1>4. launch[c] = None
  BY <1>1 DEF ThreadsHold, Held, Starting, Messaging
<1>5. Alone'
  BY <1>2, <1>3 DEF Alone, Busy
<1>6. ThreadsHold'
  <2>1. Held(c)'
    BY <1>2, <1>3 DEF Held, Starting
  <2>2. \A u \in Threads \ {c} : Held(u)'
    BY <1>3 DEF ThreadsHold, Held
  <2>. QED
    BY <2>1, <2>2 DEF ThreadsHold
<1>7. Lives'
  BY <1>1, <1>3, Numbers DEF Lives
<1>8. NoOrphan' /\ ProxyOwned'
  BY <1>1, <1>3, <1>4 DEF NoOrphan, ProxyOwned
<1>. QED
  BY <1>5, <1>6, <1>7, <1>8

\* A process is set out for when no other thread is busy, and what leaves
\* this.state has ended.
LEMMA SetOutStep ==
  ASSUME TypeOK, OneAtATime, NEW t \in Threads, NEW k, NEW where \in {"proxying", "killing", "hung"},
         NEW q \in Procs \cup {None}, SetOut(t, k, where, q),
         launch[t] = None, \A u \in Threads \ {t} : ~Busy(u),
         alive' \subseteq alive,
         \A p \in Procs : (exit'[p] = exit[p] \/ p \in alive) /\ (exit'[p] # "no" => p \notin alive'),
         t \in Procs => exit'[t] # "no",
         UNCHANGED <<watched, proxied, proxies>>,
         current' = current \/ (current' = None /\ current \notin alive' \cup proxies),
         where = "proxying" => current' = None,
         where = "killing" => current' = q /\ q # None /\ stopping'
  PROVE  OneAtATime'
<1>. USE Kinds DEF OneAtATime
<1>. DEFINE n == spawned + 1
<1>1. n \in Procs /\ n \in Nat /\ n > spawned /\ spawned' = n
  BY Numbers DEF SetOut, TypeOK
<1>2. where \in Places
  BY DEF Places, Starting
<1>3. /\ pc'[t] = where /\ launch'[t] = n /\ on'[t] = q
      /\ \A u \in Threads \ {t} :
           pc'[u] = pc[u] /\ launch'[u] = launch[u] /\ on'[u] = on[u]
  BY <1>1, <1>2, AtStep DEF SetOut
<1>4. n \notin alive \cup watched \cup proxied /\ exit[n] = "no" /\ exit'[n] = "no"
  BY <1>1 DEF Lives
<1>5. Alone'
  BY <1>3 DEF Alone, Busy
<1>6. ThreadsHold'
  <2>1. Held(t)'
    BY <1>1, <1>3, <1>4 DEF Held, Starting
  <2>2. ASSUME NEW u \in Threads \ {t} PROVE Held(u)'
    <3>1. pc[u] \notin Starting \cup {"dropping"} /\ Held(u)
      BY DEF Busy, ThreadsHold
    <3>. QED
      BY <1>1, <1>3, <3>1 DEF Held, Starting
  <2>. QED
    BY <2>1, <2>2 DEF ThreadsHold
<1>7. Lives'
  <2>1. \A p \in Procs : p > n => p \notin alive' \cup watched' \cup proxied' /\ exit'[p] = "no"
    BY <1>1 DEF Lives
  <2>2. \A p \in Procs : pc'[p] # "idle" => exit'[p] # "no"
    BY <1>3, Numbers DEF Lives
  <2>3. current' # None => current' \in watched'
    BY DEF Lives
  <2>4. watched' \cap alive' \subseteq {current'}
    BY DEF Lives
  <2>. QED
    BY <1>1, <2>1, <2>2, <2>3, <2>4 DEF Lives
<1>8. NoOrphan'
  BY <1>3 DEF NoOrphan
<1>9. ProxyOwned'
  <2>1. \A p \in proxies : p = current \/ \E u \in Threads : launch[u] = p
    BY DEF ProxyOwned
  <2>2. \A p \in proxies' : p = current' \/ \E u \in Threads : launch'[u] = p
    BY <1>3, <2>1
  <2>. QED
    BY <2>2 DEF ProxyOwned
<1>. QED
  BY <1>5, <1>6, <1>7, <1>8, <1>9

\* A call while nothing is under way.
LEMMA CallStep ==
  ASSUME TypeOK, OneAtATime, ~Overlap, NEW c \in Calls,
         \/ Message(c) \/ Switch(c) \/ Reply(c) \/ Abort(c)
  PROVE  OneAtATime'
<1>0. c \in Threads /\ c \notin Procs
  BY Numbers
<1>1. CASE ThreadStarted(c) \/ TurnAccepted(c) \/ RequestFails(c) \/ TurnEnds(c) \/ Abort(c)
  <2>1. \E where \in {"turn", "running", "idle"}, p \in Procs \cup {None} :
          At(c, where, None, p)
    BY <1>0, <1>1, Kinds DEF ThreadStarted, TurnAccepted, RequestFails, TurnEnds, Abort, Done
  <2>2. pc[c] \in Messaging
    BY <1>1 DEF ThreadStarted, TurnAccepted, RequestFails, TurnEnds, Abort, Messaging
  <2>3. UNCHANGED <<current, stopping, spawned, alive, exit, watched, proxied, proxies>>
    BY <1>1 DEF ThreadStarted, TurnAccepted, RequestFails, TurnEnds, Abort, fields, procs
  <2>. QED
    BY <2>1, <2>2, <2>3, QuietMove DEF Messaging
<1>2. CASE Message(c) \/ Switch(c)
  <2>1. /\ pc[c] = "idle" /\ Quiet
        /\ UNCHANGED <<current, alive, exit, watched, proxied, proxies>>
    BY <1>2 DEF Message, Switch
  <2>2. launch[c] = None
    BY <1>0, <2>1 DEF OneAtATime, ThreadsHold, Held, Starting
  <2>3. \A u \in Threads : ~Busy(u)
    BY <2>1 DEF Quiet, Busy
  <2>4. \A p \in Procs : (exit'[p] = exit[p] \/ p \in alive) /\ (exit'[p] # "no" => p \notin alive')
    BY <2>1 DEF OneAtATime, Lives
  <2>5. CASE UNCHANGED <<stopping, spawned, keyOf>> /\ (\/ current # None /\ Send(c, current)
                                                        \/ Done(c))
    <3>1. \E where \in {"idle", "hung"} \cup Messaging, p \in Procs \cup {None} :
            At(c, where, None, p)
      BY <2>5, SendStep, Kinds DEF Done, Messaging
    <3>. QED
      BY <2>1, <2>5, <3>1, QuietMove
  <2>6. ASSUME NEW k \in Keys, current = None, StartFresh(c, k)
        PROVE  OneAtATime'
    <3>1. SetOut(c, k, "proxying", None)
      BY <2>6 DEF StartFresh
    <3>. QED
      BY <1>0, <2>1, <2>2, <2>3, <2>4, <2>6, <3>1, SetOutStep
  <2>7. ASSUME NEW k \in Keys, current # None, StartStops(c, k)
        PROVE  OneAtATime'
    <3>1. \E where \in {"killing", "hung"} : SetOut(c, k, where, current)
      BY <2>7 DEF StartStops, AfterKill
    <3>2. stopping' /\ current \in Procs
      BY <2>7, Kinds DEF StartStops
    <3>. QED
      BY <1>0, <2>1, <2>2, <2>3, <2>4, <2>7, <3>1, <3>2, SetOutStep
  <2>. QED
    BY <1>2, <2>5, <2>6, <2>7 DEF Message, Switch
<1>. QED
  BY <1>1, <1>2 DEF Reply

\* While a thread is busy the others hold at most a process that never started.
LEMMA BusyMove ==
  ASSUME TypeOK, OneAtATime, NEW t \in Threads, Busy(t), NEW where \in Places,
         NEW n \in Procs \cup {None}, NEW p \in Procs \cup {None}, At(t, where, n, p),
         spawned' = spawned
  PROVE  /\ pc'[t] = where /\ launch'[t] = n /\ on'[t] = p
         /\ \A u \in Threads \ {t} :
              pc'[u] = pc[u] /\ launch'[u] = launch[u] /\ on'[u] = on[u]
         /\ Alone'
         /\ Held(t)' => ThreadsHold'
<1>. USE DEF OneAtATime
<1>1. /\ pc'[t] = where /\ launch'[t] = n /\ on'[t] = p
      /\ \A u \in Threads \ {t} :
           pc'[u] = pc[u] /\ launch'[u] = launch[u] /\ on'[u] = on[u]
  BY AtStep
<1>2. \A u \in Threads \ {t} : ~Busy(u)
  BY DEF Alone
<1>3. Alone'
  BY <1>1, <1>2 DEF Alone, Busy
<1>4. ASSUME NEW u \in Threads \ {t} PROVE Held(u)'
  <2>1. pc[u] \notin Starting \cup {"dropping"} /\ Held(u)
    BY <1>2 DEF Busy, ThreadsHold
  <2>. QED
    BY <1>1, <2>1 DEF Held, Starting
<1>. QED
  BY <1>1, <1>3, <1>4 DEF ThreadsHold

\* start() gives up: what it held neither runs nor has a proxy.
LEMMA FailedStep ==
  ASSUME TypeOK, OneAtATime, NEW t \in Threads, Busy(t), Failed(t),
         launch[t] \notin alive \cup proxies',
         proxies' \subseteq proxies, \A p \in proxies \ proxies' : p = launch[t],
         UNCHANGED <<current, stopping, spawned, alive, exit, watched, proxied>>
  PROVE  OneAtATime'
<1>. USE Kinds DEF OneAtATime
<1>1. At(t, "idle", None, None) /\ "idle" \in Places
  BY DEF Failed, Done, Places
<1>2. /\ pc'[t] = "idle" /\ launch'[t] = None
      /\ \A u \in Threads \ {t} : pc'[u] = pc[u] /\ launch'[u] = launch[u]
      /\ Alone' /\ (Held(t)' => ThreadsHold')
  BY <1>1, BusyMove
<1>3. ThreadsHold'
  BY <1>2 DEF Held, Starting
<1>4. Lives'
  BY <1>2, Numbers DEF Lives
<1>5. NoOrphan'
  BY <1>2 DEF NoOrphan
<1>6. \A p \in proxies' : p = current' \/ \E u \in Threads : launch'[u] = p
  BY <1>2 DEF ProxyOwned
<1>. QED
  BY <1>2, <1>3, <1>4, <1>5, <1>6 DEF ProxyOwned

LEMMA StartStep ==
  ASSUME TypeInv, OneAtATime, NEW t \in Threads, Start(t)
  PROVE  OneAtATime'
<1>. USE Kinds DEF OneAtATime, TypeInv
<1>. DEFINE n == launch[t]
<1>0. /\ pc[t] \in Starting => n \in Procs /\ n # None
      /\ pc[t] \in Starting => Busy(t)
      /\ Held(t)
  BY DEF LaunchKnown, ThreadsHold, Busy
<1>1. CASE StopKilled(t)
  <2>1. /\ n \in Procs /\ n # None /\ Busy(t)
        /\ n \notin alive \cup watched \cup proxied /\ exit[n] = "no"
        /\ current # None /\ current \notin alive /\ stopping
        /\ UNCHANGED <<spawned, alive, exit, watched, proxied>>
    BY <1>0, <1>1 DEF StopKilled, KillSettled, Held, Starting, procs
  <2>2. n <= spawned
    BY <1>0, <2>1 DEF Held
  <2>3. CASE /\ proxies' = proxies \ {current}
             /\ At(t, "closing", n, None)
             /\ UNCHANGED <<current, stopping>>
    <3>1. "closing" \in Places
      BY DEF Places, Starting
    <3>2. /\ pc'[t] = "closing" /\ launch'[t] = n
          /\ \A u \in Threads \ {t} : pc'[u] = pc[u] /\ launch'[u] = launch[u]
          /\ Alone' /\ (Held(t)' => ThreadsHold')
      BY <2>1, <2>3, <3>1, BusyMove
    <3>3. ThreadsHold'
      BY <2>1, <2>2, <2>3, <3>2 DEF Held, Starting
    <3>4. Lives'
      BY <2>1, <2>3, <3>2, <1>1, Numbers DEF Lives, StopKilled
    <3>5. NoOrphan'
      BY <2>1, <2>3, <3>2 DEF NoOrphan
    <3>6. \A p \in proxies' : p = current' \/ \E u \in Threads : launch'[u] = p
      BY <2>3, <3>2 DEF ProxyOwned
    <3>. QED
      BY <3>2, <3>3, <3>4, <3>5, <3>6 DEF ProxyOwned
  <2>4. CASE /\ current \in Procs \ proxied
             /\ current' = None /\ At(t, "proxying", n, None)
             /\ proxies' = proxies
    <3>1. "proxying" \in Places
      BY DEF Places, Starting
    <3>2. /\ pc'[t] = "proxying" /\ launch'[t] = n
          /\ \A u \in Threads \ {t} : pc'[u] = pc[u] /\ launch'[u] = launch[u]
          /\ Alone' /\ (Held(t)' => ThreadsHold')
      BY <2>1, <2>4, <3>1, BusyMove
    <3>3. ThreadsHold'
      BY <2>1, <2>2, <2>4, <3>2 DEF Held, Starting
    <3>4. Lives'
      BY <2>1, <2>4, <3>2, <1>1, Numbers DEF Lives, StopKilled
    <3>5. NoOrphan'
      BY <2>1, <2>4, <3>2 DEF NoOrphan
    <3>6. \A p \in proxies' : \E u \in Threads : launch'[u] = p
      BY <2>4, <3>2 DEF ProxyOwned, Lives
    <3>. QED
      BY <3>2, <3>3, <3>4, <3>5, <3>6 DEF ProxyOwned
  <2>. QED
    BY <1>1, <2>1, <2>3, <2>4 DEF StopKilled
<1>2. CASE StopClosed(t)
  <2>1. /\ n \in Procs /\ n # None /\ Busy(t) /\ n <= spawned
        /\ n \notin alive \cup watched \cup proxied /\ exit[n] = "no"
        /\ current # None /\ current \notin alive \cup proxies
        /\ UNCHANGED <<spawned, alive, exit, watched, proxied, proxies>>
    BY <1>0, <1>2 DEF StopClosed, Held, Starting, procs
  <2>2. current' = None /\ At(t, "proxying", n, None) /\ "proxying" \in Places
    BY <1>2, <2>1 DEF StopClosed, Places, Starting
  <2>3. /\ pc'[t] = "proxying" /\ launch'[t] = n
        /\ \A u \in Threads \ {t} : pc'[u] = pc[u] /\ launch'[u] = launch[u]
        /\ Alone' /\ (Held(t)' => ThreadsHold')
    BY <2>1, <2>2, BusyMove
  <2>4. ThreadsHold'
    BY <2>1, <2>2, <2>3 DEF Held, Starting
  <2>5. Lives'
    BY <2>1, <2>2, <2>3, <1>2, Numbers DEF Lives, StopClosed
  <2>6. NoOrphan'
    BY <2>1, <2>2, <2>3 DEF NoOrphan
  <2>7. \A p \in proxies' : \E u \in Threads : launch'[u] = p
    BY <2>1, <2>3 DEF ProxyOwned
  <2>. QED
    BY <2>3, <2>4, <2>5, <2>6, <2>7 DEF ProxyOwned
<1>3. CASE Spawn(t)
  <2>1. /\ n \in Procs /\ n # None /\ Busy(t) /\ n <= spawned
        /\ n \notin alive \cup watched \cup proxied /\ exit[n] = "no" /\ current = None
        /\ UNCHANGED <<current, stopping, spawned, exit, watched>>
        /\ alive' = alive \cup {n}
        /\ At(t, "handshake", n, n)
    BY <1>0, <1>3 DEF Spawn, Held, Starting, fields
  <2>2. \/ proxied' = proxied \cup {n} /\ proxies' = proxies \cup {n}
        \/ proxied' = proxied /\ proxies' = proxies
    BY <1>3 DEF Spawn
  <2>3. "handshake" \in Places
    BY DEF Places, Starting
  <2>4. /\ pc'[t] = "handshake" /\ launch'[t] = n
        /\ \A u \in Threads \ {t} : pc'[u] = pc[u] /\ launch'[u] = launch[u]
        /\ Alone' /\ (Held(t)' => ThreadsHold')
    BY <2>1, <2>3, BusyMove
  <2>5. ThreadsHold'
    BY <2>1, <2>4 DEF Held, Starting
  <2>6. Lives'
    BY <2>1, <2>2, <2>4, <1>3, Numbers DEF Lives, Spawn
  <2>7. NoOrphan'
    BY <2>1, <2>4 DEF NoOrphan
  <2>8. \A p \in proxies' : p = current' \/ \E u \in Threads : launch'[u] = p
    BY <2>1, <2>2, <2>4 DEF ProxyOwned
  <2>. QED
    BY <2>4, <2>5, <2>6, <2>7, <2>8 DEF ProxyOwned
<1>4. CASE SpawnFails(t)
  <2>1. n \notin alive \cup proxied /\ Busy(t)
    BY <1>0, <1>4 DEF SpawnFails, Held, Starting
  <2>2. n \notin proxies
    BY <2>1 DEF Lives
  <2>. QED
    BY <1>4, <2>1, <2>2, FailedStep DEF SpawnFails, procs
<1>5. CASE Initialized(t)
  <2>1. /\ n \in Procs /\ n # None /\ Busy(t) /\ n <= spawned /\ n \in alive
        /\ current = None /\ current' = n /\ watched' = watched \cup {n}
        /\ UNCHANGED <<stopping, spawned, alive, exit, proxied, proxies>>
        /\ (t \in messages => t \in Calls)
    BY <1>0, <1>5 DEF Initialized, Held, Starting, TypeOK
  <2>2. PICK where \in {"idle", "opening", "turn", "lost", "hung"}, q \in Procs \cup {None} :
          At(t, where, None, q)
    BY <1>5, <2>1, SendStep DEF Initialized, Done
  <2>3. where \in Places
    BY DEF Places, Messaging
  <2>4. /\ pc'[t] = where /\ launch'[t] = None
        /\ \A u \in Threads \ {t} : pc'[u] = pc[u] /\ launch'[u] = launch[u]
        /\ Alone' /\ (Held(t)' => ThreadsHold')
    BY <2>1, <2>2, <2>3, BusyMove
  <2>5. ThreadsHold'
    BY <2>1, <2>4 DEF Held, Starting
  <2>6. /\ \A p \in Procs : p > spawned => p \notin watched'
        /\ watched' \cap alive \subseteq {n}
    BY <2>1 DEF Lives
  <2>7. \A p \in Procs : pc'[p] # "idle" => exit'[p] # "no"
    <3>1. ASSUME t \in Procs PROVE where = "idle"
      <4>1. t \notin messages
        BY <3>1, Numbers, <2>1
      <4>2. At(t, "idle", None, None) /\ "idle" \in Places
        BY <1>5, <4>1 DEF Initialized, Done, Places
      <4>. QED
        BY <4>2, <2>4, AtStep
    <3>. QED
      BY <2>1, <2>4, <3>1, Numbers DEF Lives
  <2>8. Lives'
    BY <2>1, <2>6, <2>7 DEF Lives
  <2>9. NoOrphan'
    BY <2>1, <2>4 DEF NoOrphan
  <2>10. \A p \in proxies' : p = current' \/ \E u \in Threads : launch'[u] = p
    BY <2>1, <2>4 DEF ProxyOwned
  <2>. QED
    BY <2>4, <2>5, <2>8, <2>9, <2>10 DEF ProxyOwned
<1>6. CASE InitializeFails(t)
  <2>1. /\ n \in Procs /\ n # None /\ Busy(t) /\ n <= spawned /\ current = None
        /\ UNCHANGED <<current, stopping, spawned, alive, exit, watched, proxied, proxies>>
    BY <1>0, <1>6 DEF InitializeFails, Held, Starting, fields, procs
  <2>2. PICK where \in {"hung", "cleaning"} : At(t, where, n, n)
    BY <1>6 DEF InitializeFails, AfterKill
  <2>3. where \in Places
    BY DEF Places, Starting
  <2>4. /\ pc'[t] = where /\ launch'[t] = n /\ on'[t] = n
        /\ \A u \in Threads \ {t} : pc'[u] = pc[u] /\ launch'[u] = launch[u]
        /\ Alone' /\ (Held(t)' => ThreadsHold')
    BY <2>1, <2>2, <2>3, BusyMove
  <2>5. ThreadsHold'
    BY <2>1, <2>4 DEF Held, Starting
  <2>6. \A p \in Procs : pc'[p] # "idle" => exit'[p] # "no"
    BY <2>1, <2>4, <1>6, Numbers DEF Lives, InitializeFails
  <2>7. Lives'
    BY <2>1, <2>6 DEF Lives
  <2>8. NoOrphan'
    BY <2>1, <2>4 DEF NoOrphan
  <2>9. \A p \in proxies' : p = current' \/ \E u \in Threads : launch'[u] = p
    BY <2>1, <2>4 DEF ProxyOwned
  <2>. QED
    BY <2>4, <2>5, <2>7, <2>8, <2>9 DEF ProxyOwned
<1>7. CASE StartFails(t)
  <2>1. n \notin alive /\ Busy(t)
    BY <1>0, <1>7 DEF StartFails, KillSettled, Held, Starting
  <2>. QED
    BY <1>7, <2>1, FailedStep DEF StartFails, ProxiesLeft, procs
<1>. QED
  BY <1>1, <1>2, <1>3, <1>4, <1>5, <1>6, <1>7 DEF Start

\* What an exit does to the process.
LEMMA ExitStep ==
  ASSUME TypeOK, OneAtATime, NEW p \in Procs, NEW how \in {"zero", "code", "signal"}, Exit(p, how)
  PROVE  /\ p \in alive /\ alive' = alive \ {p} /\ p <= spawned
         /\ exit' \in [Procs -> {"no", "zero", "code", "signal"}]
         /\ exit'[p] = how /\ \A q \in Procs : q # p => exit'[q] = exit[q]
         /\ exit[p] = "no" /\ pc[p] = "idle" /\ launch[p] = None
         /\ \A q \in Procs : (exit'[q] = exit[q] \/ q \in alive) /\ (exit'[q] # "no" => q \notin alive')
<1>1. /\ p \in alive /\ alive' = alive \ {p}
      /\ exit' \in [Procs -> {"no", "zero", "code", "signal"}]
      /\ exit'[p] = how /\ \A q \in Procs : q # p => exit'[q] = exit[q]
  BY DEF Exit, TypeOK
<1>2. p <= spawned /\ exit[p] = "no" /\ pc[p] = "idle"
  BY <1>1, Kinds, Numbers DEF OneAtATime, Lives
<1>3. launch[p] = None
  BY <1>2, Numbers DEF OneAtATime, ThreadsHold, Held, Starting
<1>. QED
  BY <1>1, <1>2, <1>3 DEF OneAtATime, Lives

\* When a handler acts on a crash, the process is the one in this.state and
\* nobody is busy.
LEMMA CrashAlone ==
  ASSUME TypeOK, OneAtATime, NEW p \in Procs, NEW how \in {"zero", "code", "signal"},
         p \in alive, Crashed(p, how)
  PROVE  p = current /\ \A t \in Threads : ~Busy(t)
<1>1. p = current /\ p # None /\ ~stopping
  BY Kinds DEF Crashed, OneAtATime, Lives
<1>2. ASSUME NEW t \in Threads, Busy(t) PROVE FALSE
  <2>1. Held(t)
    BY DEF OneAtATime, ThreadsHold
  <2>. QED
    BY <1>1, <1>2, <2>1 DEF Held, Busy, Starting
<1>. QED
  BY <1>1, <1>2

LEMMA ExitInv ==
  ASSUME TypeInv, OneAtATime, NEW p \in Procs, NEW how \in {"zero", "code", "signal"},
         ExitIgnored(p, how) \/ ExitGivesUp(p, how) \/ ExitRestarts(p, how) \/ Dropped(p)
  PROVE  OneAtATime'
<1>. USE Kinds DEF TypeInv
<1>0. p \in Threads
  BY Numbers
<1>1. CASE ExitIgnored(p, how) \/ ExitGivesUp(p, how)
  <2>1. UNCHANGED <<current, stopping, spawned, watched, proxied, proxies, pc, launch, on>>
        /\ Exit(p, how)
    BY <1>1 DEF ExitIgnored, ExitGivesUp, fields, flow
  <2>2. /\ p \in alive /\ alive' = alive \ {p} /\ p <= spawned
        /\ exit' \in [Procs -> {"no", "zero", "code", "signal"}]
        /\ \A q \in Procs : q # p => exit'[q] = exit[q]
        /\ \A q \in Procs : (exit'[q] = exit[q] \/ q \in alive) /\ (exit'[q] # "no" => q \notin alive')
    BY <2>1, ExitStep
  <2>3. Alone'
    BY <2>1 DEF OneAtATime, Alone, Busy
  <2>4. ThreadsHold'
    <3> SUFFICES ASSUME NEW t \in Threads PROVE Held(t)'
      BY DEF ThreadsHold
    <3>1. Held(t)
      BY DEF OneAtATime, ThreadsHold
    <3>2. pc[t] \in {"killing", "closing", "proxying"} => launch[t] \in Procs
      BY DEF LaunchKnown, Starting
    <3>3. pc[t] \in {"killing", "closing", "proxying"} =>
            launch[t] \notin alive' \cup watched' \cup proxied' /\ exit'[launch[t]] = "no"
      BY <2>1, <2>2, <3>1, <3>2 DEF Held
    <3>. QED
      BY <2>1, <2>2, <3>1, <3>3 DEF Held
  <2>5. Lives'
    BY <2>1, <2>2, Numbers DEF OneAtATime, Lives
  <2>6. NoOrphan' /\ ProxyOwned'
    BY <2>1, <2>2 DEF OneAtATime, NoOrphan, ProxyOwned
  <2>. QED
    BY <2>3, <2>4, <2>5, <2>6 DEF OneAtATime
<1>2. CASE ExitRestarts(p, how)
  <2>1. /\ p \in alive /\ alive' = alive \ {p} /\ p <= spawned
        /\ exit'[p] = how /\ \A q \in Procs : q # p => exit'[q] = exit[q]
        /\ exit[p] = "no" /\ launch[p] = None
        /\ \A q \in Procs : (exit'[q] = exit[q] \/ q \in alive) /\ (exit'[q] # "no" => q \notin alive')
    BY <1>2, ExitStep DEF ExitRestarts
  <2>2. /\ p = current /\ current # None /\ \A t \in Threads : ~Busy(t)
        /\ UNCHANGED <<watched, proxied>>
    BY <1>2, <2>1, CrashAlone DEF ExitRestarts
  <2>3. CASE current \notin proxied /\ Relaunch(p) /\ UNCHANGED proxies
    <3>1. SetOut(p, keyOf[p], "proxying", None) /\ current' = None
      BY <2>3 DEF Relaunch, StartFresh
    <3>2. current \notin alive' \cup proxies
      BY <2>1, <2>2, <2>3 DEF OneAtATime, Lives
    <3>. QED
      BY <1>0, <2>1, <2>2, <2>3, <3>1, <3>2, SetOutStep
  <2>4. CASE /\ proxies' = proxies \ {current}
             /\ At(p, "dropping", None, None)
             /\ UNCHANGED <<current, stopping, spawned>>
    <3>1. /\ pc'[p] = "dropping" /\ launch'[p] = None
          /\ \A u \in Threads \ {p} :
               pc'[u] = pc[u] /\ launch'[u] = launch[u] /\ on'[u] = on[u]
      <4>1. "dropping" \in Places
        BY DEF Places
      <4>. QED
        BY <1>0, <2>4, <4>1, AtStep
    <3>2. Alone'
      BY <2>2, <3>1 DEF Alone, Busy
    <3>3. ThreadsHold'
      <4>1. Held(p)'
        BY <2>1, <2>2, <2>4, <3>1 DEF Held, Starting
      <4>2. ASSUME NEW u \in Threads \ {p} PROVE Held(u)'
        <5>1. pc[u] \notin Starting \cup {"dropping"} /\ Held(u)
          BY <2>2 DEF Busy, OneAtATime, ThreadsHold
        <5>. QED
          BY <2>4, <3>1, <5>1 DEF Held, Starting
      <4>. QED
        BY <4>1, <4>2 DEF ThreadsHold
    <3>4. Lives'
      BY <2>1, <2>2, <2>4, <3>1, Numbers DEF OneAtATime, Lives
    <3>5. NoOrphan'
      BY <2>1, <2>4, <3>1 DEF OneAtATime, NoOrphan
    <3>6. \A q \in proxies' : q = current' \/ \E u \in Threads : launch'[u] = q
      BY <2>1, <2>4, <3>1 DEF OneAtATime, ProxyOwned
    <3>. QED
      BY <3>2, <3>3, <3>4, <3>5, <3>6 DEF OneAtATime, ProxyOwned
  <2>. QED
    BY <1>2, <2>3, <2>4 DEF ExitRestarts
<1>3. CASE Dropped(p)
  <2>1. /\ SetOut(p, keyOf[p], "proxying", None) /\ current' = None
        /\ UNCHANGED <<alive, exit, watched, proxied, proxies>>
        /\ Busy(p) /\ pc[p] = "dropping"
    BY <1>3 DEF Dropped, Relaunch, StartFresh, Busy
  <2>2. /\ launch[p] = None /\ current \notin alive \cup proxies /\ exit[p] # "no"
        /\ \A u \in Threads \ {p} : ~Busy(u)
    BY <1>0, <2>1 DEF OneAtATime, Alone, ThreadsHold, Held, Lives, Starting
  <2>3. \A q \in Procs : exit'[q] = exit[q] /\ (exit'[q] # "no" => q \notin alive')
    BY <2>1 DEF OneAtATime, Lives
  <2>. QED
    BY <1>0, <2>1, <2>2, <2>3, SetOutStep
<1>. QED
  BY <1>1, <1>2, <1>3

LEMMA StepAlone == ~Overlap /\ TypeInv /\ OneAtATime /\ [Next]_vars => OneAtATime'
<1> SUFFICES ASSUME ~Overlap, TypeInv, OneAtATime, [Next]_vars PROVE OneAtATime'
  OBVIOUS
<1>1. CASE UNCHANGED vars
  BY <1>1 DEF vars, fields, procs, flow, OneAtATime, Alone, Busy, ThreadsHold, Held, Lives,
              NoOrphan, ProxyOwned
<1>2. CASE Next
  BY <1>2, CallStep, StartStep, ExitInv DEF Next, TypeInv
<1>. QED
  BY <1>1, <1>2

LEMMA InitAlone == Init => TypeInv /\ OneAtATime
<1> SUFFICES ASSUME Init PROVE TypeInv /\ OneAtATime
  OBVIOUS
<1>1. \A t \in Threads : pc[t] = "idle" /\ launch[t] = None
  BY DEF Init
<1>2. TypeInv
  BY <1>1, InitType DEF TypeInv, LaunchKnown, Starting
<1>3. Alone /\ ThreadsHold
  BY <1>1 DEF Alone, Busy, ThreadsHold, Held, Starting
<1>4. Lives
  BY <1>1, Numbers DEF Lives, Init
<1>. QED
  BY <1>2, <1>3, <1>4 DEF Init, OneAtATime, NoOrphan, ProxyOwned

\* As long as no call begins while a start is under way, no process and no
\* proxy is left behind.
THEOREM NothingLeftBehind ==
  ASSUME ~Overlap
  PROVE  Spec => [](NoOrphan /\ ProxyOwned)
<1>1. OneAtATime => NoOrphan /\ ProxyOwned
  BY DEF OneAtATime
<1>2. TypeInv /\ OneAtATime /\ [Next]_vars => TypeInv' /\ OneAtATime'
  BY StepType, StepAlone
<1>. QED
  BY <1>1, <1>2, InitAlone, PTL DEF Spec

\* In particular no provider proxy goes on without a process that needs it.
THEOREM ProxiesOwned ==
  ASSUME ~Overlap
  PROVE  Spec => []ProxyOwned
BY NothingLeftBehind, PTL

-----------------------------------------------------------------------------
(* A crash is noticed                                                      *)

\* Nothing is in this.state, and no stop is under way but one that is known.
LEMMA NoneNoticed ==
  ASSUME current' = None, stopping' => limit' = 0 \/ \E t \in Threads : pc'[t] \in {"killing", "closing"}
  PROVE  Noticed'
BY DEF Noticed, CrashIsNoticed, Settled

\* Thread t moves, and did not stop or restart anything.
LEMMA MoveNoticed ==
  ASSUME Noticed, NEW t \in Threads, pc[t] \notin {"killing", "closing", "dropping"},
         \A u \in Threads \ {t} : pc'[u] = pc[u],
         UNCHANGED <<limit, current, restarts, stopping, exit>>,
         current # None => alive' = alive
  PROVE  Noticed'
BY DEF Noticed, CrashIsNoticed, Settled

LEMMA CallNoticed ==
  ASSUME TypeOK, OneAtATime, Noticed, ~Overlap, NEW c \in Calls,
         \/ Message(c) \/ Switch(c) \/ Reply(c) \/ Abort(c)
  PROVE  Noticed'
<1>0. c \in Threads
  BY Numbers
<1>1. CASE ThreadStarted(c) \/ TurnAccepted(c) \/ RequestFails(c) \/ TurnEnds(c) \/ Abort(c)
  <2>1. \E where \in {"turn", "running", "idle"}, p \in Procs \cup {None} :
          At(c, where, None, p)
    BY <1>0, <1>1, Kinds DEF ThreadStarted, TurnAccepted, RequestFails, TurnEnds, Abort, Done
  <2>2. \A u \in Threads \ {c} : pc'[u] = pc[u]
    BY <1>0, <2>1, AtStep DEF Places, Messaging
  <2>3. /\ pc[c] \notin {"killing", "closing", "dropping"}
        /\ UNCHANGED <<limit, current, restarts, stopping, exit, alive>>
    BY <1>1 DEF ThreadStarted, TurnAccepted, RequestFails, TurnEnds, Abort, fields, procs
  <2>. QED
    BY <1>0, <2>2, <2>3, MoveNoticed
<1>2. CASE Message(c) \/ Switch(c)
  <2>1. /\ pc[c] = "idle" /\ \A u \in Threads : ~Busy(u)
        /\ UNCHANGED <<limit, current, restarts, alive, exit>>
    BY <1>2 DEF Message, Switch, Quiet, Busy
  <2>2. CASE UNCHANGED stopping /\ (\/ current # None /\ Send(c, current)
                                    \/ Done(c))
    <3>1. \E where \in {"idle", "hung"} \cup Messaging, p \in Procs \cup {None} :
            At(c, where, None, p)
      BY <2>2, SendStep, Kinds DEF Done, Messaging
    <3>2. \A u \in Threads \ {c} : pc'[u] = pc[u]
      BY <1>0, <3>1, AtStep DEF Places
    <3>. QED
      BY <1>0, <2>1, <2>2, <3>2, MoveNoticed
  <2>3. ASSUME NEW k \in Keys, current = None, StartFresh(c, k)
        PROVE  Noticed'
    BY <2>1, <2>3, NoneNoticed DEF StartFresh
  <2>4. ASSUME NEW k \in Keys, current # None, StartStops(c, k)
        PROVE  Noticed'
    <3>1. /\ current \in Procs /\ spawned + 1 \in Procs
          /\ At(c, AfterKill(current, "killing"), spawned + 1, current)
      BY <2>4, Kinds, Numbers DEF StartStops, SetOut
    <3>2. restarts = 0
      BY <2>1, <2>4 DEF Noticed, Settled, Busy
    <3>3. CASE exit[current] = "signal"
      <4>1. current \notin alive
        BY <3>1, <3>3 DEF OneAtATime, Lives
      <4>2. limit = 0
        BY <2>1, <2>4, <3>3, <4>1 DEF Noticed, CrashIsNoticed, Busy, Starting
      <4>. QED
        BY <2>1, <3>2, <4>2 DEF Noticed, CrashIsNoticed, Settled
    <3>4. CASE exit[current] # "signal"
      <4>1. pc'[c] = "killing"
        BY <1>0, <3>1, <3>4, AtStep DEF AfterKill, Places, Starting
      <4>. QED
        BY <1>0, <2>1, <3>2, <4>1 DEF Noticed, CrashIsNoticed, Settled
    <3>. QED
      BY <3>3, <3>4
  <2>. QED
    BY <1>2, <2>2, <2>3, <2>4 DEF Message, Switch
<1>. QED
  BY <1>1, <1>2 DEF Reply

LEMMA StartNoticed ==
  ASSUME TypeInv, OneAtATime, Noticed, NEW t \in Threads, Start(t)
  PROVE  Noticed'
<1>. USE Kinds DEF TypeInv
<1>. DEFINE n == launch[t]
<1>0. /\ Held(t) /\ (pc[t] \in Starting => n \in Procs /\ n # None /\ Busy(t))
      /\ \A u \in Threads \ {t} : Busy(t) => ~Busy(u)
  BY DEF OneAtATime, Alone, ThreadsHold, LaunchKnown, Busy
<1>1. CASE StopKilled(t) \/ StopClosed(t)
  <2>1. n \in Procs /\ current # None /\ Busy(t) /\ pc[t] \in {"killing", "closing"}
        /\ limit' = limit /\ restarts' = restarts
    BY <1>0, <1>1 DEF StopKilled, StopClosed, Held, Starting
  <2>2. CASE current' = None /\ stopping' = FALSE
    BY <2>2, NoneNoticed
  <2>3. CASE At(t, "closing", n, None) /\ UNCHANGED <<current, stopping>>
    <3>1. restarts = 0
      BY <1>0, <2>1 DEF Noticed, Settled, Busy
    <3>2. pc'[t] = "closing"
      BY <2>1, <2>3, AtStep DEF Places, Starting
    <3>. QED
      BY <2>1, <3>1, <3>2 DEF Noticed, CrashIsNoticed, Settled
  <2>. QED
    BY <1>1, <2>1, <2>2, <2>3 DEF StopKilled, StopClosed
<1>2. CASE Spawn(t) \/ SpawnFails(t) \/ InitializeFails(t) \/ StartFails(t)
  <2>1. /\ n \in Procs /\ pc[t] \in {"proxying", "handshake", "cleaning"}
        /\ current = None /\ UNCHANGED <<limit, current, restarts, stopping, exit>>
    BY <1>0, <1>2 DEF Spawn, SpawnFails, InitializeFails, StartFails, Held, Starting, fields, procs
  <2>2. \E where \in Places, m \in Procs \cup {None}, p \in Procs \cup {None} : At(t, where, m, p)
    BY <1>2, <2>1 DEF Spawn, SpawnFails, InitializeFails, StartFails, Failed, Done, AfterKill,
                      Places, Starting
  <2>3. \A u \in Threads \ {t} : pc'[u] = pc[u]
    BY <2>2, AtStep
  <2>. QED
    BY <2>1, <2>3, MoveNoticed
<1>3. CASE Initialized(t)
  <2>1. /\ n \in Procs /\ pc[t] = "handshake" /\ current' = n /\ n \in alive'
        /\ restarts' = 0 /\ stopping' = stopping /\ limit' = limit
        /\ (t \in messages => t \in Calls)
    BY <1>3, <1>0 DEF Initialized, RestartsAfterStart, Starting, TypeOK
  <2>2. \E where \in {"idle", "opening", "turn", "lost", "hung"}, p \in Procs \cup {None} :
          At(t, where, None, p)
    BY <1>3, <2>1, SendStep DEF Initialized, Done
  <2>3. \A u \in Threads \ {t} : pc'[u] = pc[u]
    BY <2>2, AtStep DEF Places, Messaging
  <2>4. stopping' => limit' = 0 \/ \E u \in Threads : pc'[u] \in {"killing", "closing"}
    BY <2>1, <2>3 DEF Noticed, Settled
  <2>. QED
    BY <2>1, <2>4 DEF Noticed, CrashIsNoticed, Settled
<1>. QED
  BY <1>1, <1>2, <1>3 DEF Start

LEMMA ExitNoticed ==
  ASSUME TypeOK, OneAtATime, Noticed, NEW p \in Procs, NEW how \in {"zero", "code", "signal"},
         ExitIgnored(p, how) \/ ExitGivesUp(p, how) \/ ExitRestarts(p, how) \/ Dropped(p)
  PROVE  Noticed'
<1>. USE Kinds
<1>1. CASE ExitIgnored(p, how)
  <2>1. UNCHANGED <<limit, current, restarts, stopping, pc>> /\ ~Crashed(p, how) /\ Exit(p, how)
    BY <1>1 DEF ExitIgnored, fields, flow
  <2>2. /\ p \in alive /\ alive' = alive \ {p} /\ exit'[p] = how
        /\ \A q \in Procs : q # p => exit'[q] = exit[q]
    BY <2>1, ExitStep
  <2>3. CASE current = p /\ how # "zero"
    <3>1. stopping
      BY <2>1, <2>3 DEF Crashed, OneAtATime, Lives
    <3>. QED
      BY <2>1, <3>1 DEF Noticed, CrashIsNoticed, Settled
  <2>4. CASE current = p /\ how = "zero"
    BY <2>1, <2>2, <2>4 DEF Noticed, CrashIsNoticed, Settled
  <2>5. CASE current # p
    BY <2>1, <2>2, <2>5 DEF Noticed, CrashIsNoticed, Settled
  <2>. QED
    BY <2>3, <2>4, <2>5
<1>2. CASE ExitGivesUp(p, how)
  <2>1. /\ UNCHANGED <<limit, current, restarts, stopping, pc>>
        /\ Exit(p, how) /\ Crashed(p, how) /\ ~(restarts < limit)
    BY <1>2 DEF ExitGivesUp, MayRestart, flow
  <2>2. p = current /\ current # None /\ \A t \in Threads : ~Busy(t)
    BY <2>1, ExitStep, CrashAlone
  <2>3. restarts = 0
    BY <2>2 DEF Noticed, Settled, Busy
  <2>4. limit = 0
    BY <2>1, <2>3, ConstAssumption DEF TypeOK
  <2>. QED
    BY <2>1, <2>3, <2>4 DEF Noticed, CrashIsNoticed, Settled
<1>3. CASE ExitRestarts(p, how)
  <2>1. CASE Relaunch(p)
    BY <2>1, NoneNoticed DEF Relaunch, StartFresh
  <2>2. CASE At(p, "dropping", None, None) /\ UNCHANGED <<current, stopping>>
    <3>1. ~stopping' /\ p \in Threads
      BY <1>3, <2>2, Numbers DEF ExitRestarts, Crashed
    <3>2. pc'[p] = "dropping"
      BY <2>2, <3>1, AtStep DEF Places
    <3>. QED
      BY <3>1, <3>2 DEF Noticed, CrashIsNoticed, Settled
  <2>. QED
    BY <1>3, <2>1, <2>2 DEF ExitRestarts
<1>4. CASE Dropped(p)
  BY <1>4, NoneNoticed DEF Dropped, Relaunch, StartFresh
<1>. QED
  BY <1>1, <1>2, <1>3, <1>4

LEMMA StepNoticed == ~Overlap /\ TypeInv /\ OneAtATime /\ Noticed /\ [Next]_vars => Noticed'
<1> SUFFICES ASSUME ~Overlap, TypeInv, OneAtATime, Noticed, [Next]_vars PROVE Noticed'
  OBVIOUS
<1>1. CASE UNCHANGED vars
  BY <1>1 DEF vars, fields, procs, flow, Noticed, CrashIsNoticed, Settled
<1>2. CASE Next
  BY <1>2, CallNoticed, StartNoticed, ExitNoticed DEF Next, TypeInv
<1>. QED
  BY <1>1, <1>2

\* Under the same condition a process that crashed is restarted or stopped, unless
\* no restart is allowed.
THEOREM CrashNoticed ==
  ASSUME ~Overlap
  PROVE  Spec => []CrashIsNoticed
<1>1. Init => Noticed
  BY DEF Init, Noticed, CrashIsNoticed, Settled
<1>2. Noticed => CrashIsNoticed
  BY DEF Noticed
<1>3. TypeInv /\ OneAtATime /\ Noticed /\ [Next]_vars => TypeInv' /\ OneAtATime' /\ Noticed'
  BY StepType, StepAlone, StepNoticed
<1>. QED
  BY <1>1, <1>2, <1>3, InitAlone, PTL DEF Spec

-----------------------------------------------------------------------------
(* One process after the other                                             *)

\* No two threads start the same process, who waits forever holds none that
\* runs, and what is in this.state ran at least.
Apart ==
  /\ \A t, u \in Threads : launch[t] # None /\ launch[t] = launch[u] => t = u
  /\ \A t \in Threads : pc[t] = "hung" /\ launch[t] # None => launch[t] \notin alive
  /\ current # None => current \in alive \/ exit[current] # "no"

\* Thread t moves, and nothing but what it holds begins to run.
LEMMA MoveApart ==
  ASSUME TypeOK, OneAtATime, Apart, NEW t \in Threads,
         \A u \in Threads \ {t} : pc'[u] = pc[u] /\ launch'[u] = launch[u],
         launch'[t] \in {None, launch[t], spawned + 1},
         pc'[t] = "hung" /\ launch'[t] # None => launch'[t] \notin alive',
         alive' \subseteq alive \cup {launch[t]},
         current' # None => current' \in alive' \/ exit'[current'] # "no"
  PROVE  Apart'
<1>1. \A u \in Threads : launch[u] # None => launch[u] # spawned + 1
  BY Kinds DEF OneAtATime, ThreadsHold, Held
<1>2. ASSUME NEW u \in Threads, NEW v \in Threads, launch'[u] # None, launch'[u] = launch'[v]
      PROVE  u = v
  BY <1>1, <1>2 DEF Apart
<1>3. ASSUME NEW u \in Threads, pc'[u] = "hung", launch'[u] # None
      PROVE  launch'[u] \notin alive'
  BY <1>3 DEF Apart
<1>. QED
  BY <1>2, <1>3 DEF Apart

LEMMA CallApart ==
  ASSUME TypeOK, OneAtATime, Apart, NEW c \in Calls,
         \/ Message(c) \/ Switch(c) \/ Reply(c) \/ Abort(c)
  PROVE  /\ Apart'
         /\ UNCHANGED <<alive, exit, current>>
<1>0. /\ c \in Threads /\ spawned + 1 \notin alive
      /\ UNCHANGED <<alive, exit, current>>
  <2>1. spawned + 1 \notin alive
    BY Kinds DEF OneAtATime, Lives
  <2>. QED
    BY <2>1, Numbers DEF Message, Switch, Reply, Abort, ThreadStarted, TurnAccepted, RequestFails,
                         TurnEnds, fields, procs
<1>1. \E where \in Places, n \in {None, spawned + 1}, p \in Procs \cup {None} :
        n \in Procs \cup {None} /\ At(c, where, n, p)
  <2>1. CASE ThreadStarted(c) \/ TurnAccepted(c) \/ RequestFails(c) \/ TurnEnds(c) \/ Abort(c)
    <3>1. \E where \in {"turn", "running", "idle"}, p \in Procs \cup {None} :
            At(c, where, None, p)
      BY <1>0, <2>1, Kinds DEF ThreadStarted, TurnAccepted, RequestFails, TurnEnds, Abort, Done
    <3>. QED
      BY <3>1 DEF Places, Messaging
  <2>2. ASSUME NEW k \in Keys, StartFresh(c, k) \/ (current # None /\ StartStops(c, k))
        PROVE  \E where \in Places, p \in Procs \cup {None} :
                 spawned + 1 \in Procs /\ At(c, where, spawned + 1, p)
    BY <2>2, Kinds, Numbers DEF StartFresh, StartStops, SetOut, AfterKill, Places, Starting
  <2>3. CASE (current # None /\ Send(c, current)) \/ Done(c)
    <3>1. \E where \in {"idle", "hung"} \cup Messaging, p \in Procs \cup {None} :
            At(c, where, None, p)
      BY <2>3, SendStep, Kinds DEF Done, Messaging
    <3>. QED
      BY <3>1 DEF Places
  <2>. QED
    BY <2>1, <2>2, <2>3 DEF Message, Switch, Reply
<1>2. /\ launch'[c] \in {None, spawned + 1}
      /\ \A u \in Threads \ {c} : pc'[u] = pc[u] /\ launch'[u] = launch[u]
  BY <1>0, <1>1, AtStep
<1>3. Apart'
  BY <1>0, <1>2, MoveApart DEF Apart
<1>. QED
  BY <1>0, <1>3

\* While a thread starts a process before its spawn, none runs.
LEMMA NoneRuns ==
  ASSUME TypeInv, OneAtATime, Apart, NEW t \in Threads, pc[t] = "proxying"
  PROVE  alive = {} /\ current = None
<1>1. Busy(t) /\ Held(t)
  BY DEF Busy, Starting, OneAtATime, ThreadsHold
<1>2. current = None /\ launch[t] \notin alive
  BY <1>1 DEF Held
<1>3. ASSUME NEW p \in alive PROVE FALSE
  <2>1. p \in Procs /\ p # None
    BY Kinds DEF TypeInv
  <2>2. PICK u \in Threads : launch[u] = p
    BY <1>2, <2>1 DEF OneAtATime, NoOrphan
  <2>3. u # t /\ ~Busy(u) /\ Held(u)
    BY <1>1, <1>2, <2>2 DEF OneAtATime, Alone, ThreadsHold
  <2>4. pc[u] = "hung"
    BY <2>1, <2>2, <2>3 DEF Held, Busy
  <2>. QED
    BY <2>1, <2>2, <2>4 DEF Apart
<1>. QED
  BY <1>2, <1>3

\* What a start does to the processes.
LEMMA StartProcess ==
  ASSUME TypeInv, OneAtATime, Apart, NEW t \in Threads, Start(t)
  PROVE  /\ Apart'
         /\ \/ UNCHANGED <<alive, exit, current>>
            \/ Process!GiveUp
            \/ \E p \in Procs : Process!Launch(p) \/ Process!Serve(p)
<1>. USE Kinds DEF TypeInv
<1>. DEFINE n == launch[t]
<1>0. /\ Held(t) /\ (pc[t] \in Starting => n \in Procs /\ n # None)
      /\ n \in Procs \cup {None} /\ None \in Procs \cup {None}
  BY DEF OneAtATime, ThreadsHold, LaunchKnown
<1>1. CASE StopKilled(t) \/ StopClosed(t)
  <2>1. /\ n \in Procs /\ current # None /\ current \notin alive /\ pc[t] # "hung"
        /\ UNCHANGED <<alive, exit>>
    BY <1>0, <1>1 DEF StopKilled, StopClosed, KillSettled, Held, Starting, procs
  <2>2. \E where \in {"closing", "proxying"} : At(t, where, n, None)
    BY <1>1, <2>1 DEF StopKilled, StopClosed
  <2>3. /\ launch'[t] = n /\ pc'[t] # "hung"
        /\ \A u \in Threads \ {t} : pc'[u] = pc[u] /\ launch'[u] = launch[u]
    BY <1>0, <2>1, <2>2, AtStep DEF Places, Starting
  <2>4. current' \in {current, None}
    BY <1>1, <2>1 DEF StopKilled, StopClosed
  <2>5. Apart'
    BY <2>1, <2>3, <2>4, MoveApart DEF Apart
  <2>6. current \in Procs /\ exit[current] # "no"
    BY <2>1 DEF Apart
  <2>7. UNCHANGED <<alive, exit, current>> \/ Process!GiveUp
    BY <2>1, <2>4, <2>6 DEF Process!GiveUp, Ended
  <2>. QED
    BY <2>5, <2>7
<1>2. CASE Spawn(t)
  <2>1. /\ pc[t] = "proxying" /\ n \in Procs /\ exit[n] = "no"
        /\ alive' = alive \cup {n} /\ At(t, "handshake", n, n)
        /\ UNCHANGED <<current, exit>>
    BY <1>0, <1>2 DEF Spawn, Held, Starting, fields
  <2>2. alive = {} /\ current = None
    BY <2>1, NoneRuns
  <2>3. /\ launch'[t] = n /\ pc'[t] # "hung"
        /\ \A u \in Threads \ {t} : pc'[u] = pc[u] /\ launch'[u] = launch[u]
    BY <2>1, AtStep DEF Places, Starting
  <2>4. Apart'
    BY <2>1, <2>2, <2>3, MoveApart
  <2>5. Process!Launch(n)
    BY <2>1, <2>2 DEF Process!Launch, Ended
  <2>. QED
    BY <2>1, <2>4, <2>5
<1>3. CASE SpawnFails(t) \/ StartFails(t)
  <2>1. UNCHANGED <<alive, exit, current>> /\ At(t, "idle", None, None)
    BY <1>3 DEF SpawnFails, StartFails, Failed, Done, procs
  <2>2. /\ launch'[t] = None
        /\ \A u \in Threads \ {t} : pc'[u] = pc[u] /\ launch'[u] = launch[u]
    BY <1>0, <2>1, AtStep DEF Places
  <2>3. Apart'
    BY <2>1, <2>2, MoveApart DEF Apart
  <2>. QED
    BY <2>1, <2>3
<1>4. CASE Initialized(t)
  <2>1. /\ n \in Procs /\ n \in alive /\ current = None /\ current' = n
        /\ UNCHANGED <<alive, exit>>
        /\ (t \in messages => t \in Calls)
    BY <1>0, <1>4 DEF Initialized, Held, Starting, TypeOK
  <2>2. \E where \in {"idle", "opening", "turn", "lost", "hung"}, q \in Procs \cup {None} :
          At(t, where, None, q)
    BY <1>4, <2>1, SendStep DEF Initialized, Done
  <2>3. /\ launch'[t] = None
        /\ \A u \in Threads \ {t} : pc'[u] = pc[u] /\ launch'[u] = launch[u]
    BY <1>0, <2>2, AtStep DEF Places, Messaging
  <2>4. Apart'
    BY <2>1, <2>3, MoveApart
  <2>5. Process!Serve(n)
    BY <2>1 DEF Process!Serve, Ended
  <2>. QED
    BY <2>1, <2>4, <2>5
<1>5. CASE InitializeFails(t)
  <2>1. /\ n \in Procs /\ UNCHANGED <<alive, exit, current>>
        /\ At(t, AfterKill(n, "cleaning"), n, n)
    BY <1>0, <1>5 DEF InitializeFails, Starting, fields, procs
  <2>2. /\ launch'[t] = n /\ pc'[t] = AfterKill(n, "cleaning")
        /\ \A u \in Threads \ {t} : pc'[u] = pc[u] /\ launch'[u] = launch[u]
    <3>1. AfterKill(n, "cleaning") \in Places
      BY DEF AfterKill, Places, Starting
    <3>. QED
      BY <2>1, <3>1, AtStep
  <2>3. pc'[t] = "hung" => n \notin alive
    BY <2>1, <2>2 DEF AfterKill, OneAtATime, Lives
  <2>4. Apart'
    BY <2>1, <2>2, <2>3, MoveApart DEF Apart
  <2>. QED
    BY <2>1, <2>4
<1>. QED
  BY <1>1, <1>2, <1>3, <1>4, <1>5 DEF Start

\* What an exit and its handler do to the processes.
LEMMA ExitProcess ==
  ASSUME TypeInv, OneAtATime, Apart, NEW p \in Procs, NEW how \in {"zero", "code", "signal"},
         ExitIgnored(p, how) \/ ExitGivesUp(p, how) \/ ExitRestarts(p, how) \/ Dropped(p)
  PROVE  /\ Apart'
         /\ UNCHANGED <<alive, exit, current>> \/ Process!GiveUp \/ Process!End(p)
<1>. USE Kinds DEF TypeInv
<1>0. p \in Threads /\ None \in Procs \cup {None}
  BY Numbers
<1>1. \/ UNCHANGED <<pc, launch, current>>
      \/ /\ launch'[p] \in {None, spawned + 1} /\ pc'[p] # "hung"
         /\ \A u \in Threads \ {p} : pc'[u] = pc[u] /\ launch'[u] = launch[u]
         /\ current' \in {current, None}
  <2>1. CASE At(p, "dropping", None, None) /\ UNCHANGED current
    BY <1>0, <2>1, AtStep DEF Places
  <2>2. CASE Relaunch(p)
    <3>1. /\ At(p, "proxying", spawned + 1, None) /\ spawned + 1 \in Procs
          /\ current' = None
      BY <2>2, Numbers DEF Relaunch, StartFresh, SetOut
    <3>. QED
      BY <1>0, <3>1, AtStep DEF Places, Starting
  <2>. QED
    BY <2>1, <2>2 DEF ExitIgnored, ExitGivesUp, ExitRestarts, Dropped, fields, flow
<1>2. CASE Exit(p, how)
  <2>1. /\ p \in alive /\ alive' = alive \ {p} /\ exit \in [Procs -> {"no", "zero", "code", "signal"}]
        /\ exit'[p] = how /\ \A q \in Procs : q # p => exit'[q] = exit[q]
    BY <1>2, ExitStep DEF TypeOK
  <2>2. current' \in {current, None}
    BY <1>1
  <2>3. current' # None => current' \in alive' \/ exit'[current'] # "no"
    BY <2>1, <2>2 DEF Apart
  <2>4. Apart'
    BY <1>0, <1>1, <2>1, <2>3, MoveApart DEF Apart
  <2>5. Ended' = Ended \cup {p}
    BY <2>1 DEF Ended
  <2>. QED
    BY <2>1, <2>2, <2>4, <2>5 DEF Process!End
<1>3. CASE Dropped(p)
  <2>1. /\ current' = None /\ UNCHANGED <<alive, exit>> /\ current \notin alive
    BY <1>0, <1>3 DEF Dropped, Relaunch, OneAtATime, ThreadsHold, Held
  <2>2. Apart'
    BY <1>0, <1>1, <2>1, MoveApart DEF Apart
  <2>3. CASE current = None
    BY <2>1, <2>2, <2>3
  <2>4. CASE current # None
    BY <2>1, <2>2, <2>4 DEF Apart, Process!GiveUp, Ended
  <2>. QED
    BY <2>3, <2>4
<1>. QED
  BY <1>2, <1>3 DEF ExitIgnored, ExitGivesUp, ExitRestarts

LEMMA StepProcess ==
  ~Overlap /\ TypeInv /\ OneAtATime /\ Apart /\ [Next]_vars
    => Apart' /\ [Process!ProcessNext]_(Process!processVars)
<1> SUFFICES ASSUME ~Overlap, TypeInv, OneAtATime, Apart, [Next]_vars
             PROVE  Apart' /\ [Process!ProcessNext]_(Process!processVars)
  OBVIOUS
<1>1. UNCHANGED <<alive, exit, current>> => UNCHANGED Process!processVars
  BY DEF Ended, Process!processVars
<1>2. CASE UNCHANGED vars
  BY <1>1, <1>2 DEF vars, fields, procs, flow, Apart
<1>3. ASSUME NEW c \in Calls, Message(c) \/ Switch(c) \/ Reply(c) \/ Abort(c)
      PROVE  Apart' /\ UNCHANGED Process!processVars
  BY <1>1, <1>3, CallApart DEF TypeInv
<1>4. ASSUME NEW t \in Threads, Start(t)
      PROVE  Apart' /\ [Process!ProcessNext]_(Process!processVars)
  BY <1>1, <1>4, StartProcess DEF Process!ProcessNext
<1>5. ASSUME NEW p \in Procs, NEW how \in {"zero", "code", "signal"},
             ExitIgnored(p, how) \/ ExitGivesUp(p, how) \/ ExitRestarts(p, how) \/ Dropped(p)
      PROVE  Apart' /\ [Process!ProcessNext]_(Process!processVars)
  BY <1>1, <1>5, ExitProcess DEF Process!ProcessNext
<1>. QED
  BY <1>2, <1>3, <1>4, <1>5 DEF Next

\* As long as no call begins while a start is under way, starts, changes of
\* provider, crashes and restarts amount to one process after the other: the
\* next one is spawned when the one before has ended and was given up.
THEOREM Implements ==
  ASSUME ~Overlap
  PROVE  Spec => OneProcessSpec
<1>1. Init => Apart /\ Process!ProcessInit
  BY DEF Init, Apart, Process!ProcessInit, Ended
<1>2. TypeInv /\ OneAtATime /\ Apart /\ [Next]_vars
        => TypeInv' /\ OneAtATime' /\ Apart' /\ [Process!ProcessNext]_(Process!processVars)
  BY StepType, StepAlone, StepProcess
<1>. QED
  BY <1>1, <1>2, InitAlone, PTL DEF Spec, OneProcessSpec, Process!ProcessSpec

=============================================================================
