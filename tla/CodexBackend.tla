---------------------------- MODULE CodexBackend ----------------------------
(***************************************************************************)
(* The life of the Codex subprocess (agents/codex-backend.ts, with         *)
(* codex/process.ts and codex/jsonrpc.ts): starting it with a provider     *)
(* proxy, stopping it when the provider changes, restarting it when it     *)
(* crashes, and the messages that are sent to it.                          *)
(*                                                                         *)
(* Nothing serialises these operations: a call of start() runs up to its   *)
(* next await, and so does the exit handler of a process.  An action is    *)
(* one such segment.  The fields started, state and lastProviderKey are    *)
(* set and cleared together; here they are `current`.  A provider has an   *)
(* apiKey, so that every start tries to open a proxy first; the proxy and  *)
(* the temporary configuration come and go together.  The codex binary     *)
(* stays where detectCodexBinary finds it.  Left out: turn/interrupt, and  *)
(* the export and import of a handoff.                                     *)
(***************************************************************************)
EXTENDS Integers

CONSTANTS
  Calls,        \* requests that send a message or switch to this backend
  Keys,         \* provider fingerprints
  MaxProcs,     \* bound: processes that start() sets out to spawn
  Limits,       \* values that CODEX_MAX_RESTARTS may have
  Overlap,      \* whether a call may begin while a start is under way
  None          \* no process, no key

Procs == 1 .. MaxProcs

ASSUME ConstAssumption ==
  /\ MaxProcs \in Nat \ {0} /\ Limits \subseteq Nat /\ Overlap \in BOOLEAN
  /\ Calls \cap Procs = {}
  /\ None \notin Procs \cup Keys

\* What runs start(): a call, or the exit handler of a process.
Threads == Calls \cup Procs

VARIABLES
  limit,      \* maxRestarts
  available,  \* this.binary is not null
  current,    \* the process in this.state
  restarts,   \* restartCount
  stopping,   \* the flag of stop()
  spawned,    \* how many processes were set out to be spawned
  keyOf,      \* the provider key a process is started with
  alive,      \* processes that run
  exit,       \* how a process that ended did so
  watched,    \* processes whose onExit has the restart handler
  proxied,    \* processes that were given a provider proxy
  proxies,    \* proxies that listen, each named by its process
  threads,    \* processes with a codex thread (state.threadId)
  messages,   \* calls of sendMessage, the other calls being of start
  pc,         \* where a thread is
  launch,     \* the process a thread is starting
  on          \* the process a thread waits for or talks to

fields == <<limit, available, current, restarts, stopping>>
procs  == <<spawned, keyOf, alive, exit, watched, proxied>>
flow   == <<messages, pc, launch, on>>
vars   == <<fields, procs, proxies, threads, flow>>

\* The awaits of start(), of a message, and of the exit handler ("dropping"); a
\* thread that is "hung" awaits a promise that nothing settles any more.
Starting  == {"killing", "closing", "proxying", "handshake", "cleaning"}
Messaging == {"opening", "turn", "running", "lost"}

TypeOK ==
  /\ limit \in Limits
  /\ available \in BOOLEAN
  /\ current \in Procs \cup {None}
  /\ restarts \in 0 .. limit
  /\ stopping \in BOOLEAN
  /\ spawned \in 0 .. MaxProcs
  /\ keyOf \in [Procs -> Keys \cup {None}]
  /\ alive \subseteq Procs
  /\ exit \in [Procs -> {"no", "zero", "code", "signal"}]
  /\ watched \subseteq Procs
  /\ proxied \subseteq Procs
  /\ proxies \subseteq Procs
  /\ threads \subseteq Procs
  /\ messages \subseteq Calls
  /\ pc \in [Threads -> {"idle", "dropping", "hung"} \cup Starting \cup Messaging]
  /\ launch \in [Threads -> Procs \cup {None}]
  /\ on \in [Threads -> Procs \cup {None}]

Init ==
  /\ limit \in Limits
  /\ available = TRUE
  /\ current = None
  /\ restarts = 0
  /\ stopping = FALSE
  /\ spawned = 0
  /\ keyOf = [p \in Procs |-> None]
  /\ alive = {}
  /\ exit = [p \in Procs |-> "no"]
  /\ watched = {}
  /\ proxied = {}
  /\ proxies = {}
  /\ threads = {}
  /\ messages = {}
  /\ pc = [t \in Threads |-> "idle"]
  /\ launch = [t \in Threads |-> None]
  /\ on = [t \in Threads |-> None]

\* Thread t is now at `where`, starting n and waiting for or talking to p.
At(t, where, n, p) ==
  /\ pc' = [pc EXCEPT ![t] = where]
  /\ launch' = [launch EXCEPT ![t] = n]
  /\ on' = [on EXCEPT ![t] = p]

Done(t) == At(t, "idle", None, None)

\* start() threw.  The exit handler then marks the backend unavailable.
Failed(t) ==
  /\ available' = (available /\ t \notin Procs)
  /\ Done(t)

\* The promise of kill() settles at once for a process that exited with a code,
\* never for one that was ended by a signal (its exitCode stays null and no
\* further exit event comes), and with its exit for one that runs.
AfterKill(p, where) == IF exit[p] = "signal" THEN "hung" ELSE where

-----------------------------------------------------------------------------
(* Sending a message to the process in this.state                          *)

\* thread/start when the process has no thread yet, turn/start otherwise.  The
\* exit of a process rejects the requests that are pending; one that is sent
\* later is never answered.
Send(c, p) ==
  At(c, CASE p \in alive /\ p \notin threads -> "opening"
          [] p \in alive /\ p \in threads    -> "turn"
          [] p \notin alive /\ p \in threads -> "lost"
          [] OTHER                           -> "hung",
     None, p)

ThreadStarted(c) ==
  /\ pc[c] = "opening"
  /\ on[c] \in alive
  /\ threads' = threads \cup {on[c]}
  /\ At(c, "turn", None, on[c])
  /\ UNCHANGED <<fields, procs, proxies, messages>>

TurnAccepted(c) ==
  /\ pc[c] = "turn"
  /\ on[c] \in alive
  /\ At(c, "running", None, on[c])
  /\ UNCHANGED <<fields, procs, proxies, threads, messages>>

\* A request is refused, or rejected by the exit of the process.
RequestFails(c) ==
  /\ pc[c] \in {"opening", "turn"}
  /\ Done(c)
  /\ UNCHANGED <<fields, procs, proxies, threads, messages>>

\* turn/completed or an error comes from the process.
TurnEnds(c) ==
  /\ pc[c] \in {"turn", "running"}
  /\ on[c] \in alive
  /\ Done(c)
  /\ UNCHANGED <<fields, procs, proxies, threads, messages>>

\* The loop that waits for events sees the abort of its signal.
Abort(c) ==
  /\ pc[c] \in {"turn", "running", "lost"}
  /\ Done(c)
  /\ UNCHANGED <<fields, procs, proxies, threads, messages>>

-----------------------------------------------------------------------------
(* start()                                                                 *)

\* A process is set out for with key k; `where` is the await it leads to.
SetOut(t, k, where, p) ==
  /\ spawned < MaxProcs
  /\ spawned' = spawned + 1
  /\ keyOf' = [keyOf EXCEPT ![spawned + 1] = k]
  /\ At(t, where, spawned + 1, p)

\* Nothing is in this.state: start the provider proxy.
StartFresh(t, k) ==
  /\ stopping' = FALSE
  /\ SetOut(t, k, "proxying", None)

\* Another provider: stop() first, which waits for kill().
StartStops(t, k) ==
  /\ stopping' = TRUE
  /\ SetOut(t, k, AfterKill(current, "killing"), current)

Quiet == \A t \in Threads : pc[t] \notin Starting \cup {"dropping"}

\* sendMessage; it starts the backend only when nothing is in this.state.
Message(c) ==
  /\ pc[c] = "idle"
  /\ Overlap \/ Quiet
  /\ available
  /\ messages' = messages \cup {c}
  /\ \/ /\ current # None
        /\ Send(c, current)
        /\ UNCHANGED <<stopping, spawned, keyOf>>
     \/ /\ current = None
        /\ \E k \in Keys : StartFresh(c, k)
  /\ UNCHANGED <<limit, available, current, restarts, alive, exit, watched,
                 proxied, proxies, threads>>

\* The agent switch calls start(), which looks for the binary again.  It reuses
\* the process of the same provider, whether that runs or not.
Switch(c) ==
  /\ pc[c] = "idle"
  /\ Overlap \/ Quiet
  /\ available' = TRUE
  /\ messages' = messages \ {c}
  /\ \E k \in Keys :
       \/ current = None /\ StartFresh(c, k)
       \/ /\ current # None
          /\ keyOf[current] = k
          /\ Done(c)
          /\ UNCHANGED <<stopping, spawned, keyOf>>
       \/ /\ current # None
          /\ keyOf[current] # k
          /\ StartStops(c, k)
  /\ UNCHANGED <<limit, current, restarts, alive, exit, watched, proxied,
                 proxies, threads>>

KillSettledBug(t) == TRUE
KillSettled(t) == on[t] \notin alive

\* stop() goes on after the kill and reads this.state again: it may be gone,
\* which throws, or be another process by now.  Without a proxy there is no
\* further await.
StopKilled(t) ==
  /\ pc[t] = "killing"
  /\ KillSettled(t)
  /\ \/ /\ current = None
        /\ Failed(t)
        /\ UNCHANGED <<current, stopping, proxies>>
     \/ /\ current \in proxied
        /\ proxies' = proxies \ {current}
        /\ At(t, "closing", launch[t], None)
        /\ UNCHANGED <<available, current, stopping>>
     \/ /\ current \in Procs \ proxied
        /\ current' = None
        /\ stopping' = FALSE
        /\ At(t, "proxying", launch[t], None)
        /\ UNCHANGED <<available, proxies>>
  /\ UNCHANGED <<limit, restarts, procs, threads, messages>>

\* The proxy is closed: stop() forgets this.state, start() goes on.
StopClosed(t) ==
  /\ pc[t] = "closing"
  /\ \/ current = None /\ Failed(t) /\ UNCHANGED <<current, stopping>>
     \/ /\ current # None
        /\ current' = None
        /\ stopping' = FALSE
        /\ At(t, "proxying", launch[t], None)
        /\ UNCHANGED available
  /\ UNCHANGED <<limit, restarts, procs, proxies, threads, messages>>

\* The proxy listens, or could not be started and is done without; the process
\* is spawned and sent `initialize`.
Spawn(t) ==
  LET n == launch[t] IN
  /\ pc[t] = "proxying"
  /\ available
  /\ \/ proxied' = proxied \cup {n} /\ proxies' = proxies \cup {n}
     \/ UNCHANGED <<proxied, proxies>>
  /\ alive' = alive \cup {n}
  /\ At(t, "handshake", n, n)
  /\ UNCHANGED <<fields, spawned, keyOf, exit, watched, threads, messages>>

\* spawn throws, also when this.binary was taken away meanwhile.
SpawnFails(t) ==
  /\ pc[t] = "proxying"
  /\ Failed(t)
  /\ UNCHANGED <<limit, current, restarts, stopping, procs, proxies, threads, messages>>

RestartsAfterStartBug == restarts
RestartsAfterStart == 0

\* `initialize` was answered: this is the process from now on.  The last line of
\* start() throws if this.binary was taken away meanwhile.
Initialized(t) ==
  LET n == launch[t] IN
  /\ pc[t] = "handshake"
  /\ n \in alive
  /\ current' = n
  /\ restarts' = RestartsAfterStart
  /\ watched' = watched \cup {n}
  /\ IF t \in messages /\ available THEN Send(t, n) ELSE Done(t)
  /\ UNCHANGED <<limit, available, stopping, spawned, keyOf, alive, exit,
                 proxied, proxies, threads, messages>>

\* `initialize` was refused, or rejected by the exit: kill the process.
InitializeFails(t) ==
  LET n == launch[t] IN
  /\ pc[t] = "handshake"
  /\ At(t, AfterKill(n, "cleaning"), n, n)
  /\ UNCHANGED <<fields, procs, proxies, threads, messages>>

ProxiesLeftBug(t) == proxies
ProxiesLeft(t) == proxies \ {launch[t]}

StartFails(t) ==
  /\ pc[t] = "cleaning"
  /\ KillSettled(t)
  /\ proxies' = ProxiesLeft(t)
  /\ Failed(t)
  /\ UNCHANGED <<limit, current, restarts, stopping, procs, threads, messages>>

-----------------------------------------------------------------------------
(* The end of a process, and handleProcessExit                             *)

\* Drop this.state, whatever is in it, and start again with the options of p.
Relaunch(p) ==
  /\ current' = None
  /\ available' = TRUE
  /\ StartFresh(p, keyOf[p])

Exit(p, how) ==
  /\ p \in alive
  /\ alive' = alive \ {p}
  /\ exit' = [exit EXCEPT ![p] = how]

Crashed(p, how) == p \in watched /\ ~stopping /\ how # "zero"

MayRestartBug == restarts <= limit
MayRestart == restarts < limit

\* No handler yet, a stop under way, or a normal exit.
ExitIgnored(p, how) ==
  /\ Exit(p, how)
  /\ ~Crashed(p, how)
  /\ UNCHANGED <<fields, spawned, keyOf, watched, proxied, proxies, threads, flow>>

ExitGivesUp(p, how) ==
  /\ Exit(p, how)
  /\ Crashed(p, how)
  /\ ~MayRestart
  /\ available' = FALSE
  /\ UNCHANGED <<limit, current, restarts, stopping, spawned, keyOf, watched,
                 proxied, proxies, threads, flow>>

\* The handler closes the proxy of this.state, if there is one, and awaits it.
ExitRestarts(p, how) ==
  /\ Exit(p, how)
  /\ Crashed(p, how)
  /\ MayRestart
  /\ restarts' = restarts + 1
  /\ \/ /\ current \in proxied
        /\ proxies' = proxies \ {current}
        /\ At(p, "dropping", None, None)
        /\ UNCHANGED <<available, current, stopping, spawned, keyOf>>
     \/ /\ current \notin proxied
        /\ Relaunch(p)
        /\ UNCHANGED proxies
  /\ UNCHANGED <<limit, watched, proxied, threads, messages>>

Dropped(p) ==
  /\ pc[p] = "dropping"
  /\ Relaunch(p)
  /\ UNCHANGED <<limit, restarts, alive, exit, watched, proxied, proxies,
                 threads, messages>>

-----------------------------------------------------------------------------
Start(t) ==
  \/ StopKilled(t) \/ StopClosed(t)
  \/ Spawn(t) \/ SpawnFails(t)
  \/ Initialized(t) \/ InitializeFails(t) \/ StartFails(t)

Reply(c) ==
  \/ ThreadStarted(c) \/ TurnAccepted(c) \/ RequestFails(c) \/ TurnEnds(c)

Next ==
  \/ \E c \in Calls : Message(c) \/ Switch(c) \/ Reply(c) \/ Abort(c)
  \/ \E t \in Threads : Start(t)
  \/ \E p \in Procs : Dropped(p)
  \/ \E p \in Procs, how \in {"zero", "code", "signal"} :
       ExitIgnored(p, how) \/ ExitGivesUp(p, how) \/ ExitRestarts(p, how)

Spec == Init /\ [][Next]_vars

\* Rejected promises and the continuations of start() are run; nothing says
\* that codex answers, that a request is aborted or that a process ends.
Rejected(c) == on[c] \notin alive /\ RequestFails(c)

FairSpec ==
  /\ Spec
  /\ \A c \in Calls : WF_vars(Rejected(c))
  /\ \A t \in Threads : WF_vars(Start(t))
  /\ \A p \in Procs : WF_vars(Dropped(p))

-----------------------------------------------------------------------------
\* As long as no call begins while a start is under way, a codex process that
\* runs is the one in this.state or one that some start() still holds: neither
\* a change of provider nor a crash and its restart leaves one behind.
\* (With Overlap this is what "initialize (once)" promises, and it fails.)
NoOrphan ==
  \A p \in alive : p = current \/ \E t \in Threads : launch[t] = p

\* A provider proxy that listens belongs to the process in this.state or to one
\* that some start() still holds, whichever step of a start or stop failed.
ProxyOwned ==
  proxies \subseteq {current} \cup {launch[t] : t \in Threads}

\* A process that crashed does not stay in this.state: with restarts allowed, its
\* exit handler or a stop is at work on it.  Only a process that exited with
\* code 0 is kept, and later messages are sent to it.
CrashIsNoticed ==
  (current # None /\ current \notin alive /\ exit[current] # "zero") =>
    limit = 0 \/ \E t \in Threads : pc[t] \in {"killing", "closing", "dropping"}

\* "Subprocess crash: an error is thrown, sendMessage terminates": a message
\* whose process has ended comes to its end.
CrashEndsMessage ==
  \A c \in Calls :
    (c \in messages /\ on[c] \in Procs /\ exit[on[c]] \in {"code", "signal"})
      ~> pc[c] = "idle"

-----------------------------------------------------------------------------
\* As long as no call begins while a start is under way, starts, stops, crashes
\* and restarts amount to one process after the other.
Ended == {p \in Procs : exit[p] # "no"}

Process == INSTANCE OneProcess WITH ended <- Ended

OneProcessSpec == Process!ProcessSpec
=============================================================================
