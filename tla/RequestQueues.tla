--------------------------- MODULE RequestQueues ---------------------------
(***************************************************************************)
(* How the app-server of Codex runs the requests of its clients            *)
(* (codex-rs/app-server/src: the loop of lib.rs, message_processor.rs,     *)
(* request_serialization.rs, connection_rpc_gate.rs and the request        *)
(* contexts of outgoing_message.rs).                                       *)
(*                                                                         *)
(* The loop takes one event of the transport at a time.  A request with a  *)
(* key goes to the queue of the key, which one task drains; a request      *)
(* without is a task of its own.  Each runs through the gate of its        *)
(* connection.  The mutexes are held for one action each; a handler takes  *)
(* any time between its start and its end, or never ends.                  *)
(*                                                                         *)
(* Left out: what handlers do, handlers that panic, and a forced restart,  *)
(* which ends the process wherever it is.                                  *)
(***************************************************************************)
EXTENDS Integers, Sequences, FiniteSets

CONSTANTS
  MaxConnections,  \* bound: connections the transport opens
  Keys,            \* RequestSerializationQueueKey
  None,            \* no key, nothing received
  MaxRequests      \* bound: requests the transport delivers

ASSUME ConstAssumption ==
  /\ None \notin Keys
  /\ MaxConnections \in Nat
  /\ MaxRequests \in Nat

\* Both are numbered as they come to the loop.
Connections == 1 .. MaxConnections
Requests == 1 .. MaxRequests

Infos == [conn: Connections, key: Keys \cup {None}, shared: BOOLEAN]

ASSUME NoneAssumption == None \notin Infos

VARIABLES
  conn,        \* what the loop and the cleanup know of a connection
  accepting,   \* ConnectionRpcGate.accepting
  late,        \* whether the cleanup stopped waiting for the handlers
  server,      \* where the loop is
  received,    \* the requests received so far
  request,     \* what the loop knows of a request
  phase,       \* where a request is
  mapped,      \* the keys in the map RequestSerializationQueues.inner
  queues,      \* the queues in it
  tasks,       \* the drain tasks, named by the request that spawned them
  batch,       \* the requests a drain task took last
  contexts     \* OutgoingMessageSender.request_contexts

network == <<conn, accepting, late>>
serial == <<mapped, queues, tasks, batch>>
vars == <<network, server, received, request, phase, serial, contexts>>

TypeOK ==
  /\ conn \in [Connections -> {"none", "open", "ready", "closed", "gone"}]
  /\ accepting \in [Connections -> BOOLEAN]
  /\ late \in [Connections -> BOOLEAN]
  /\ server \in {"running", "stopping", "stopped"}
  /\ received \in 0 .. MaxRequests
  /\ request \in [Requests -> Infos \cup {None}]
  /\ phase \in [Requests -> {"unsent", "queued", "taken", "running", "done", "dropped"}]
  /\ mapped \subseteq Keys
  /\ queues \in [Keys -> Seq(Requests)]
  /\ tasks \subseteq Requests
  /\ batch \in [Requests -> SUBSET Requests]
  /\ contexts \subseteq Requests
  /\ \A k \in Keys \ mapped : queues[k] = << >>

Init ==
  /\ conn = [c \in Connections |-> "none"]
  /\ accepting = [c \in Connections |-> TRUE]
  /\ late = [c \in Connections |-> FALSE]
  /\ server = "running"
  /\ received = 0
  /\ request = [r \in Requests |-> None]
  /\ phase = [r \in Requests |-> "unsent"]
  /\ mapped = {}
  /\ queues = [k \in Keys |-> << >>]
  /\ tasks = {}
  /\ batch = [r \in Requests |-> {}]
  /\ contexts = {}

Over(r) == phase[r] \in {"done", "dropped"}

\* Handlers that hold a token of the gate of c.
Inflight(c) ==
  {r \in Requests : request[r] # None /\ request[r].conn = c /\ phase[r] = "running"}

-----------------------------------------------------------------------------
(* The loop                                                                *)

Open(c) ==
  /\ server = "running"
  /\ conn[c] = "none"
  /\ \A d \in 1 .. c - 1 : conn[d] # "none"
  /\ conn' = [conn EXCEPT ![c] = "open"]
  /\ UNCHANGED <<accepting, late, server, received, request, phase, serial, contexts>>

\* initialize is handled in the loop itself.
Initialize(c) ==
  /\ server = "running"
  /\ conn[c] = "open"
  /\ conn' = [conn EXCEPT ![c] = "ready"]
  /\ UNCHANGED <<accepting, late, server, received, request, phase, serial, contexts>>

\* enqueue spawns the drain task of a key that is not in the map.
Enqueue(r, k) ==
  /\ queues' = [queues EXCEPT ![k] = Append(queues[k], r)]
  /\ mapped' = mapped \cup {k}
  /\ tasks' = IF k \in mapped THEN tasks ELSE tasks \cup {r}
  /\ UNCHANGED batch

\* A request that cannot be read, needs an experimental API or comes before
\* initialize is answered with an error in the loop and leaves nothing behind.
Receive(c, k, shared) ==
  LET r == received + 1 IN
  /\ server = "running"
  /\ conn[c] = "ready"
  /\ k = None => ~shared
  /\ r \in Requests
  /\ received' = r
  /\ request' = [request EXCEPT ![r] = [conn |-> c, key |-> k, shared |-> shared]]
  /\ contexts' = contexts \cup {r}
  /\ IF k = None
     THEN /\ phase' = [phase EXCEPT ![r] = "taken"]
          /\ UNCHANGED serial
     ELSE /\ phase' = [phase EXCEPT ![r] = "queued"]
          /\ Enqueue(r, k)
  /\ UNCHANGED <<network, server>>

\* ConnectionClosed: the gate is closed before the cleanup task is spawned.
Close(c) ==
  /\ server = "running"
  /\ conn[c] \in {"open", "ready"}
  /\ conn' = [conn EXCEPT ![c] = "closed"]
  /\ accepting' = [accepting EXCEPT ![c] = FALSE]
  /\ UNCHANGED <<late, server, received, request, phase, serial, contexts>>

\* The loop ends, and shuts the gate of each connection that is left.  The
\* bound: it does so once all is there that may come.
Stop ==
  /\ server = "running"
  /\ received = MaxRequests
  /\ \A c \in Connections : conn[c] # "none"
  /\ server' = "stopping"
  /\ accepting' = [c \in Connections |-> FALSE]
  /\ UNCHANGED <<conn, late, received, request, phase, serial, contexts>>

\* Its handlers are awaited without a limit, and the cleanup tasks.
ShutDown(c) ==
  /\ conn[c] # "closed"
  /\ conn[c] \in {"open", "ready"} => Inflight(c) = {}

Stopped ==
  /\ server = "stopping"
  /\ \A c \in Connections : ShutDown(c)
  /\ server' = "stopped"
  /\ UNCHANGED <<network, received, request, phase, serial, contexts>>

-----------------------------------------------------------------------------
(* Tasks                                                                   *)

\* A batch of n: the head of the queue, with all the shared reads right behind
\* it when it is one.
TakenBug(q, n) ==
  /\ \A i \in 2 .. n : request[q[i]].shared
  /\ n < Len(q) => ~request[q[n + 1]].shared
Taken(q, n) ==
  /\ \A i \in 1 .. n : n = 1 \/ request[q[i]].shared
  /\ n < Len(q) => ~(request[q[1]].shared /\ request[q[n + 1]].shared)

\* A drain task at the top of its loop.
Draining(d) == d \in tasks /\ \A r \in batch[d] : Over(r)

TakeFirst(d, k, n) ==
  LET first == {queues[k][i] : i \in 1 .. n} IN
  /\ batch' = [batch EXCEPT ![d] = first]
  /\ queues' = [queues EXCEPT ![k] = SubSeq(queues[k], n + 1, Len(queues[k]))]
  /\ phase' = [r \in Requests |-> IF r \in first THEN "taken" ELSE phase[r]]
  /\ UNCHANGED <<network, server, received, request, mapped, tasks, contexts>>

Take(d) ==
  LET k == request[d].key IN
  /\ Draining(d)
  /\ k \in mapped
  /\ \E n \in 1 .. Len(queues[k]) : Taken(queues[k], n) /\ TakeFirst(d, k, n)

\* An empty queue is removed under the lock that found it empty.
EmptyBug(k) == TRUE
Empty(k) == k \in mapped => queues[k] = << >>

WithoutBug(k) == mapped
Without(k) == mapped \ {k}

Retire(d) ==
  LET k == request[d].key IN
  /\ Draining(d)
  /\ Empty(k)
  /\ mapped' = Without(k)
  /\ tasks' = tasks \ {d}
  /\ batch' = [batch EXCEPT ![d] = {}]
  /\ UNCHANGED <<network, server, received, request, phase, queues, contexts>>

AdmitsBug(c) == TRUE
Admits(c) == accepting[c]

\* ConnectionRpcGate::run: the token is taken under the lock of the flag.
Start(r) ==
  /\ phase[r] = "taken"
  /\ phase' = [phase EXCEPT ![r] = IF Admits(request[r].conn) THEN "running" ELSE "dropped"]
  /\ UNCHANGED <<network, server, received, request, serial, contexts>>

\* The handler answers, or leaves that to a task in the background.
End(r) ==
  /\ phase[r] = "running"
  /\ phase' = [phase EXCEPT ![r] = "done"]
  /\ \/ contexts' = contexts \ {r}
     \/ UNCHANGED contexts
  /\ UNCHANGED <<network, server, received, request, serial>>

Respond(r) ==
  /\ phase[r] = "done"
  /\ r \in contexts
  /\ contexts' = contexts \ {r}
  /\ UNCHANGED <<network, server, received, request, phase, serial>>

\* CONNECTION_RPC_DRAIN_TIMEOUT of the cleanup.
OverdueBug(c) == FALSE
Overdue(c) == Inflight(c) # {} /\ ~late[c]

DrainTimesOut(c) ==
  /\ conn[c] = "closed"
  /\ Overdue(c)
  /\ late' = [late EXCEPT ![c] = TRUE]
  /\ UNCHANGED <<conn, accepting, server, received, request, phase, serial, contexts>>

Drained(c) == Inflight(c) = {} \/ late[c]

KeptBug(c) == contexts \ {r \in Requests : request[r] # None /\ request[r].conn = c /\ Over(r)}
Kept(c) == {r \in contexts : request[r].conn # c}

CleanUp(c) ==
  /\ conn[c] = "closed"
  /\ Drained(c)
  /\ conn' = [conn EXCEPT ![c] = "gone"]
  /\ contexts' = Kept(c)
  /\ UNCHANGED <<accepting, late, server, received, request, phase, serial>>

-----------------------------------------------------------------------------
OfConnection(c) ==
  \/ Open(c) \/ Initialize(c) \/ Close(c)
  \/ DrainTimesOut(c) \/ CleanUp(c)
  \/ \E k \in Keys \cup {None}, shared \in BOOLEAN : Receive(c, k, shared)

OfRequest(r) == Take(r) \/ Retire(r) \/ Start(r) \/ End(r) \/ Respond(r)

Next ==
  \/ \E c \in Connections : OfConnection(c)
  \/ \E r \in Requests : OfRequest(r)
  \/ Stop \/ Stopped

\* The runtime polls its tasks and its timers; that a handler ends is not
\* assumed.
Fairness ==
  /\ \A r \in Requests : WF_vars(Take(r) \/ Retire(r) \/ Start(r))
  /\ \A c \in Connections : WF_vars(DrainTimesOut(c) \/ CleanUp(c))

Spec == Init /\ [][Next]_vars /\ Fairness

-----------------------------------------------------------------------------
SameKey(r1, r2) ==
  /\ request[r1] # None /\ request[r2] # None
  /\ request[r1].key # None
  /\ request[r1].key = request[r2].key

\* r1 and r2 may run together: shared reads with nothing else in between.
Together(r1, r2) ==
  \A r \in r1 .. r2 : SameKey(r1, r) => request[r].shared

\* Requests with a key are taken in the order they were received, each when the
\* ones before it are over, but for shared reads in a row; whichever queue
\* empties, is removed and is made again in between.
InOrder ==
  \A r1, r2 \in Requests :
    (r1 < r2 /\ SameKey(r1, r2) /\ phase[r2] # "queued") =>
      Over(r1) \/ (phase[r1] # "queued" /\ Together(r1, r2))

\* No handler of a connection runs once its cleanup is done, or once the loop
\* has stopped, unless the cleanup gave up waiting.
QuietAfterCleanup ==
  \A c \in Connections :
    (conn[c] = "gone" \/ server = "stopped") => Inflight(c) = {} \/ late[c]

\* The context of a request, even of one that the gate dropped or that never
\* ended, does not outlive its connection.
NoContextLeak ==
  \A r \in contexts : conn[request[r].conn] # "gone"

\* If handlers end, so does every request that was received: it is run, or
\* dropped at the gate of its connection.  No queue is left without its task.
\* (Requests are finitely many: again and again none waits.)
HandlersEnd == \A r \in Requests : WF_vars(End(r))

EveryRequestEnds ==
  HandlersEnd => []<>(\A r \in Requests : phase[r] \notin {"queued", "taken"})

\* The cleanup of a connection comes even when its handlers hang.
CleanupComes ==
  []<>(\A c \in Connections : conn[c] # "closed")
-----------------------------------------------------------------------------
\* Queues that come and go, with a drain task each, behave like one schedule: a
\* request with a key begins when all that came before it with that key are over,
\* or together with the shared reads in front of it, and runs only while the
\* gate of its connection is open.
Ordered == INSTANCE OrderedExecution WITH
  closed <- {c \in Connections : ~accepting[c]}

OrderedExecutionSpec == Ordered!OrderedSpec
=============================================================================
