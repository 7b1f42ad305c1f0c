------------------------ MODULE RequestQueuesProofs ------------------------
(***************************************************************************)
(* Proofs about RequestQueues, for any keys, connections and requests.     *)
(***************************************************************************)
EXTENDS RequestQueues, SequenceTheorems, TLAPS

\* The requests received are the first ones, and nothing speaks of others.
Known ==
  /\ \A r \in Requests :
       /\ (r > received) <=> (request[r] = None)
       /\ (phase[r] = "unsent") <=> (request[r] = None)
  /\ \A r \in contexts : request[r] # None
  /\ \A d \in tasks : request[d] # None /\ request[d].key # None
  /\ \A k \in Keys : \A i \in 1 .. Len(queues[k]) : request[queues[k][i]] # None

TypeInv == TypeOK /\ Known

\* The gate of a connection is closed before its cleanup begins, those that are
\* left when the loop ends; requests come only from connections that opened.
GatesClose ==
  /\ \A c \in Connections : conn[c] \in {"closed", "gone"} => ~accepting[c]
  /\ server # "running" => \A c \in Connections : ~accepting[c]
  /\ \A r \in Requests : request[r] # None => conn[request[r].conn] \notin {"none", "open"}

GateInv == GatesClose /\ QuietAfterCleanup /\ NoContextLeak

\* A drain task has a key of the map to itself.
TasksOwnKeys ==
  /\ \A d \in tasks : request[d].key \in mapped
  /\ \A d1, d2 \in tasks : request[d1].key = request[d2].key => d1 = d2

\* A queue holds the requests of its key that wait, in the order they came.
QueuesOrdered ==
  \A k \in Keys :
    /\ \A i \in 1 .. Len(queues[k]) :
         phase[queues[k][i]] = "queued" /\ request[queues[k][i]].key = k
    /\ \A i, j \in 1 .. Len(queues[k]) : i < j => queues[k][i] < queues[k][j]

QueuedInQueue ==
  \A r \in Requests :
    phase[r] = "queued" =>
      /\ request[r].key \in Keys
      /\ \E i \in 1 .. Len(queues[request[r].key]) : queues[request[r].key][i] = r

\* What was taken and is not over is in the batch of the task of its key.
Active(r) == phase[r] \in {"taken", "running"}

ActiveInBatch ==
  \A r \in Requests :
    (Active(r) /\ request[r].key # None) =>
      \E d \in tasks : request[d].key = request[r].key /\ r \in batch[d]

SerialInv == TasksOwnKeys /\ QueuesOrdered /\ QueuedInQueue /\ ActiveInBatch /\ InOrder

-----------------------------------------------------------------------------
(* Types                                                                   *)

LEMMA Bounds ==
  /\ Requests \subseteq Nat /\ \A r \in Nat : r \in Requests <=> 1 <= r /\ r <= MaxRequests
  /\ MaxRequests \in Nat
  /\ None \notin Infos /\ None \notin Keys
BY ConstAssumption, NoneAssumption DEF Requests

LEMMA InitType == Init => TypeInv
<1>1. ASSUME Init PROVE TypeOK
  BY <1>1, Bounds DEF Init, TypeOK
<1>2. ASSUME Init PROVE Known
  BY <1>2, Bounds DEF Init, Known
<1>. QED
  BY <1>1, <1>2 DEF TypeInv

LEMMA ReceiveType ==
  ASSUME TypeInv, NEW c \in Connections, NEW k \in Keys \cup {None},
         NEW shared \in BOOLEAN, Receive(c, k, shared)
  PROVE  TypeInv'
<1>. DEFINE r == received + 1
            info == [conn |-> c, key |-> k, shared |-> shared]
<1>. USE Bounds DEF TypeInv
<1>1. r \in Requests /\ r > received /\ received' = r
  BY DEF Receive, TypeOK
<1>2. info \in Infos /\ info # None
  BY DEF Infos
<1>3. request' = [request EXCEPT ![r] = info] /\ contexts' = contexts \cup {r}
  BY DEF Receive
<1>4. /\ phase' \in [Requests -> {"unsent", "queued", "taken", "running", "done", "dropped"}]
      /\ \A s \in Requests : s # r => phase'[s] = phase[s]
      /\ phase'[r] # "unsent"
  <2>1. \/ phase' = [phase EXCEPT ![r] = "taken"]
        \/ phase' = [phase EXCEPT ![r] = "queued"]
    BY DEF Receive
  <2>2. phase \in [Requests -> {"unsent", "queued", "taken", "running", "done", "dropped"}]
    BY DEF TypeOK
  <2>. QED
    BY <1>1, <2>1, <2>2
<1>5. /\ queues' \in [Keys -> Seq(Requests)] /\ mapped' \subseteq Keys
      /\ \A l \in Keys \ mapped' : queues'[l] = << >>
      /\ \A l \in Keys : \A i \in 1 .. Len(queues'[l]) : request'[queues'[l][i]] # None
  <2>1. /\ queues \in [Keys -> Seq(Requests)] /\ mapped \subseteq Keys
        /\ \A l \in Keys \ mapped : queues[l] = << >>
        /\ \A l \in Keys : \A i \in 1 .. Len(queues[l]) : request[queues[l][i]] # None
    BY DEF TypeOK, Known
  <2>2. \A s \in Requests : request'[s] = IF s = r THEN info ELSE request[s]
    BY <1>3 DEF TypeOK
  <2>3. CASE k = None
    <3>1. mapped' = mapped /\ queues' = queues
      BY <2>3 DEF Receive, serial
    <3>2. \A l \in Keys : \A i \in 1 .. Len(queues[l]) : queues[l][i] \in Requests
      BY <2>1
    <3>. QED
      BY <3>1, <3>2, <2>1, <2>2, <1>2
  <2>4. CASE k # None
    <3>1. mapped' = mapped \cup {k} /\ queues' = [queues EXCEPT ![k] = Append(queues[k], r)]
      BY <2>4 DEF Receive, Enqueue
    <3>2. k \in Keys /\ queues[k] \in Seq(Requests)
      BY <2>4, <2>1
    <3>3. Append(queues[k], r) \in Seq(Requests)
      BY <3>2, <1>1
    <3>4. \A i \in 1 .. Len(Append(queues[k], r)) : request'[Append(queues[k], r)[i]] # None
      BY <3>2, <1>1, <1>2, <2>1, <2>2
    <3>5. \A l \in Keys : \A i \in 1 .. Len(queues[l]) : queues[l][i] \in Requests
      BY <2>1
    <3>6. \A l \in Keys : \A i \in 1 .. Len(queues'[l]) : request'[queues'[l][i]] # None
      <4> SUFFICES ASSUME NEW l \in Keys, NEW i \in 1 .. Len(queues'[l])
                   PROVE  request'[queues'[l][i]] # None
        OBVIOUS
      <4>1. CASE l = k
        <5>1. queues'[k] = Append(queues[k], r)
          BY <3>1, <3>2, <2>1
        <5>. QED
          BY <4>1, <5>1, <3>4
      <4>2. CASE l # k
        <5>1. queues'[l] = queues[l]
          BY <4>2, <3>1, <2>1
        <5>. QED
          <6>1. i \in 1 .. Len(queues[l])
            BY <5>1
          <6>2. queues[l][i] \in Requests /\ request[queues[l][i]] # None
            BY <6>1, <3>5, <2>1
          <6>. QED
            BY <5>1, <6>2, <2>2, <1>2
      <4>. QED
        BY <4>1, <4>2
    <3>. QED
      BY <3>1, <3>2, <3>3, <3>6, <2>1
  <2>. QED
    BY <2>3, <2>4
<1>6. tasks' \subseteq Requests /\ batch' = batch /\ (tasks' = tasks \/ (k # None /\ tasks' = tasks \cup {r}))
  <2>1. tasks \subseteq Requests
    BY DEF TypeOK
  <2>2. CASE k = None
    BY <2>1, <2>2 DEF Receive, serial
  <2>3. CASE k # None
    <3>1. Enqueue(r, k)
      BY <2>3 DEF Receive
    <3>. QED
      BY <3>1, <2>1, <2>3, <1>1 DEF Enqueue
  <2>. QED
    BY <2>2, <2>3
<1>7. TypeOK'
  BY <1>1, <1>2, <1>3, <1>4, <1>5, <1>6 DEF Receive, TypeOK, network
<1>8. Known'
  <2>1. \A s \in Requests :
          /\ (s > received') <=> (request'[s] = None)
          /\ (phase'[s] = "unsent") <=> (request'[s] = None)
    <3> SUFFICES ASSUME NEW s \in Requests
                 PROVE  /\ (s > received') <=> (request'[s] = None)
                        /\ (phase'[s] = "unsent") <=> (request'[s] = None)
      OBVIOUS
    <3>1. /\ (s > received) <=> (request[s] = None)
          /\ (phase[s] = "unsent") <=> (request[s] = None)
          /\ received \in Nat /\ s \in Nat
      BY DEF Known, TypeOK
    <3>2. request'[s] = IF s = r THEN info ELSE request[s]
      BY <1>3 DEF TypeOK
    <3>3. CASE s = r
      BY <3>2, <3>3, <1>1, <1>2, <1>4
    <3>4. CASE s # r
      BY <3>1, <3>2, <3>4, <1>1, <1>4
    <3>. QED
      BY <3>3, <3>4
  <2>2. \A s \in contexts' : request'[s] # None
    BY <1>1, <1>2, <1>3 DEF TypeOK, Known
  <2>3. \A d \in tasks' : request'[d] # None /\ request'[d].key # None
    BY <1>1, <1>2, <1>3, <1>6 DEF TypeOK, Known
  <2>. QED
    BY <1>5, <2>1, <2>2, <2>3 DEF Known
<1>. QED
  BY <1>7, <1>8

\* What is in a queue are requests, and keys of tasks are keys.
LEMMA TaskKey ==
  ASSUME TypeInv, NEW d \in tasks
  PROVE  request[d] \in Infos /\ request[d].key \in Keys
BY DEF TypeInv, TypeOK, Known, Infos

LEMMA TakeType ==
  ASSUME TypeInv, NEW d \in Requests, Take(d)
  PROVE  TypeInv'
<1>. DEFINE k == request[d].key
<1>. USE Bounds DEF TypeInv
<1>1. d \in tasks /\ k \in Keys /\ k \in mapped
  BY TaskKey DEF Take, Draining
<1>2. PICK n \in 1 .. Len(queues[k]) : TakeFirst(d, k, n)
  BY DEF Take
<1>. DEFINE first == {queues[k][i] : i \in 1 .. n}
<1>3. queues[k] \in Seq(Requests)
  BY <1>1 DEF TypeOK
<1>4. first \subseteq Requests
  BY <1>3
<1>5. SubSeq(queues[k], n + 1, Len(queues[k])) \in Seq(Requests)
  BY <1>3
<1>6. queues' \in [Keys -> Seq(Requests)]
  BY <1>1, <1>2, <1>5 DEF TakeFirst, TypeOK
<1>7. TypeOK'
  BY <1>1, <1>2, <1>4, <1>6 DEF TakeFirst, TypeOK, network
<1>8. Known'
  <2>1. request' = request /\ received' = received /\ contexts' = contexts /\ tasks' = tasks
    BY <1>2 DEF TakeFirst
  <2>2. \A r \in first : request[r] # None
    BY <1>1 DEF Known
  <2>3. \A r \in Requests : phase'[r] = IF r \in first THEN "taken" ELSE phase[r]
    BY <1>2 DEF TakeFirst
  <2>4. \A i \in 1 .. Len(queues'[k]) : request[queues'[k][i]] # None
    <3>1. queues'[k] = SubSeq(queues[k], n + 1, Len(queues[k]))
      BY <1>1, <1>2 DEF TakeFirst, TypeOK
    <3>2. Len(queues[k]) \in Nat /\ Len(queues'[k]) = Len(queues[k]) - n
      BY <1>3, <3>1
    <3>3. \A i \in 1 .. Len(queues'[k]) :
            n + i \in 1 .. Len(queues[k]) /\ queues'[k][i] = queues[k][n + i]
      BY <1>3, <3>1, <3>2
    <3>4. \A i \in 1 .. Len(queues[k]) : request[queues[k][i]] # None
      BY <1>1 DEF Known
    <3>. QED
      BY <3>3, <3>4
  <2>5. \A l \in Keys : l # k => queues'[l] = queues[l]
    BY <1>2 DEF TakeFirst, TypeOK
  <2>6. \A l \in Keys : \A i \in 1 .. Len(queues'[l]) : request[queues'[l][i]] # None
    <3> SUFFICES ASSUME NEW l \in Keys, NEW i \in 1 .. Len(queues'[l])
                 PROVE  request[queues'[l][i]] # None
      OBVIOUS
    <3>1. CASE l = k
      BY <2>4, <3>1
    <3>2. CASE l # k
      BY <2>5, <3>2 DEF Known
    <3>. QED
      BY <3>1, <3>2
  <2>7. \A r \in Requests :
          /\ (r > received) <=> (request[r] = None)
          /\ (phase'[r] = "unsent") <=> (request[r] = None)
    BY <2>2, <2>3 DEF Known
  <2>. QED
    BY <2>1, <2>6, <2>7 DEF Known
<1>. QED
  BY <1>7, <1>8

LEMMA RetireType ==
  ASSUME TypeInv, NEW d \in Requests, Retire(d)
  PROVE  TypeInv'
<1>1. request[d].key \in mapped => queues[request[d].key] = << >>
  BY DEF Retire, Empty
<1>2. \A l \in Keys \ mapped' : queues[l] = << >>
  BY <1>1 DEF Retire, Without, TypeInv, TypeOK
<1>3. TypeOK'
  BY <1>2 DEF Retire, Without, TypeInv, TypeOK, network
<1>. QED
  BY <1>3 DEF Retire, TypeInv, Known

LEMMA RequestType ==
  ASSUME TypeInv, NEW r \in Requests, Start(r) \/ End(r) \/ Respond(r)
  PROVE  TypeInv'
<1>1. UNCHANGED <<network, server, received, request, serial>>
  BY DEF Start, End, Respond
<1>2. /\ phase' \in [Requests -> {"unsent", "queued", "taken", "running", "done", "dropped"}]
      /\ \A s \in Requests : phase[s] = "unsent" <=> phase'[s] = "unsent"
      /\ contexts' \subseteq contexts
  BY DEF Start, End, Respond, TypeInv, TypeOK
<1>3. TypeOK'
  BY <1>1, <1>2 DEF TypeInv, TypeOK, network, serial
<1>. QED
  BY <1>1, <1>2, <1>3 DEF TypeInv, Known, TypeOK, serial

LEMMA ConnectionType ==
  ASSUME TypeInv,
         \/ Stop \/ Stopped
         \/ \E c \in Connections :
              Open(c) \/ Initialize(c) \/ Close(c) \/ DrainTimesOut(c) \/ CleanUp(c)
  PROVE  TypeInv'
<1>1. UNCHANGED <<received, request, phase, serial>> /\ contexts' \subseteq contexts
  BY DEF Stop, Stopped, Open, Initialize, Close, DrainTimesOut, CleanUp, Kept, network
<1>2. /\ conn' \in [Connections -> {"none", "open", "ready", "closed", "gone"}]
      /\ accepting' \in [Connections -> BOOLEAN]
      /\ late' \in [Connections -> BOOLEAN]
      /\ server' \in {"running", "stopping", "stopped"}
  BY DEF Stop, Stopped, Open, Initialize, Close, DrainTimesOut, CleanUp, network,
         TypeInv, TypeOK
<1>3. TypeOK'
  BY <1>1, <1>2 DEF TypeInv, TypeOK, serial
<1>. QED
  BY <1>1, <1>3 DEF TypeInv, Known, serial

LEMMA StutterType == TypeInv /\ UNCHANGED vars => TypeInv'
BY DEF TypeInv, TypeOK, Known, vars, network, serial

LEMMA StepType == TypeInv /\ [Next]_vars => TypeInv'
<1> SUFFICES ASSUME TypeInv, [Next]_vars PROVE TypeInv'
  OBVIOUS
<1>1. CASE UNCHANGED vars
  BY <1>1, StutterType
<1>2. ASSUME NEW c \in Connections, OfConnection(c) PROVE TypeInv'
  BY <1>2, ConnectionType, ReceiveType DEF OfConnection
<1>3. ASSUME NEW r \in Requests, OfRequest(r) PROVE TypeInv'
  BY <1>3, TakeType, RetireType, RequestType DEF OfRequest
<1>4. CASE Stop \/ Stopped
  BY <1>4, ConnectionType
<1>. QED
  BY <1>1, <1>2, <1>3, <1>4 DEF Next

\* Every variable keeps its type, and a key that is not in the map has no queue,
\* whatever drain task removes it (RequestSerializationQueues).
THEOREM TypeCorrect == Spec => []TypeOK
<1>1. TypeInv => TypeOK
  BY DEF TypeInv
<1>. QED
  BY InitType, StepType, <1>1, PTL DEF Spec

-----------------------------------------------------------------------------
(* Gates and cleanups                                                      *)

LEMMA InitGate == Init => GateInv
BY Bounds DEF Init, GateInv, GatesClose, QuietAfterCleanup, NoContextLeak, Inflight

\* A step of a connection leaves the handlers alone.
LEMMA InflightSame ==
  ASSUME UNCHANGED <<request, phase>>, NEW c
  PROVE  Inflight(c)' = Inflight(c)
BY DEF Inflight

LEMMA LoopGate ==
  ASSUME TypeInv, GateInv,
         \/ Stop \/ Stopped
         \/ \E c \in Connections :
              Open(c) \/ Initialize(c) \/ Close(c) \/ DrainTimesOut(c) \/ CleanUp(c)
  PROVE  GateInv'
<1>1. UNCHANGED <<request, phase>>
  BY DEF Stop, Stopped, Open, Initialize, Close, DrainTimesOut, CleanUp, network
<1>2. \A c : Inflight(c)' = Inflight(c)
  BY <1>1, InflightSame
<1>. USE <1>1, <1>2 DEF GateInv, TypeInv, TypeOK
<1>3. ASSUME NEW r \in Requests, request[r] # None
      PROVE  request[r].conn \in Connections
  BY <1>3 DEF Infos
<1>4. \A r \in contexts : request[r] # None
  BY DEF Known
<1>5. CASE Stop
  BY <1>5, <1>3, <1>4 DEF Stop, GatesClose, QuietAfterCleanup, NoContextLeak
<1>6. CASE Stopped
  <2>1. \A c \in Connections : conn[c] # "none" => Inflight(c) = {} \/ late[c]
    BY <1>6 DEF Stopped, ShutDown, QuietAfterCleanup
  <2>2. \A c \in Connections : conn[c] = "none" => Inflight(c) = {}
    BY DEF GatesClose, Inflight
  <2>. QED
    BY <1>6, <2>1, <2>2 DEF Stopped, GatesClose, QuietAfterCleanup, NoContextLeak, network
<1>7. ASSUME NEW c \in Connections, Open(c) \/ Initialize(c) \/ Close(c)
      PROVE  GateInv'
  <2>1. GatesClose'
    BY <1>7, <1>3 DEF Open, Initialize, Close, GatesClose
  <2>2. QuietAfterCleanup' /\ NoContextLeak'
    BY <1>7, <1>3, <1>4 DEF Open, Initialize, Close, QuietAfterCleanup, NoContextLeak
  <2>. QED
    BY <2>1, <2>2
<1>8. ASSUME NEW c \in Connections, DrainTimesOut(c) \/ CleanUp(c)
      PROVE  GateInv'
  <2>1. GatesClose'
    BY <1>8, <1>3 DEF DrainTimesOut, CleanUp, GatesClose
  <2>2. QuietAfterCleanup'
    BY <1>8 DEF DrainTimesOut, CleanUp, Drained, QuietAfterCleanup
  <2>3. NoContextLeak'
    BY <1>8, <1>3, <1>4 DEF DrainTimesOut, CleanUp, Kept, NoContextLeak
  <2>. QED
    BY <2>1, <2>2, <2>3
<1>. QED
  BY <1>5, <1>6, <1>7, <1>8

LEMMA ReceiveGate ==
  ASSUME TypeInv, GateInv, NEW c \in Connections, NEW k \in Keys \cup {None},
         NEW shared \in BOOLEAN, Receive(c, k, shared)
  PROVE  GateInv'
<1>. DEFINE r == received + 1
            info == [conn |-> c, key |-> k, shared |-> shared]
<1>. USE DEF TypeInv
<1>1. /\ server = "running" /\ conn[c] = "ready" /\ r \in Requests /\ r > received
      /\ contexts' = contexts \cup {r}
      /\ UNCHANGED <<conn, accepting, late, server>>
  BY Bounds DEF Receive, TypeOK, network
<1>2. /\ info \in Infos /\ info # None /\ info.conn = c
      /\ \A s \in Requests : request'[s] = IF s = r THEN info ELSE request[s]
  BY NoneAssumption DEF Receive, TypeOK, Infos
<1>3. \A s \in Requests : phase'[s] = "running" => s # r /\ phase[s] = "running"
  <2>1. \/ phase' = [phase EXCEPT ![r] = "taken"]
        \/ phase' = [phase EXCEPT ![r] = "queued"]
    BY DEF Receive
  <2>2. phase \in [Requests -> {"unsent", "queued", "taken", "running", "done", "dropped"}]
    BY DEF TypeOK
  <2>. QED
    BY <1>1, <2>1, <2>2
<1>4. \A d \in Connections : Inflight(d)' \subseteq Inflight(d)
  BY <1>2, <1>3 DEF Inflight
<1>5. GatesClose'
  BY <1>1, <1>2 DEF GateInv, GatesClose
<1>6. QuietAfterCleanup'
  BY <1>1, <1>4 DEF GateInv, QuietAfterCleanup
<1>7. NoContextLeak'
  BY <1>1, <1>2 DEF GateInv, NoContextLeak, TypeOK
<1>. QED
  BY <1>5, <1>6, <1>7 DEF GateInv

\* A handler starts only behind an open gate.
LEMMA RequestGate ==
  ASSUME TypeInv, GateInv, NEW r \in Requests, OfRequest(r)
  PROVE  GateInv'
<1>. USE DEF TypeInv
<1>1. UNCHANGED <<conn, accepting, late, server, request>> /\ contexts' \subseteq contexts
  BY DEF OfRequest, Take, TakeFirst, Retire, Start, End, Respond, network
<1>2. GatesClose' /\ NoContextLeak'
  BY <1>1 DEF GateInv, GatesClose, NoContextLeak
<1>3. \A s \in Requests :
        phase'[s] = "running" => phase[s] = "running" \/ (phase[s] = "taken" /\ Admits(request[s].conn))
  BY DEF OfRequest, Take, TakeFirst, Retire, Start, End, Respond, TypeOK
<1>4. \A c \in Connections : accepting[c] \/ Inflight(c)' \subseteq Inflight(c)
  BY <1>1, <1>3 DEF Inflight, Admits
<1>5. QuietAfterCleanup'
  BY <1>1, <1>4 DEF GateInv, GatesClose, QuietAfterCleanup
<1>. QED
  BY <1>2, <1>5 DEF GateInv

LEMMA StepGate == TypeInv /\ GateInv /\ [Next]_vars => GateInv'
<1> SUFFICES ASSUME TypeInv, GateInv, [Next]_vars PROVE GateInv'
  OBVIOUS
<1>1. CASE UNCHANGED vars
  BY <1>1 DEF vars, network, GateInv, GatesClose, QuietAfterCleanup, NoContextLeak, Inflight
<1>2. ASSUME NEW c \in Connections, OfConnection(c) PROVE GateInv'
  BY <1>2, LoopGate, ReceiveGate DEF OfConnection
<1>3. ASSUME NEW r \in Requests, OfRequest(r) PROVE GateInv'
  BY <1>3, RequestGate
<1>4. CASE Stop \/ Stopped
  BY <1>4, LoopGate
<1>. QED
  BY <1>1, <1>2, <1>3, <1>4 DEF Next

\* No handler runs for a connection that is cleaned up, unless the cleanup gave
\* up waiting, and none for the others once the loop has stopped
\* (ConnectionRpcGate, run_connection_cleanup); and no context of a request
\* outlives the connection (OutgoingMessageSender::connection_closed).
THEOREM CleanupIsFinal == Spec => [](QuietAfterCleanup /\ NoContextLeak)
<1>1. Init => TypeInv /\ GateInv
  BY InitType, InitGate
<1>2. TypeInv /\ GateInv /\ [Next]_vars => (TypeInv /\ GateInv)'
  BY StepType, StepGate
<1>3. TypeInv /\ GateInv => QuietAfterCleanup /\ NoContextLeak
  BY DEF GateInv
<1>. QED
  BY <1>1, <1>2, <1>3, PTL DEF Spec

\* In particular no context of a request outlives its connection.
THEOREM ContextsDropped == Spec => []NoContextLeak
BY CleanupIsFinal, PTL

-----------------------------------------------------------------------------
(* Order                                                                   *)

LEMMA InitSerial == Init => SerialInv
<1> SUFFICES ASSUME Init PROVE SerialInv
  OBVIOUS
<1>1. TasksOwnKeys /\ QueuedInQueue /\ ActiveInBatch
  BY DEF Init, TasksOwnKeys, QueuedInQueue, ActiveInBatch, Active
<1>2. QueuesOrdered
  BY DEF Init, QueuesOrdered
<1>3. InOrder
  BY DEF Init, InOrder, SameKey
<1>. QED
  BY <1>1, <1>2, <1>3 DEF SerialInv

LEMMA QueueOfRequests ==
  ASSUME TypeInv, NEW k \in Keys
  PROVE  /\ queues[k] \in Seq(Requests) /\ Len(queues[k]) \in Nat
         /\ \A i \in 1 .. Len(queues[k]) : queues[k][i] \in Requests
<1>1. queues[k] \in Seq(Requests)
  BY DEF TypeInv, TypeOK
<1>. QED
  BY <1>1

\* A step that only moves requests that were taken towards their end.
LEMMA ForwardSerial ==
  ASSUME TypeInv, SerialInv,
         UNCHANGED <<request, serial>>,
         \A r \in Requests :
           /\ phase'[r] = "queued" <=> phase[r] = "queued"
           /\ Active(r)' => Active(r)
           /\ Over(r) => Over(r)'
  PROVE  SerialInv'
<1>1. UNCHANGED <<request, mapped, queues, tasks, batch>>
  BY DEF serial
<1>2. TasksOwnKeys'
  BY <1>1 DEF SerialInv, TasksOwnKeys
<1>3. QueuesOrdered'
  BY <1>1, QueueOfRequests DEF SerialInv, QueuesOrdered
<1>4. QueuedInQueue'
  BY <1>1 DEF SerialInv, QueuedInQueue
<1>5. ActiveInBatch'
  BY <1>1 DEF SerialInv, ActiveInBatch
<1>6. InOrder'
  BY <1>1 DEF SerialInv, InOrder, SameKey, Together
<1>. QED
  BY <1>2, <1>3, <1>4, <1>5, <1>6 DEF SerialInv

LEMMA RequestSerial ==
  ASSUME TypeInv, SerialInv, NEW r \in Requests, Start(r) \/ End(r) \/ Respond(r)
  PROVE  SerialInv'
<1>1. UNCHANGED <<request, serial>>
  BY DEF Start, End, Respond
<1>2. \A s \in Requests :
        \/ phase'[s] = phase[s]
        \/ phase[s] = "taken" /\ phase'[s] \in {"running", "dropped"}
        \/ phase[s] = "running" /\ phase'[s] = "done"
  BY DEF Start, End, Respond, TypeInv, TypeOK
<1>3. \A s \in Requests :
        /\ phase'[s] = "queued" <=> phase[s] = "queued"
        /\ Active(s)' => Active(s)
        /\ Over(s) => Over(s)'
  BY <1>2 DEF Active, Over
<1>. QED
  BY <1>1, <1>3, ForwardSerial

LEMMA FrameSerial ==
  ASSUME TypeInv, SerialInv, UNCHANGED <<request, phase, serial>>
  PROVE  SerialInv'
<1>1. \A s \in Requests :
        /\ phase'[s] = "queued" <=> phase[s] = "queued"
        /\ Active(s)' => Active(s)
        /\ Over(s) => Over(s)'
  BY DEF Active, Over
<1>. QED
  BY <1>1, ForwardSerial

LEMMA RetireSerial ==
  ASSUME TypeInv, SerialInv, NEW d \in Requests, Retire(d)
  PROVE  SerialInv'
<1>1. /\ UNCHANGED <<request, phase, queues>>
      /\ d \in tasks /\ tasks' = tasks \ {d}
      /\ mapped' = mapped \ {request[d].key}
      /\ \A r \in batch[d] : Over(r)
      /\ \A t \in tasks' : batch'[t] = batch[t]
  BY DEF Retire, Draining, Without, TypeInv, TypeOK
<1>2. TasksOwnKeys'
  BY <1>1 DEF SerialInv, TasksOwnKeys
<1>3. QueuesOrdered' /\ QueuedInQueue'
  BY <1>1 DEF SerialInv, QueuesOrdered, QueuedInQueue
<1>4. ActiveInBatch'
  BY <1>1 DEF SerialInv, ActiveInBatch, Active, Over
<1>5. InOrder'
  BY <1>1 DEF SerialInv, InOrder, SameKey, Together, Over
<1>. QED
  BY <1>2, <1>3, <1>4, <1>5 DEF SerialInv

\* What is received comes behind all that was.
LEMMA ReceiveSerial ==
  ASSUME TypeInv, SerialInv, NEW c \in Connections, NEW k \in Keys \cup {None},
         NEW shared \in BOOLEAN, Receive(c, k, shared)
  PROVE  SerialInv'
<1>. DEFINE r == received + 1
            info == [conn |-> c, key |-> k, shared |-> shared]
            Earlier(s) == s \in Requests /\ request[s] # None
<1>1. r \in Requests /\ request[r] = None /\ received \in Nat
  BY DEF Receive, TypeInv, TypeOK, Known
<1>2. /\ info \in Infos /\ info # None /\ info.key = k /\ info.shared = shared
      /\ \A s \in Requests : request'[s] = IF s = r THEN info ELSE request[s]
  BY NoneAssumption DEF Receive, TypeInv, TypeOK, Infos
<1>3. /\ \A s \in Requests : s # r => phase'[s] = phase[s]
      /\ phase'[r] = IF k = None THEN "taken" ELSE "queued"
  <2>1. phase' = [phase EXCEPT ![r] = IF k = None THEN "taken" ELSE "queued"]
    BY DEF Receive
  <2>. QED
    BY <1>1, <2>1 DEF TypeInv, TypeOK
<1>0. \A s \in Requests : s \in Nat /\ (s > received <=> request[s] = None)
  BY Bounds DEF TypeInv, Known
<1>4. \A s : Earlier(s) => s # r /\ s < r /\ request'[s] = request[s] /\ phase'[s] = phase[s]
  BY <1>0, <1>1, <1>2, <1>3
<1>5. \A s \in Requests : ~Earlier(s) => s = r \/ (s > r /\ request'[s] = None)
  BY <1>0, <1>1, <1>2
<1>6. \A s \in Requests : phase[s] # "unsent" <=> Earlier(s)
  BY DEF TypeInv, Known
<1>7. \A d \in tasks : Earlier(d)
  BY DEF TypeInv, TypeOK, Known
<1>8. \A l \in Keys : \A i \in 1 .. Len(queues[l]) : Earlier(queues[l][i])
  BY QueueOfRequests DEF TypeInv, Known
<1>9. InOrder'
  <2> SUFFICES ASSUME NEW r1 \in Requests, NEW r2 \in Requests,
                      r1 < r2, SameKey(r1, r2)', phase'[r2] # "queued"
               PROVE  Over(r1)' \/ (phase'[r1] # "queued" /\ Together(r1, r2)')
    BY DEF InOrder
  <2>1. r2 # r
    BY <1>2, <1>3 DEF SameKey
  <2>2. Earlier(r2) /\ Earlier(r1)
    <3>1. request'[r1] # None /\ request'[r2] # None
      BY DEF SameKey
    <3>2. r1 \in Nat /\ r2 \in Nat
      BY <1>0
    <3>. QED
      BY <3>1, <3>2, <2>1, <1>1, <1>4, <1>5
  <2>3. \A s \in r1 .. r2 : Earlier(s) /\ s # r
    <3>1. \A s \in r1 .. r2 : s \in Requests /\ s <= r2
      BY Bounds
    <3>2. r2 <= received
      BY <2>2, <1>0, <1>1
    <3>. QED
      BY <3>1, <3>2, <1>0, <1>1
  <2>4. SameKey(r1, r2)
    BY <2>2, <1>4 DEF SameKey
  <2>5. Over(r1) \/ (phase[r1] # "queued" /\ Together(r1, r2))
    BY <2>2, <2>4, <1>4 DEF SerialInv, InOrder
  <2>6. Together(r1, r2) => Together(r1, r2)'
    BY <2>2, <2>3, <1>4 DEF Together, SameKey
  <2>. QED
    BY <2>2, <2>5, <2>6, <1>4 DEF Over
<1>10. CASE k = None
  <2>1. UNCHANGED <<mapped, queues, tasks, batch>>
    BY <1>10 DEF Receive, serial
  <2>2. TasksOwnKeys'
    BY <2>1, <1>4, <1>7 DEF SerialInv, TasksOwnKeys
  <2>3. QueuesOrdered'
    BY <2>1, <1>4, <1>8 DEF SerialInv, QueuesOrdered
  <2>4. QueuedInQueue'
    BY <1>10, <2>1, <1>3, <1>4, <1>6 DEF SerialInv, QueuedInQueue
  <2>5. ActiveInBatch'
    BY <1>10, <2>1, <1>2, <1>3, <1>4, <1>6, <1>7 DEF SerialInv, ActiveInBatch, Active
  <2>. QED
    BY <1>9, <2>2, <2>3, <2>4, <2>5 DEF SerialInv
<1>11. CASE k # None
  <2>1. /\ k \in Keys
        /\ queues[k] \in Seq(Requests)
        /\ mapped' = mapped \cup {k} /\ batch' = batch
        /\ queues'[k] = Append(queues[k], r)
        /\ \A l \in Keys : l # k => queues'[l] = queues[l]
        /\ tasks' = IF k \in mapped THEN tasks ELSE tasks \cup {r}
    BY <1>11 DEF Receive, Enqueue, TypeInv, TypeOK
  <2>2. TasksOwnKeys'
    <3>1. /\ \A d \in tasks : request'[d] = request[d] /\ request[d].key \in mapped
          /\ \A d1, d2 \in tasks : request[d1].key = request[d2].key => d1 = d2
          /\ request'[r].key = k
      BY <1>1, <1>2, <1>4, <1>7 DEF SerialInv, TasksOwnKeys
    <3>. QED
      BY <3>1, <2>1 DEF TasksOwnKeys
  <2>3. /\ Len(queues'[k]) = Len(queues[k]) + 1 /\ Len(queues[k]) \in Nat
        /\ \A i \in 1 .. Len(queues[k]) : queues'[k][i] = queues[k][i]
        /\ queues'[k][Len(queues[k]) + 1] = r
    BY <2>1, <1>1
  <2>4. QueuesOrdered'
    <3>1. \A i \in 1 .. Len(queues'[k]) :
            phase'[queues'[k][i]] = "queued" /\ request'[queues'[k][i]].key = k
      BY <1>11, <2>1, <2>3, <1>1, <1>2, <1>3, <1>4, <1>8 DEF SerialInv, QueuesOrdered
    <3>2. ASSUME NEW i \in 1 .. Len(queues'[k]), NEW j \in 1 .. Len(queues'[k]), i < j
          PROVE  queues'[k][i] < queues'[k][j]
      BY <3>2, <2>1, <2>3, <1>4, <1>8 DEF SerialInv, QueuesOrdered
    <3>3. ASSUME NEW l \in Keys, l # k
          PROVE  /\ \A i \in 1 .. Len(queues'[l]) :
                      phase'[queues'[l][i]] = "queued" /\ request'[queues'[l][i]].key = l
                 /\ \A i, j \in 1 .. Len(queues'[l]) :
                      i < j => queues'[l][i] < queues'[l][j]
      BY <3>3, <2>1, <1>4, <1>8 DEF SerialInv, QueuesOrdered
    <3>. QED
      BY <3>1, <3>2, <3>3 DEF QueuesOrdered
  <2>5. QueuedInQueue'
    <3> SUFFICES ASSUME NEW s \in Requests, phase'[s] = "queued"
                 PROVE  /\ request'[s].key \in Keys
                        /\ \E i \in 1 .. Len(queues'[request'[s].key]) :
                             queues'[request'[s].key][i] = s
      BY DEF QueuedInQueue
    <3>1. CASE s = r
      BY <3>1, <1>2, <2>1, <2>3
    <3>2. CASE s # r
      <4>1. Earlier(s) /\ phase[s] = "queued" /\ request'[s] = request[s]
        BY <3>2, <1>2, <1>3, <1>6
      <4>2. /\ request[s].key \in Keys
            /\ \E i \in 1 .. Len(queues[request[s].key]) : queues[request[s].key][i] = s
        BY <4>1 DEF SerialInv, QueuedInQueue
      <4>3. CASE request[s].key = k
        BY <4>1, <4>2, <4>3, <2>3
      <4>4. CASE request[s].key # k
        BY <4>1, <4>2, <4>4, <2>1
      <4>. QED
        BY <4>3, <4>4
    <3>. QED
      BY <3>1, <3>2
  <2>6. ActiveInBatch'
    <3>1. \A s \in Requests : Active(s)' => Earlier(s) /\ Active(s) /\ request'[s] = request[s]
      BY <1>11, <1>2, <1>3, <1>6 DEF Active
    <3>2. \A d \in tasks : d \in tasks' /\ request'[d] = request[d] /\ batch'[d] = batch[d]
      BY <2>1, <1>4, <1>7
    <3>. QED
      BY <3>1, <3>2 DEF SerialInv, ActiveInBatch
  <2>. QED
    BY <1>9, <2>2, <2>4, <2>5, <2>6 DEF SerialInv
<1>. QED
  BY <1>10, <1>11

\* When a task takes a batch, all of its key that was taken before is over.
LEMMA NoneActive ==
  ASSUME TypeInv, SerialInv, NEW d \in Requests, Draining(d)
  PROVE  \A r \in Requests :
           (request[r] # None /\ request[r].key = request[d].key) =>
             Over(r) \/ phase[r] = "queued"
<1> SUFFICES ASSUME NEW r \in Requests, request[r] # None, request[r].key = request[d].key,
                    phase[r] # "queued", ~Over(r)
             PROVE  FALSE
  OBVIOUS
<1>1. Active(r)
  BY DEF Active, Over, TypeInv, TypeOK, Known
<1>2. d \in tasks /\ request[d].key # None
  BY DEF Draining, TypeInv, Known
<1>3. PICK t \in tasks : request[t].key = request[r].key /\ r \in batch[t]
  BY <1>1, <1>2 DEF SerialInv, ActiveInBatch
<1>4. t = d
  BY <1>2, <1>3 DEF SerialInv, TasksOwnKeys
<1>. QED
  BY <1>3, <1>4 DEF Draining

LEMMA TakeSerial ==
  ASSUME TypeInv, SerialInv, NEW d \in Requests, Take(d)
  PROVE  SerialInv'
<1>. DEFINE k == request[d].key
            q == queues[k]
<1>1. d \in tasks /\ k \in Keys /\ k \in mapped /\ Draining(d)
  BY TaskKey DEF Take, Draining
<1>2. PICK n \in 1 .. Len(q) : Taken(q, n) /\ TakeFirst(d, k, n)
  BY DEF Take
<1>. DEFINE first == {q[i] : i \in 1 .. n}
<1>3. /\ q \in Seq(Requests) /\ Len(q) \in Nat
      /\ \A i \in 1 .. Len(q) : q[i] \in Requests /\ phase[q[i]] = "queued" /\ request[q[i]].key = k
      /\ \A i, j \in 1 .. Len(q) : i < j => q[i] < q[j]
  BY <1>1, QueueOfRequests DEF SerialInv, QueuesOrdered
<1>4. /\ UNCHANGED <<request, mapped, tasks>>
      /\ \A r \in Requests : phase'[r] = IF r \in first THEN "taken" ELSE phase[r]
      /\ queues'[k] = SubSeq(q, n + 1, Len(q))
      /\ \A l \in Keys : l # k => queues'[l] = queues[l]
      /\ batch'[d] = first
      /\ \A t \in tasks : t # d => batch'[t] = batch[t]
  BY <1>1, <1>2 DEF TakeFirst, TypeInv, TypeOK
<1>5. /\ Len(queues'[k]) = Len(q) - n
      /\ \A i \in 1 .. Len(q) - n : n + i \in 1 .. Len(q) /\ queues'[k][i] = q[n + i]
  BY <1>2, <1>3, <1>4
<1>6. \A r \in first : r \in Requests /\ phase[r] = "queued" /\ request[r].key = k
  BY <1>2, <1>3
<1>7. \A i \in 1 .. Len(q) : q[i] \in first <=> i <= n
  <2>. SUFFICES ASSUME NEW i \in 1 .. Len(q)
                PROVE  q[i] \in first <=> i <= n
    OBVIOUS
  <2>4. i <= n => q[i] \in first
    BY <1>2, <1>3
  <2>. SUFFICES ASSUME q[i] \in first PROVE i <= n
    BY <2>4
  <2>1. PICK j \in 1 .. n : q[i] = q[j]
    OBVIOUS
  <2>2. \A r \in Requests : r \in Nat
    BY Bounds
  <2>3. j \in 1 .. Len(q) /\ ~(j < i)
    BY <1>2, <1>3, <2>1, <2>2
  <2>. QED
    BY <1>2, <1>3, <2>3
<1>8. TasksOwnKeys'
  BY <1>4 DEF SerialInv, TasksOwnKeys
<1>9. QueuesOrdered'
  <2>1. \A i \in 1 .. Len(queues'[k]) :
          phase'[queues'[k][i]] = "queued" /\ request'[queues'[k][i]].key = k
    <3> SUFFICES ASSUME NEW i \in 1 .. Len(queues'[k])
                 PROVE  phase'[queues'[k][i]] = "queued" /\ request'[queues'[k][i]].key = k
      OBVIOUS
    <3>1. n + i \in 1 .. Len(q) /\ queues'[k][i] = q[n + i] /\ ~(n + i <= n)
      BY <1>2, <1>3, <1>5
    <3>2. /\ q[n + i] \in Requests /\ q[n + i] \notin first
          /\ phase[q[n + i]] = "queued" /\ request[q[n + i]].key = k
      BY <3>1, <1>3, <1>7
    <3>. QED
      BY <3>1, <3>2, <1>4
  <2>2. ASSUME NEW i \in 1 .. Len(queues'[k]), NEW j \in 1 .. Len(queues'[k]), i < j
        PROVE  queues'[k][i] < queues'[k][j]
    <3>1. /\ n + i \in 1 .. Len(q) /\ queues'[k][i] = q[n + i]
          /\ n + j \in 1 .. Len(q) /\ queues'[k][j] = q[n + j]
          /\ n + i < n + j
      BY <2>2, <1>2, <1>3, <1>5
    <3>. QED
      BY <3>1, <1>3
  <2>3. ASSUME NEW l \in Keys, l # k
        PROVE  /\ \A i \in 1 .. Len(queues'[l]) :
                    phase'[queues'[l][i]] = "queued" /\ request'[queues'[l][i]].key = l
               /\ \A i, j \in 1 .. Len(queues'[l]) :
                    i < j => queues'[l][i] < queues'[l][j]
    <3>1. \A i \in 1 .. Len(queues[l]) :
            /\ queues[l][i] \in Requests
            /\ phase[queues[l][i]] = "queued" /\ request[queues[l][i]].key = l
      BY QueueOfRequests DEF SerialInv, QueuesOrdered
    <3>2. \A i \in 1 .. Len(queues[l]) : queues[l][i] \notin first
      BY <3>1, <2>3, <1>6
    <3>3. \A i, j \in 1 .. Len(queues[l]) : i < j => queues[l][i] < queues[l][j]
      BY DEF SerialInv, QueuesOrdered
    <3>4. queues'[l] = queues[l]
      BY <2>3, <1>4
    <3>5. \A i \in 1 .. Len(queues[l]) :
            phase'[queues[l][i]] = "queued" /\ request'[queues[l][i]].key = l
      BY <3>1, <3>2, <1>4
    <3>. QED
      BY <3>3, <3>4, <3>5
  <2>. QED
    BY <2>1, <2>2, <2>3 DEF QueuesOrdered
<1>10. QueuedInQueue'
  <2> SUFFICES ASSUME NEW s \in Requests, phase'[s] = "queued"
               PROVE  /\ request'[s].key \in Keys
                      /\ \E i \in 1 .. Len(queues'[request'[s].key]) :
                           queues'[request'[s].key][i] = s
    BY DEF QueuedInQueue
  <2>1. phase[s] = "queued" /\ s \notin first
    BY <1>4
  <2>2. PICK i \in 1 .. Len(queues[request[s].key]) : queues[request[s].key][i] = s
    BY <2>1 DEF SerialInv, QueuedInQueue
  <2>3. request[s].key \in Keys
    BY <2>1 DEF SerialInv, QueuedInQueue
  <2>4. CASE request[s].key = k
    <3>1. i \in 1 .. Len(q) /\ q[i] = s /\ ~(i <= n)
      BY <2>1, <2>2, <2>4, <1>7
    <3>2. i - n \in 1 .. Len(q) - n /\ n + (i - n) = i
      BY <3>1, <1>2, <1>3
    <3>3. i - n \in 1 .. Len(queues'[k]) /\ queues'[k][i - n] = s
      BY <3>1, <3>2, <1>5
    <3>. QED
      BY <3>3, <2>3, <2>4, <1>4
  <2>5. CASE request[s].key # k
    BY <2>2, <2>3, <2>5, <1>4
  <2>. QED
    BY <2>4, <2>5
<1>11. ActiveInBatch'
  <2> SUFFICES ASSUME NEW s \in Requests, Active(s)', request[s].key # None
               PROVE  \E t \in tasks : request[t].key = request[s].key /\ s \in batch'[t]
    BY <1>4 DEF ActiveInBatch
  <2>1. CASE s \in first
    BY <2>1, <1>1, <1>4, <1>6
  <2>2. CASE s \notin first
    <3>1. Active(s) /\ request[s] # None
      BY <2>2, <1>4 DEF Active, TypeInv, Known
    <3>2. PICK t \in tasks : request[t].key = request[s].key /\ s \in batch[t]
      BY <3>1 DEF SerialInv, ActiveInBatch
    <3>3. request[s].key # k
      BY <3>1, <1>1, NoneActive DEF Active, Over
    <3>. QED
      BY <3>2, <3>3, <1>4
  <2>. QED
    BY <2>1, <2>2
<1>12. InOrder'
  <2> SUFFICES ASSUME NEW r1 \in Requests, NEW r2 \in Requests,
                      r1 < r2, SameKey(r1, r2), phase'[r2] # "queued"
               PROVE  Over(r1)' \/ (phase'[r1] # "queued" /\ Together(r1, r2))
    BY <1>4 DEF InOrder, SameKey, Together
  <2>1. \A r \in Requests : r \notin first => phase'[r] = phase[r]
    BY <1>4
  <2>2. CASE r2 \notin first
    <3>1. Over(r1) \/ (phase[r1] # "queued" /\ Together(r1, r2))
      BY <2>1, <2>2 DEF SerialInv, InOrder
    <3>2. r1 \notin first
      BY <3>1, <1>6 DEF Over
    <3>. QED
      BY <3>1, <3>2, <2>1 DEF Over
  <2>3. CASE r2 \in first
    <3>1. PICK n2 \in 1 .. n : q[n2] = r2
      BY <2>3
    <3>2. request[r1] # None /\ request[r1].key = k /\ request[r2].key = k /\ k # None
      BY <2>3, <1>6 DEF SameKey
    <3>3. CASE Over(r1)
      BY <3>3, <2>1, <1>6 DEF Over
    <3>4. CASE phase[r1] = "queued"
      <4>1. \A r \in r1 .. r2 : SameKey(r1, r) =>
              \E i \in 1 .. n2 : q[i] = r
        <5> SUFFICES ASSUME NEW r \in r1 .. r2, SameKey(r1, r)
                     PROVE  \E i \in 1 .. n2 : q[i] = r
          OBVIOUS
        <5>1. r \in Requests /\ r1 <= r /\ r <= r2 /\ r2 \in Nat /\ r \in Nat /\ r1 \in Nat
          BY Bounds
        <5>2. request[r] # None /\ request[r].key = k
          BY <3>2 DEF SameKey
        <5>3. phase[r] = "queued"
          <6>1. CASE r = r1
            BY <6>1, <3>4
          <6>2. CASE r1 < r
            BY <6>2, <5>1, <3>4 DEF SerialInv, InOrder, Over
          <6>. QED
            BY <6>1, <6>2, <5>1
        <5>4. PICK i \in 1 .. Len(q) : q[i] = r
          BY <5>1, <5>2, <5>3 DEF SerialInv, QueuedInQueue
        <5>5. ~(n2 < i)
          BY SMTT(30), <5>1, <5>4, <3>1, <1>2, <1>3
        <5>. QED
          BY <5>4, <5>5, <3>1, <1>2, <1>3
      <4>2. SameKey(r1, r1) /\ r1 \in r1 .. r2
        BY <3>2, Bounds DEF SameKey
      <4>3. PICK n1 \in 1 .. n2 : q[n1] = r1
        BY <4>1, <4>2
      <4>4. n # 1
        <5>1. n1 # n2
          BY <4>3, <3>1, Bounds
        <5>. QED
          BY <5>1, <4>3, <3>1, <1>2
      <4>5. \A i \in 1 .. n2 : request[q[i]].shared
        BY <4>4, <3>1, <1>2 DEF Taken
      <4>6. Together(r1, r2)
        BY <4>1, <4>5 DEF Together
      <4>7. phase'[r1] = "taken"
        BY <4>3, <3>1, <1>2, <1>4
      <4>. QED
        BY <4>6, <4>7
    <3>5. Over(r1) \/ phase[r1] = "queued"
      BY <3>2, <1>1, NoneActive
    <3>. QED
      BY <3>3, <3>4, <3>5
  <2>. QED
    BY <2>2, <2>3
<1>. QED
  BY <1>8, <1>9, <1>10, <1>11, <1>12 DEF SerialInv

LEMMA StepSerial == TypeInv /\ SerialInv /\ [Next]_vars => SerialInv'
<1> SUFFICES ASSUME TypeInv, SerialInv, [Next]_vars PROVE SerialInv'
  OBVIOUS
<1>1. CASE UNCHANGED vars
  BY <1>1, FrameSerial DEF vars
<1>2. CASE Stop \/ Stopped
  BY <1>2, FrameSerial DEF Stop, Stopped
<1>3. ASSUME NEW c \in Connections, OfConnection(c) PROVE SerialInv'
  <2>1. CASE Open(c) \/ Initialize(c) \/ Close(c) \/ DrainTimesOut(c) \/ CleanUp(c)
    BY <2>1, FrameSerial DEF Open, Initialize, Close, DrainTimesOut, CleanUp
  <2>. QED
    BY <1>3, <2>1, ReceiveSerial DEF OfConnection
<1>4. ASSUME NEW r \in Requests, OfRequest(r) PROVE SerialInv'
  BY <1>4, TakeSerial, RetireSerial, RequestSerial DEF OfRequest
<1>. QED
  BY <1>1, <1>2, <1>3, <1>4 DEF Next

\* Requests that share a key run one after the other in the order the loop
\* received them, but for shared reads in a row, although the queue of the key
\* comes and goes and each has a drain task of its own
\* (RequestSerializationQueues::enqueue and drain).
THEOREM RequestsInOrder == Spec => []InOrder
<1>1. Init => TypeInv /\ SerialInv
  BY InitType, InitSerial
<1>2. TypeInv /\ SerialInv /\ [Next]_vars => (TypeInv /\ SerialInv)'
  BY StepType, StepSerial
<1>3. TypeInv /\ SerialInv => InOrder
  BY DEF SerialInv
<1>. QED
  BY <1>1, <1>2, <1>3, PTL DEF Spec
\* So what is exclusive never is under way together with another request of its
\* key: RequestSerializationAccess::Exclusive.
THEOREM ExclusiveIsAlone ==
  Spec => [](\A r1, r2 \in Requests :
               (r1 # r2 /\ SameKey(r1, r2) /\ Active(r1) /\ Active(r2)) =>
                 request[r1].shared /\ request[r2].shared)
<1>1. ASSUME InOrder,
             NEW r1 \in Requests, NEW r2 \in Requests, r1 < r2,
             SameKey(r1, r2), Active(r1), Active(r2)
      PROVE  request[r1].shared /\ request[r2].shared
  <2>1. Together(r1, r2)
    BY <1>1 DEF InOrder, Active, Over
  <2>2. r1 \in r1 .. r2 /\ r2 \in r1 .. r2 /\ SameKey(r1, r1)
    BY <1>1, Bounds DEF SameKey
  <2>. QED
    BY <1>1, <2>1, <2>2 DEF Together
<1>2. \A r1, r2 \in Requests : SameKey(r1, r2) => SameKey(r2, r1)
  BY DEF SameKey
<1>3. \A r1, r2 \in Requests : r1 < r2 \/ r2 < r1 \/ r1 = r2
  BY Bounds
<1>4. InOrder =>
        \A r1, r2 \in Requests :
          (r1 # r2 /\ SameKey(r1, r2) /\ Active(r1) /\ Active(r2)) =>
            request[r1].shared /\ request[r2].shared
  BY <1>1, <1>2, <1>3
<1>. QED
  BY RequestsInOrder, <1>4, PTL

-----------------------------------------------------------------------------
(* One schedule                                                            *)

\* The gates from which requests come are open.
OpenGates ==
  server = "running" =>
    \A c \in Connections : conn[c] \in {"none", "open", "ready"} => accepting[c]

LEMMA StepOpen == TypeInv /\ OpenGates /\ [Next]_vars => OpenGates'
<1> SUFFICES ASSUME TypeInv, OpenGates, [Next]_vars PROVE OpenGates'
  OBVIOUS
<1>. USE DEF OpenGates
<1>1. CASE UNCHANGED vars
  BY <1>1 DEF vars, network
<1>2. CASE Stop \/ Stopped
  BY <1>2 DEF Stop, Stopped, network
<1>3. ASSUME NEW c \in Connections, OfConnection(c) PROVE OpenGates'
  BY <1>3 DEF OfConnection, Open, Initialize, Close, DrainTimesOut, CleanUp, Receive,
              network, TypeInv, TypeOK
<1>4. ASSUME NEW r \in Requests, OfRequest(r) PROVE OpenGates'
  BY <1>4 DEF OfRequest, Take, TakeFirst, Retire, Start, End, Respond, network
<1>. QED
  BY <1>1, <1>2, <1>3, <1>4 DEF Next

LEMMA ReceiveArrives ==
  ASSUME TypeInv, OpenGates, NEW c \in Connections, NEW k \in Keys \cup {None},
         NEW shared \in BOOLEAN, Receive(c, k, shared)
  PROVE  Ordered!OrderedNext
<1>. DEFINE r == received + 1
            info == [conn |-> c, key |-> k, shared |-> shared]
<1>1. r \in Requests /\ info \in Infos /\ info.conn = c /\ info.key = k
  BY DEF Receive, Infos
<1>2. \A q \in Requests : q < r <=> phase[q] # "unsent"
  BY Bounds DEF TypeInv, TypeOK, Known
<1>3. accepting[c] /\ accepting' = accepting
  BY DEF Receive, OpenGates, network
<1>4. request' = [request EXCEPT ![r] = info]
  BY DEF Receive
<1>5. phase' = [phase EXCEPT ![r] = IF k = None THEN "taken" ELSE "queued"]
  BY DEF Receive
<1>6. Ordered!Arrive(r, info)
  BY <1>1, <1>2, <1>3, <1>4, <1>5 DEF Ordered!Arrive
<1>. QED
  BY <1>1, <1>6 DEF Ordered!OrderedNext

\* The batch a drain task takes is what the schedule lets begin.
LEMMA TakeBegins ==
  ASSUME TypeInv, SerialInv, NEW d \in Requests, Take(d)
  PROVE  Ordered!OrderedNext
<1>. DEFINE k == request[d].key
            q == queues[k]
<1>1. k \in Keys /\ Draining(d)
  BY TaskKey DEF Take, Draining
<1>2. PICK n \in 1 .. Len(q) : Taken(q, n) /\ TakeFirst(d, k, n)
  BY DEF Take
<1>. DEFINE first == {q[i] : i \in 1 .. n}
            others == Ordered!Of(k) \ first
<1>3. /\ Len(q) \in Nat
      /\ \A i \in 1 .. Len(q) :
           /\ q[i] \in Requests /\ request[q[i]] # None
           /\ phase[q[i]] = "queued" /\ request[q[i]].key = k
      /\ \A i, j \in 1 .. Len(q) : i < j => q[i] < q[j]
  BY <1>1, QueueOfRequests DEF SerialInv, QueuesOrdered, TypeInv, Known
<1>4. n \in Nat /\ 1 <= n /\ n <= Len(q)
  BY <1>2, <1>3
<1>5. /\ first # {} /\ first \subseteq Requests /\ first \subseteq Ordered!Of(k)
      /\ \A r \in first : phase[r] = "queued"
  <2>1. 1 \in 1 .. n /\ 1 .. n \subseteq 1 .. Len(q)
    BY <1>3, <1>4
  <2>2. q[1] \in first
    BY <2>1, Zenon
  <2>3. \A r \in first : r \in Requests /\ r \in Ordered!Of(k) /\ phase[r] = "queued"
    BY <2>1, <1>3 DEF Ordered!Of
  <2>. QED
    BY <2>2, <2>3, Zenon
\* Who waits for the key and is not in the batch stands behind it.
<1>6. ASSUME NEW x \in others, phase[x] = "queued"
      PROVE  \E j \in n + 1 .. Len(q) : q[j] = x
  <2>1. x \in Requests /\ request[x].key = k /\ x \notin first
    BY DEF Ordered!Of
  <2>2. PICK j \in 1 .. Len(q) : q[j] = x
    BY <1>6, <2>1 DEF SerialInv, QueuedInQueue
  <2>3. ~(j <= n)
    BY <2>1, <2>2, <1>4
  <2>. QED
    BY <2>2, <2>3, <1>3, <1>4
<1>7. ASSUME NEW r \in first, NEW x \in others, x < r
      PROVE  Ordered!Finished(x)
  <2>1. x \in Requests /\ request[x] # None /\ request[x].key = k
    BY DEF Ordered!Of
  <2>2. Over(x) \/ phase[x] = "queued"
    BY <2>1, <1>1, NoneActive
  <2>3. CASE phase[x] = "queued"
    <3>1. PICK j \in n + 1 .. Len(q) : q[j] = x
      BY <2>3, <1>6
    <3>2. PICK i \in 1 .. n : q[i] = r
      OBVIOUS
    <3>3. i < j /\ i \in 1 .. Len(q) /\ j \in 1 .. Len(q)
      BY <1>3, <1>4
    <3>4. r < x /\ r \in Nat /\ x \in Nat
      BY <3>1, <3>2, <3>3, <1>3, Bounds
    <3>. QED
      BY <3>4, <1>7
  <2>. QED
    BY <2>2, <2>3 DEF Over, Ordered!Finished
<1>8. Ordered!AllShared(first) \/ \A r, x \in first : r = x
  <2>1. CASE n = 1
    BY <2>1
  <2>2. CASE n # 1
    <3>1. \A i \in 1 .. n : request[q[i]].shared
      BY <2>2, <1>2 DEF Taken
    <3>. QED
      BY <3>1 DEF Ordered!AllShared
  <2>. QED
    BY <2>1, <2>2
<1>9. ASSUME NEW x \in others, Ordered!AllShared(first), request[x].shared,
             phase[x] = "queued"
      PROVE  \E y \in others : y < x /\ ~request[y].shared /\ phase[y] = "queued"
  <2>1. PICK j \in n + 1 .. Len(q) : q[j] = x
    BY <1>9, <1>6
  <2>2. n < Len(q) /\ n + 1 \in 1 .. Len(q) /\ j \in 1 .. Len(q) /\ n + 1 <= j
    BY <1>3, <1>4
  <2>3. request[q[1]].shared
    BY <1>4, <1>9 DEF Ordered!AllShared
  <2>4. ~request[q[n + 1]].shared
    BY <2>2, <2>3, <1>2 DEF Taken
  <2>5. n + 1 < j
    <3>1. j # n + 1
      BY <2>1, <2>4, <1>9
    <3>2. j \in Nat
      BY <2>2, <1>3
    <3>. QED
      BY <3>1, <3>2, <2>2, <1>4
  <2>6. q[n + 1] \notin first
    <3>1. SUFFICES ASSUME NEW i \in 1 .. n, q[i] = q[n + 1] PROVE FALSE
      OBVIOUS
    <3>2. i \in 1 .. Len(q) /\ i < n + 1
      BY <1>3, <1>4
    <3>3. q[i] < q[n + 1] /\ q[i] \in Nat
      BY <3>2, <2>2, <1>3, Bounds
    <3>. QED
      BY <3>1, <3>3
  <2>7. q[n + 1] \in others /\ q[n + 1] < x /\ phase[q[n + 1]] = "queued"
    BY <2>1, <2>2, <2>5, <2>6, <1>3 DEF Ordered!Of
  <2>. QED
    BY <2>4, <2>7
<1>10. /\ phase' = [r \in Requests |-> IF r \in first THEN "taken" ELSE phase[r]]
       /\ UNCHANGED <<request, accepting>>
  BY <1>2 DEF TakeFirst, network
<1>11. Ordered!Begin(k, first)
  BY <1>5, <1>7, <1>8, <1>9, <1>10 DEF Ordered!Begin
<1>. QED
  BY <1>1, <1>5, <1>11 DEF Ordered!OrderedNext

LEMMA StepOrdered ==
  TypeInv /\ OpenGates /\ SerialInv /\ [Next]_vars =>
    [Ordered!OrderedNext]_(Ordered!orderedVars)
<1> SUFFICES ASSUME TypeInv, OpenGates, SerialInv, [Next]_vars
             PROVE  [Ordered!OrderedNext]_(Ordered!orderedVars)
  OBVIOUS
<1>. USE DEF Ordered!orderedVars
<1>1. CASE UNCHANGED <<request, phase, accepting>>
  BY <1>1
<1>2. CASE UNCHANGED <<request, phase>> /\ \A c \in Connections : accepting'[c] => accepting[c]
  BY <1>2 DEF Ordered!OrderedNext, Ordered!Close
<1>3. ASSUME NEW c \in Connections, OfConnection(c)
      PROVE  [Ordered!OrderedNext]_(Ordered!orderedVars)
  <2>1. CASE Open(c) \/ Initialize(c) \/ DrainTimesOut(c) \/ CleanUp(c)
    BY <2>1, <1>1 DEF Open, Initialize, DrainTimesOut, CleanUp
  <2>2. CASE Close(c)
    BY <2>2, <1>2 DEF Close, TypeInv, TypeOK
  <2>. QED
    BY <1>3, <2>1, <2>2, ReceiveArrives DEF OfConnection
<1>4. ASSUME NEW r \in Requests, OfRequest(r)
      PROVE  [Ordered!OrderedNext]_(Ordered!orderedVars)
  <2>1. CASE Retire(r) \/ Respond(r)
    BY <2>1, <1>1 DEF Retire, Respond, network
  <2>2. CASE Start(r)
    <3>1. request[r].conn \in Connections
      BY <2>2 DEF Start, TypeInv, TypeOK, Known, Infos
    <3>2. Ordered!Enter(r)
      BY <2>2, <3>1 DEF Start, Admits, network, Ordered!Enter
    <3>. QED
      BY <3>2 DEF Ordered!OrderedNext
  <2>3. CASE End(r)
    BY <2>3 DEF End, network, Ordered!Finish, Ordered!OrderedNext
  <2>. QED
    BY <1>4, <2>1, <2>2, <2>3, TakeBegins DEF OfRequest
<1>5. CASE Stop
  BY <1>5, <1>2 DEF Stop
<1>6. CASE Stopped
  BY <1>6, <1>1 DEF Stopped, network
<1>7. CASE UNCHANGED vars
  BY <1>7, <1>1 DEF vars, network
<1>. QED
  BY <1>3, <1>4, <1>5, <1>6, <1>7 DEF Next

LEMMA InitOrdered == Init => OpenGates /\ Ordered!OrderedInit
BY DEF Init, OpenGates, Ordered!OrderedInit

\* The loop, the queues that come and go, their drain tasks and the gates are an
\* implementation of one schedule of the requests (RequestSerializationQueues,
\* ConnectionRpcGate): each begins in its turn, once, with the reads it may
\* begin with, and runs only while its connection is open.
THEOREM Implements == Spec => OrderedExecutionSpec
<1>1. Init => TypeInv /\ SerialInv /\ OpenGates /\ Ordered!OrderedInit
  BY InitType, InitSerial, InitOrdered
<1>2. TypeInv /\ SerialInv /\ OpenGates /\ [Next]_vars
        => (TypeInv /\ SerialInv /\ OpenGates)'
  BY StepType, StepSerial, StepOpen
<1>3. TypeInv /\ SerialInv /\ OpenGates /\ [Next]_vars
        => [Ordered!OrderedNext]_(Ordered!orderedVars)
  BY StepOrdered
<1>. QED
  BY <1>1, <1>2, <1>3, PTL DEF Spec, OrderedExecutionSpec, Ordered!OrderedSpec

-----------------------------------------------------------------------------
(* Nothing waits for nobody                                                *)

\* A key in the map has its task, and what tasks took does not wait.
Served ==
  /\ \A k \in mapped : \E d \in tasks : request[d].key = k
  /\ \A d \in Requests : \A r \in batch[d] : phase[r] \notin {"unsent", "queued"}

\* A step that takes nothing and leaves tasks and map alone.
LEMMA ForwardServed ==
  ASSUME TypeInv, Served, UNCHANGED <<mapped, tasks, batch>>,
         \A r \in Requests : request[r] # None => request'[r] = request[r],
         \A r \in Requests : phase[r] \notin {"unsent", "queued"} => phase'[r] \notin {"unsent", "queued"}
  PROVE  Served'
<1>1. \A d \in tasks : request'[d] = request[d]
  BY DEF TypeInv, TypeOK, Known
<1>2. \A d \in Requests : batch[d] \subseteq Requests
  BY DEF TypeInv, TypeOK
<1>. QED
  BY <1>1, <1>2 DEF Served

LEMMA ReceiveServed ==
  ASSUME TypeInv, Served, NEW c \in Connections, NEW k \in Keys \cup {None},
         NEW shared \in BOOLEAN, Receive(c, k, shared)
  PROVE  Served'
<1>. DEFINE r == received + 1
            info == [conn |-> c, key |-> k, shared |-> shared]
<1>1. r \in Requests /\ request[r] = None /\ phase[r] = "unsent"
  BY Bounds DEF Receive, TypeInv, TypeOK, Known
<1>2. /\ request' = [request EXCEPT ![r] = info] /\ info.key = k
      /\ \A s \in Requests : s # r => request'[s] = request[s] /\ phase'[s] = phase[s]
  BY DEF Receive, TypeInv, TypeOK
<1>3. request'[r].key = k /\ \A s \in Requests : request[s] # None => request'[s] = request[s]
  BY <1>1, <1>2 DEF TypeInv, TypeOK
<1>4. CASE k = None
  <2>1. UNCHANGED <<mapped, tasks, batch>>
    BY <1>4 DEF Receive, serial
  <2>. QED
    BY <1>1, <1>2, <1>3, <2>1, ForwardServed
<1>5. CASE k # None
  <2>1. /\ mapped' = mapped \cup {k} /\ batch' = batch
        /\ tasks' = IF k \in mapped THEN tasks ELSE tasks \cup {r}
    BY <1>5 DEF Receive, Enqueue
  <2>2. \A d \in tasks : d \in Requests /\ request'[d].key = request[d].key
    BY <1>3 DEF TypeInv, TypeOK, Known
  <2>3. \A l \in mapped' : \E d \in tasks' : request'[d].key = l
    BY <1>3, <2>1, <2>2 DEF Served
  <2>4. \A d \in Requests : \A s \in batch'[d] : phase'[s] \notin {"unsent", "queued"}
    BY <1>1, <1>2, <2>1 DEF Served, TypeInv, TypeOK
  <2>. QED
    BY <2>3, <2>4 DEF Served
<1>. QED
  BY <1>4, <1>5

LEMMA StepServed == TypeInv /\ SerialInv /\ Served /\ [Next]_vars => Served'
<1> SUFFICES ASSUME TypeInv, SerialInv, Served, [Next]_vars PROVE Served'
  OBVIOUS
<1>1. CASE UNCHANGED <<request, phase, serial>>
  BY <1>1, ForwardServed DEF serial
<1>2. ASSUME NEW c \in Connections, OfConnection(c) PROVE Served'
  BY <1>1, <1>2, ReceiveServed
     DEF OfConnection, Open, Initialize, Close, DrainTimesOut, CleanUp
<1>3. ASSUME NEW d \in Requests, Take(d) PROVE Served'
  <2>1. PICK first \in SUBSET Requests :
          /\ batch' = [batch EXCEPT ![d] = first]
          /\ phase' = [r \in Requests |-> IF r \in first THEN "taken" ELSE phase[r]]
          /\ UNCHANGED <<request, mapped, tasks>>
    <3>1. PICK n \in 1 .. Len(queues[request[d].key]) : TakeFirst(d, request[d].key, n)
      BY <1>3 DEF Take
    <3>2. request[d].key \in Keys
      BY <1>3 DEF Take, TypeInv, TypeOK
    <3>3. {queues[request[d].key][i] : i \in 1 .. n} \subseteq Requests
      BY <3>1, <3>2, QueueOfRequests
    <3>. QED
      BY <3>1, <3>3 DEF TakeFirst
  <2>. QED
    BY <2>1 DEF Served, TypeInv, TypeOK
<1>4. ASSUME NEW d \in Requests, Retire(d) PROVE Served'
  <2>1. /\ d \in tasks /\ mapped' = mapped \ {request[d].key} /\ tasks' = tasks \ {d}
        /\ batch' = [batch EXCEPT ![d] = {}] /\ UNCHANGED <<request, phase>>
    BY <1>4 DEF Retire, Draining, Without
  <2>. QED
    BY <2>1 DEF Served, TypeInv, TypeOK
<1>5. ASSUME NEW r \in Requests, Start(r) \/ End(r) \/ Respond(r) PROVE Served'
  <2>1. \A s \in Requests : phase'[s] = phase[s] \/ phase'[s] \in {"running", "dropped", "done"}
    BY <1>5 DEF Start, End, Respond, TypeInv, TypeOK
  <2>2. UNCHANGED <<request, serial>>
    BY <1>5 DEF Start, End, Respond
  <2>. QED
    BY <2>1, <2>2, ForwardServed DEF serial
<1>. QED
  BY <1>1, <1>2, <1>3, <1>4, <1>5 DEF Next, OfRequest, Stop, Stopped, vars

\* A request that waits has a drain task of its key: one that looks at the queue
\* next, or that waits for requests it took and that are on their way.  (That
\* it then ends is EveryRequestEnds.)
WaitersServed ==
  \A r \in Requests :
    phase[r] = "queued" =>
      \E d \in tasks :
        /\ request[d].key = request[r].key
        /\ Draining(d) \/ \E q \in batch[d] : Active(q)

\* No request is left in a queue without such a task, however the queue of its
\* key came and went (RequestSerializationQueues::enqueue and drain).
THEOREM WaitingIsServed == Spec => []WaitersServed
<1>1. ASSUME TypeInv, SerialInv, Served, NEW r \in Requests, phase[r] = "queued"
      PROVE  \E d \in tasks :
               /\ request[d].key = request[r].key
               /\ Draining(d) \/ \E q \in batch[d] : Active(q)
  <2>. DEFINE k == request[r].key
  <2>1. k \in Keys /\ \E i \in 1 .. Len(queues[k]) : queues[k][i] = r
    BY <1>1 DEF SerialInv, QueuedInQueue
  <2>2. queues[k] # << >>
    BY <2>1
  <2>3. k \in mapped
    BY <1>1, <2>1, <2>2 DEF TypeInv, TypeOK
  <2>4. PICK d \in tasks : request[d].key = k
    BY <1>1, <2>3 DEF Served
  <2>5. \A q \in batch[d] : Over(q) \/ Active(q)
    BY <1>1 DEF Served, TypeInv, TypeOK, Over, Active
  <2>. QED
    BY <2>4, <2>5 DEF Draining
<1>2. Init => TypeInv /\ SerialInv /\ Served
  BY InitType, InitSerial DEF Init, Served
<1>3. TypeInv /\ SerialInv /\ Served /\ [Next]_vars => (TypeInv /\ SerialInv /\ Served)'
  BY StepType, StepSerial, StepServed
<1>4. TypeInv /\ SerialInv /\ Served => WaitersServed
  BY <1>1 DEF WaitersServed
<1>. QED
  BY <1>2, <1>3, <1>4, PTL DEF Spec
=============================================================================
