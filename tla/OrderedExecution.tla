-------------------------- MODULE OrderedExecution --------------------------
(***************************************************************************)
(* What the app-server promises of the requests of its clients: they are   *)
(* numbered as they come, those that share a key begin in that order, each *)
(* when all before it are over, and a handler runs only while the gate of  *)
(* its connection is open.  Shared reads in a row begin together.          *)
(***************************************************************************)
EXTENDS Integers

CONSTANTS
  Requests,  \* 1 .. some number
  Keys,      \* what orders requests
  Infos,     \* [conn, key, shared]: what is known of a request
  None       \* the key of a request that waits for no other

VARIABLES
  request,   \* what is known of a request; None before it comes
  phase,     \* where it is
  closed     \* connections whose gate is closed

orderedVars == <<request, phase, closed>>

OrderedInit ==
  /\ request = [r \in Requests |-> None]
  /\ phase = [r \in Requests |-> "unsent"]
  /\ closed = {}

Finished(r) == phase[r] \in {"done", "dropped"}

Of(key) == {r \in Requests : request[r] # None /\ request[r].key = key}

\* The next request comes, and not from a closed connection.
Arrive(r, info) ==
  /\ \A q \in Requests : q < r <=> phase[q] # "unsent"
  /\ info.conn \notin closed
  /\ request' = [request EXCEPT ![r] = info]
  /\ phase' = [phase EXCEPT ![r] = IF info.key = None THEN "taken" ELSE "queued"]
  /\ UNCHANGED closed

Close ==
  /\ closed \subseteq closed'
  /\ UNCHANGED <<request, phase>>

AllShared(batch) == \A r \in batch : request[r].shared

\* One request of a key begins, or shared reads in a row, those waiting right
\* behind them included.
Begin(key, batch) ==
  LET others == Of(key) \ batch IN
  /\ batch # {} /\ batch \subseteq Of(key)
  /\ \A r \in batch : phase[r] = "queued"
  /\ phase' = [r \in Requests |-> IF r \in batch THEN "taken" ELSE phase[r]]
  /\ \A r \in batch, q \in others : q < r => Finished(q)
  /\ AllShared(batch) \/ \A r, q \in batch : r = q
  /\ \A q \in others :
       AllShared(batch) /\ request[q].shared /\ phase[q] = "queued" =>
         \E x \in others : x < q /\ ~request[x].shared /\ phase[x] = "queued"
  /\ UNCHANGED <<request, closed>>

\* The gate lets it run, or drops it.
Enter(r) ==
  /\ phase[r] = "taken"
  /\ phase' = [phase EXCEPT ![r] =
                 IF request[r].conn \in closed THEN "dropped" ELSE "running"]
  /\ UNCHANGED <<request, closed>>

Finish(r) ==
  /\ phase[r] = "running"
  /\ phase' = [phase EXCEPT ![r] = "done"]
  /\ UNCHANGED <<request, closed>>

OrderedNext ==
  \/ Close
  \/ \E r \in Requests : Enter(r) \/ Finish(r) \/ \E info \in Infos : Arrive(r, info)
  \/ \E key \in Keys, batch \in SUBSET Requests : Begin(key, batch)

OrderedSpec == OrderedInit /\ [][OrderedNext]_orderedVars
=============================================================================
