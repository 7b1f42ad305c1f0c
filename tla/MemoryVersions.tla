--------------------------- MODULE MemoryVersions ---------------------------
(***************************************************************************)
(* What the memory pipeline of Codex promises of each thread: versions of  *)
(* it are extracted in order and none twice, there is a memory only of the *)
(* version extracted last, and none of a thread that is forgotten.         *)
(***************************************************************************)
EXTENDS Integers

CONSTANT Threads

VARIABLES
  version,    \* the time of the last turn
  done,       \* the version extracted last
  memory,     \* the version there is a memory of
  forgotten   \* threads whose deletion has removed their memory

memoryVars == <<version, done, memory, forgotten>>

Nothing == -1

MemoryInit ==
  /\ version = [t \in Threads |-> 0]
  /\ done = [t \in Threads |-> Nothing]
  /\ memory = [t \in Threads |-> Nothing]
  /\ forgotten = {}

Turn(t) ==
  /\ version'[t] > version[t]
  /\ version' = [version EXCEPT ![t] = version'[t]]
  /\ UNCHANGED <<done, memory, forgotten>>

\* A newer version is extracted, if the thread is not forgotten; there may be
\* nothing to remember of it.
Extract(t) ==
  /\ t \notin forgotten
  /\ \E v \in done[t] + 1 .. version[t] :
       /\ done' = [done EXCEPT ![t] = v]
       /\ \/ memory' = [memory EXCEPT ![t] = v]
          \/ memory' = [memory EXCEPT ![t] = Nothing]
  /\ UNCHANGED <<version, forgotten>>

\* Memories grow old; what was extracted stays known.
Prune(old) ==
  /\ memory' = [t \in Threads |-> IF t \in old THEN Nothing ELSE memory[t]]
  /\ UNCHANGED <<version, done, forgotten>>

Forget(t) ==
  /\ forgotten' = forgotten \cup {t}
  /\ done' = [done EXCEPT ![t] = Nothing]
  /\ memory' = [memory EXCEPT ![t] = Nothing]
  /\ UNCHANGED version

Reset ==
  /\ done' = [t \in Threads |-> Nothing]
  /\ memory' = [t \in Threads |-> Nothing]
  /\ UNCHANGED <<version, forgotten>>

MemoryNext ==
  \/ \E t \in Threads : Turn(t) \/ Extract(t) \/ Forget(t)
  \/ \E old \in SUBSET Threads : Prune(old)
  \/ Reset

MemorySpec == MemoryInit /\ [][MemoryNext]_memoryVars
=============================================================================
