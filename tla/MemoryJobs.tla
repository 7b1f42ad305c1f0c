----------------------------- MODULE MemoryJobs -----------------------------
(***************************************************************************)
(* The memory pipeline of Codex (codex-rs/state/src/runtime/memories.rs    *)
(* with memories/write/src): startup tasks that extract a memory from each *)
(* idle thread (phase 1) and consolidate the memories in a workspace under *)
(* git (phase 2).  They share no process: claims with leases in the `jobs` *)
(* table of SQLite are all that keeps them apart.                          *)
(*                                                                         *)
(* A transaction is an action.  A worker is one startup task; it claims a  *)
(* thread, and the global job, at most once, so that the worker stands for *)
(* the ownership token of its claim.  A job keeps its token after it       *)
(* ended, where nothing compares it: here it is None.  Times are of one    *)
(* clock; a NULL time is 0, a NULL watermark -1.  Left out: usage counts   *)
(* and memory modes, with which any of the threads may be chosen or not;   *)
(* the watermarks and the retry budget of the global job, which decide     *)
(* nothing; and errors of SQLite other than those that end a worker.       *)
(***************************************************************************)
EXTENDS Integers, FiniteSets

CONSTANTS
  Threads,      \* conversations
  Workers,      \* startup tasks
  None,         \* no row, no claim
  MaxRunning,   \* max_rollouts_per_startup: claims of a startup, jobs at a time
  Retries,      \* DEFAULT_RETRY_REMAINING
  Lease,        \* JOB_LEASE_SECONDS, of both phases
  RetryDelay,   \* JOB_RETRY_DELAY_SECONDS, of both phases
  Cooldown,     \* PHASE2_SUCCESS_COOLDOWN_SECONDS
  Idle,         \* min_rollout_idle_hours
  MaxUnused,    \* max_unused_days
  MaxTime,      \* bound of the clock
  Deletable,    \* bound: threads that may be deleted
  Calm          \* whether memory/reset spares a consolidation and leases last

ASSUME ConstAssumption ==
  /\ IsFiniteSet(Threads) /\ Deletable \subseteq Threads
  /\ None \notin Workers
  /\ None \notin Int
  /\ {MaxRunning, Retries, Lease, RetryDelay, Cooldown} \subseteq Nat \ {0}
  /\ {Idle, MaxUnused, MaxTime} \subseteq Nat
  /\ Calm \in BOOLEAN

VARIABLES
  now,          \* Utc::now()
  updatedAt,    \* threads.updated_at
  deletion,     \* how far the deletion of a thread has come
  job,          \* rows of `jobs` with kind memory_stage1
  output,       \* rows of stage1_outputs
  global,       \* the row of `jobs` with kind memory_consolidate_global
  pc,           \* where a worker is
  todo,         \* the scanned threads it has not looked at, with updated_at
  claims,       \* the phase-1 claims it works on
  chosen,       \* its input of phase 2
  agents,       \* workers whose consolidation agent runs
  inputs,       \* the memories in the workspace
  edited,       \* whether the workspace has other changes
  baseline,     \* the memories in the git baseline of the workspace
  resetting     \* a memory/reset that has not removed the files yet

threads == <<updatedAt, deletion>>
tables  == <<job, output, global>>
work    == <<todo, claims, chosen, agents>>
files   == <<inputs, edited, baseline>>
vars    == <<now, threads, tables, pc, work, files, resetting>>

Times == 0 .. MaxTime
NoSource == [t \in Threads |-> None]
Sources == [Threads -> Times \cup {None}]

\* Rows of the tables, and the claim of a worker with how far it has come.
Jobs == [status: {"running", "done", "error"}, by: Workers \cup {None},
         lease: Nat, retryAt: Nat, retries: 0 .. Retries,
         input: Times, success: Times \cup {-1}]
Outputs == [source: Times, selected: Times \cup {None}]
GlobalJobs == [status: {"pending", "running", "done", "error"},
               by: Workers \cup {None}, lease: Nat, retryAt: Nat, coolUntil: Nat]
Claims == [source: Times, read: BOOLEAN]

ASSUME NoneAssumption ==
  None \notin Jobs /\ None \notin Outputs /\ None \notin GlobalJobs /\ None \notin Claims

\* The states of a worker from its claim of the global job on.
Consolidation ==
  {"locked", "loaded", "synced", "unchanged", "agent", "confirmed", "committed", "failing"}

TypeOK ==
  /\ now \in Times
  /\ updatedAt \in [Threads -> Times]
  /\ deletion \in [Threads -> {"no", "file", "memory", "row"}]
  /\ job \in [Threads -> Jobs \cup {None}]
  /\ output \in [Threads -> Outputs \cup {None}]
  /\ global \in GlobalJobs \cup {None}
  /\ pc \in [Workers -> {"idle", "scanning", "claiming", "sampling", "phase2", "done"}
                        \cup Consolidation]
  /\ todo \in [Workers -> Sources]
  /\ claims \in [Workers -> [Threads -> Claims \cup {None}]]
  /\ chosen \in [Workers -> Sources]
  /\ agents \subseteq Workers
  /\ inputs \in Sources
  /\ edited \in BOOLEAN
  /\ baseline \in Sources
  /\ resetting \in BOOLEAN

Init ==
  /\ now = 0
  /\ updatedAt = [t \in Threads |-> 0]
  /\ deletion = [t \in Threads |-> "no"]
  /\ job = [t \in Threads |-> None]
  /\ output = [t \in Threads |-> None]
  /\ global = None
  /\ pc = [w \in Workers |-> "idle"]
  /\ todo = [w \in Workers |-> NoSource]
  /\ claims = [w \in Workers |-> NoSource]
  /\ chosen = [w \in Workers |-> NoSource]
  /\ agents = {}
  /\ inputs = NoSource
  /\ edited = FALSE
  /\ baseline = NoSource
  /\ resetting = FALSE

Goto(w, where) == pc' = [pc EXCEPT ![w] = where]

Later(a, b) == IF a >= b THEN a ELSE b

Consolidating == {w \in Workers : pc[w] \in Consolidation}

\* enqueue_global_consolidation: a running job stays as it is; the cooldown
\* of an earlier success goes on, a retry delay does not.
Enqueued ==
  IF global = None
  THEN [status |-> "pending", by |-> None, lease |-> 0, retryAt |-> 0, coolUntil |-> 0]
  ELSE IF global.status = "running"
  THEN global
  ELSE [global EXCEPT !.status = "pending", !.retryAt = 0]

EnqueuedIf(condition) == IF condition THEN Enqueued ELSE global

-----------------------------------------------------------------------------
(* Phase 1                                                                 *)

\* Old outputs that are not in the last consolidation are deleted; some of them
\* stay because they were used, or for the next startup.  The rate limits of
\* the account may end the task here.
Prune(w) ==
  /\ pc[w] = "idle"
  /\ \E stale \in SUBSET {t \in Threads :
           output[t] # None /\ output[t].selected = None
             /\ output[t].source + MaxUnused < now} :
       output' = [t \in Threads |-> IF t \in stale THEN None ELSE output[t]]
  /\ \E where \in {"scanning", "done"} : Goto(w, where)
  /\ UNCHANGED <<now, threads, job, global, work, files, resetting>>

\* Threads that were idle long enough; their memory mode, their age and source
\* and the limit of the scan leave out any of them.
Scan(w) ==
  /\ pc[w] = "scanning"
  /\ \E found \in SUBSET {t \in Threads :
           deletion[t] # "row" /\ updatedAt[t] + Idle <= now} :
       /\ todo' = [todo EXCEPT ![w] =
                     [t \in Threads |-> IF t \in found THEN updatedAt[t] ELSE None]]
       /\ Goto(w, IF found = {} THEN "phase2" ELSE "claiming")
  /\ UNCHANGED <<now, threads, tables, claims, chosen, agents, files, resetting>>

\* Jobs that hold a valid lease.
Active == {t \in Threads : job[t] # None /\ job[t].status = "running" /\ job[t].lease > now}

BelowLimitBug(t) == Cardinality(Active \ {t}) <= MaxRunning
BelowLimit(t) == Cardinality(Active \ {t}) < MaxRunning

UpToDateBug(t, source) == output[t] # None /\ output[t].source >= source
UpToDate(t, source) ==
  \/ output[t] # None /\ output[t].source >= source
  \/ job[t] # None /\ job[t].success >= source

RetryDueBug(t) == job[t].retryAt <= now
RetryDue(t) == job[t].retryAt <= now /\ job[t].retries > 0

\* No valid lease, and either a newer source or a retry that is left and due.
Claimable(t, source) ==
  \/ job[t] = None
  \/ /\ t \notin Active
     /\ \/ source > job[t].input
        \/ RetryDue(t)

ClaimedJob(w, t, source) ==
  [status |-> "running", by |-> w, lease |-> now + Lease, retryAt |-> 0,
   retries |-> IF job[t] = None \/ source > job[t].input THEN Retries ELSE job[t].retries,
   input |-> source,
   success |-> IF job[t] = None THEN -1 ELSE job[t].success]

\* try_claim_stage1_job for the thread scanned as the newest.
Claim(w, t) ==
  LET source  == todo[w][t]
      claimed == ~UpToDate(t, source) /\ Claimable(t, source) /\ BelowLimit(t)
      others  == {u \in Threads \ {t} : todo[w][u] # None}
      held    == {u \in Threads : claims'[w][u] # None}
  IN
  /\ pc[w] = "claiming"
  /\ source # None
  /\ \A u \in others : todo[w][u] <= source
  /\ IF claimed
     THEN /\ job' = [job EXCEPT ![t] = ClaimedJob(w, t, source)]
          /\ claims' = [claims EXCEPT ![w][t] = [source |-> source, read |-> FALSE]]
     ELSE UNCHANGED <<job, claims>>
  /\ IF others = {} \/ Cardinality(held) >= MaxRunning
     THEN /\ todo' = [todo EXCEPT ![w] = NoSource]
          /\ Goto(w, IF held = {} THEN "phase2" ELSE "sampling")
     ELSE /\ todo' = [todo EXCEPT ![w][t] = None]
          /\ UNCHANGED pc
  /\ UNCHANGED <<now, threads, output, global, chosen, agents, files, resetting>>

\* sample() reads the rollout file, before it asks the model.
ReadRollout(w, t) ==
  /\ claims[w][t] # None
  /\ ~claims[w][t].read
  /\ pc[w] = "sampling"
  /\ deletion[t] = "no"
  /\ claims' = [claims EXCEPT ![w][t].read = TRUE]
  /\ UNCHANGED <<now, threads, tables, pc, todo, chosen, agents, files, resetting>>

\* The job of t is over for w; after the last of its jobs comes phase 2.
Finish(w, t) ==
  /\ pc[w] = "sampling"
  /\ claims[w][t] # None
  /\ claims' = [claims EXCEPT ![w][t] = None]
  /\ IF \A u \in Threads \ {t} : claims[w][u] = None
     THEN Goto(w, "phase2")
     ELSE UNCHANGED pc
  /\ UNCHANGED <<now, threads, todo, chosen, agents, files, resetting>>

OwnsBug(w, t) == job[t] # None /\ job[t].status = "running"
Owns(w, t) == job[t] # None /\ job[t].status = "running" /\ job[t].by = w

Succeeded(t) ==
  [job EXCEPT ![t].status = "done", ![t].by = None, ![t].lease = 0,
              ![t].success = job[t].input]

\* The row keeps its mark of the last consolidation.
Upserted(t, source) ==
  IF output[t] = None
  THEN [output EXCEPT ![t] = [source |-> source, selected |-> None]]
  ELSE IF source >= output[t].source
  THEN [output EXCEPT ![t].source = source]
  ELSE output

Succeed(w, t) ==
  /\ Finish(w, t)
  /\ claims[w][t].read
  /\ IF Owns(w, t)
     THEN /\ job' = Succeeded(t)
          /\ output' = Upserted(t, claims[w][t].source)
          /\ global' = Enqueued
     ELSE UNCHANGED tables

\* The model found nothing worth keeping.
SucceedNoOutput(w, t) ==
  /\ Finish(w, t)
  /\ claims[w][t].read
  /\ IF Owns(w, t)
     THEN /\ job' = Succeeded(t)
          /\ output' = [output EXCEPT ![t] = None]
          /\ global' = EnqueuedIf(output[t] # None)
     ELSE UNCHANGED tables

\* The file cannot be read, or the model fails.
Fail(w, t) ==
  /\ Finish(w, t)
  /\ IF Owns(w, t)
     THEN job' = [job EXCEPT ![t].status = "error", ![t].by = None, ![t].lease = 0,
                             ![t].retryAt = now + RetryDelay,
                             ![t].retries = job[t].retries - 1]
     ELSE UNCHANGED job
  /\ UNCHANGED <<output, global>>

-----------------------------------------------------------------------------
(* Phase 2                                                                 *)

LockHeldBug == global # None /\ global.status = "running" /\ global.lease > now + 1
LockHeld == global # None /\ global.status = "running" /\ global.lease > now

\* try_claim_global_phase2_job; a task that does not get the lock is done.
ClaimGlobal(w) ==
  /\ pc[w] = "phase2"
  /\ Calm => ~resetting
  /\ IF LockHeld \/ (global # None /\ Later(global.retryAt, global.coolUntil) > now)
     THEN Goto(w, "done") /\ UNCHANGED global
     ELSE /\ global' = [status |-> "running", by |-> w, lease |-> now + Lease,
                        retryAt |-> 0, coolUntil |-> 0]
          /\ Goto(w, "locked")
  /\ UNCHANGED <<now, threads, job, output, work, files, resetting>>

\* get_phase2_input_selection: memory mode, age, use and rank leave out any of
\* the memories.
LoadInputs(w) ==
  /\ pc[w] = "locked"
  /\ \E S \in SUBSET {t \in Threads : output[t] # None /\ deletion[t] # "row"} :
       chosen' = [chosen EXCEPT ![w] =
                    [t \in Threads |-> IF t \in S THEN output[t].source ELSE None]]
  /\ Goto(w, "loaded")
  /\ UNCHANGED <<now, threads, tables, todo, claims, agents, files, resetting>>

SyncInputs(w) ==
  /\ pc[w] = "loaded"
  /\ inputs' = chosen[w]
  /\ Goto(w, "synced")
  /\ UNCHANGED <<now, threads, tables, work, edited, baseline, resetting>>

\* A sync that fails halfway leaves the workspace in any state.
SyncFails(w) ==
  /\ pc[w] = "loaded"
  /\ edited' = TRUE
  /\ Goto(w, "failing")
  /\ UNCHANGED <<now, threads, tables, work, inputs, baseline, resetting>>

\* memory_workspace_diff; with changes the consolidation agent is spawned.
Diff(w) ==
  /\ pc[w] = "synced"
  /\ IF inputs # baseline \/ edited
     THEN Goto(w, "agent") /\ agents' = agents \cup {w}
     ELSE Goto(w, "unchanged") /\ UNCHANGED agents
  /\ UNCHANGED <<now, threads, tables, todo, claims, chosen, files, resetting>>

AgentEdits(w) ==
  /\ w \in agents
  /\ ~edited
  /\ edited' = TRUE
  /\ UNCHANGED <<now, threads, tables, pc, work, inputs, baseline, resetting>>

OwnsGlobal(w) == global # None /\ global.status = "running" /\ global.by = w

\* heartbeat_global_phase2_job; when the lock is lost the worker gives up, while
\* the agent goes on.
Extended(w) ==
  /\ OwnsGlobal(w)
  /\ global' = [global EXCEPT !.lease = now + Lease]

Heartbeat(w) ==
  /\ pc[w] = "agent"
  /\ \/ Extended(w) /\ UNCHANGED pc
     \/ ~OwnsGlobal(w) /\ Goto(w, "failing") /\ UNCHANGED global
  /\ UNCHANGED <<now, threads, job, output, work, files, resetting>>

\* The agent is done: a last heartbeat tells whether the lock was lost.
AgentCompletes(w) ==
  /\ pc[w] = "agent"
  /\ \/ Extended(w) /\ Goto(w, "confirmed")
     \/ ~OwnsGlobal(w) /\ Goto(w, "done") /\ UNCHANGED global
  /\ agents' = agents \ {w}
  /\ UNCHANGED <<now, threads, job, output, todo, claims, chosen, files, resetting>>

NewBaselineBug == baseline
NewBaseline == inputs

ResetBaseline(w) ==
  /\ pc[w] = "confirmed"
  /\ baseline' = NewBaseline
  /\ edited' = FALSE
  /\ Goto(w, "committed")
  /\ UNCHANGED <<now, threads, tables, work, inputs, resetting>>

\* The row that was consolidated is marked, unless it changed meanwhile.
Selected(w) ==
  [t \in Threads |->
     IF output[t] = None THEN None
     ELSE [output[t] EXCEPT !.selected =
             IF chosen[w][t] = output[t].source THEN chosen[w][t] ELSE None]]

SucceedGlobal(w) ==
  /\ pc[w] \in {"unchanged", "committed"}
  /\ IF OwnsGlobal(w)
     THEN /\ global' = [global EXCEPT !.status = "done", !.by = None, !.lease = 0,
                                      !.coolUntil = now + Cooldown]
          /\ output' = Selected(w)
     ELSE UNCHANGED <<global, output>>
  /\ chosen' = [chosen EXCEPT ![w] = NoSource]
  /\ Goto(w, "done")
  /\ UNCHANGED <<now, threads, job, todo, claims, agents, files, resetting>>

\* A step of the consolidation, or its agent, fails; or a heartbeat could not be
\* written, which leaves the agent at work.
GiveUp(w) ==
  /\ pc[w] \in {"locked", "loaded", "synced", "agent", "confirmed"}
  /\ Goto(w, "failing")
  /\ agents' \in {agents, agents \ {w}}
  /\ UNCHANGED <<now, threads, tables, todo, claims, chosen, files, resetting>>

\* job::failed; a running row always has a token.
FailGlobal(w) ==
  /\ pc[w] = "failing"
  /\ IF OwnsGlobal(w)
     THEN global' = [global EXCEPT !.status = "error", !.by = None, !.lease = 0,
                                   !.retryAt = now + RetryDelay]
     ELSE UNCHANGED global
  /\ chosen' = [chosen EXCEPT ![w] = NoSource]
  /\ Goto(w, "done")
  /\ UNCHANGED <<now, threads, job, output, todo, claims, agents, files, resetting>>

\* The agent that a failed consolidation left is shut down by a task of its own
\* (shutdown_consolidation_agent), or is done before.
AgentStops(w) ==
  /\ w \in agents
  /\ pc[w] \in {"failing", "done"}
  /\ agents' = agents \ {w}
  /\ UNCHANGED <<now, threads, tables, pc, todo, claims, chosen, files, resetting>>

-----------------------------------------------------------------------------
(* What happens around the tasks                                           *)

\* The process of a task ends, or SQLite fails it; its rows stay.  An agent ends
\* with the process.
Crash(w) ==
  /\ pc[w] \notin {"idle", "done"}
  /\ Goto(w, "done")
  /\ todo' = [todo EXCEPT ![w] = NoSource]
  /\ claims' = [claims EXCEPT ![w] = NoSource]
  /\ chosen' = [chosen EXCEPT ![w] = NoSource]
  /\ \/ agents' = agents \ {w}
     \/ pc[w] = "failing" /\ UNCHANGED agents
  /\ UNCHANGED <<now, threads, tables, files, resetting>>

\* A turn of the thread.
Touch(t) ==
  /\ deletion[t] = "no"
  /\ updatedAt[t] < now
  /\ updatedAt' = [updatedAt EXCEPT ![t] = now]
  /\ UNCHANGED <<now, deletion, tables, pc, work, files, resetting>>

\* mark_thread_memory_mode_polluted enqueues when the thread was in the last
\* consolidation, which it asks before it changes the mode: the answer may be
\* old by now.
Pollute(t) ==
  /\ deletion[t] # "row"
  /\ global' = Enqueued
  /\ UNCHANGED <<now, threads, job, output, pc, work, files, resetting>>

\* thread/delete removes the rollout file first.
DeleteFile(t) ==
  /\ t \in Deletable
  /\ deletion[t] = "no"
  /\ deletion' = [deletion EXCEPT ![t] = "file"]
  /\ UNCHANGED <<now, updatedAt, tables, pc, work, files, resetting>>

JobLeftBug(t) == job[t]
JobLeft(t) == None

\* delete_thread_memory; a deletion that failed later on is repeated.
DeleteMemory(t) ==
  /\ deletion[t] \in {"file", "memory"}
  /\ deletion' = [deletion EXCEPT ![t] = "memory"]
  /\ job' = [job EXCEPT ![t] = JobLeft(t)]
  /\ output' = [output EXCEPT ![t] = None]
  /\ global' = EnqueuedIf(output[t] # None /\ output[t].selected # None)
  /\ UNCHANGED <<now, updatedAt, pc, work, files, resetting>>

DeleteRow(t) ==
  /\ deletion[t] = "memory"
  /\ deletion' = [deletion EXCEPT ![t] = "row"]
  /\ UNCHANGED <<now, updatedAt, tables, pc, work, files, resetting>>

\* memory/reset: the rows go in a transaction, then the files.
ResetRows ==
  /\ ~resetting
  /\ Calm => Consolidating = {}
  /\ job' = [t \in Threads |-> None]
  /\ output' = [t \in Threads |-> None]
  /\ global' = None
  /\ resetting' = TRUE
  /\ UNCHANGED <<now, threads, pc, work, files>>

ResetFiles ==
  /\ resetting
  /\ inputs' = NoSource
  /\ edited' = FALSE
  /\ baseline' = NoSource
  /\ resetting' = FALSE
  /\ UNCHANGED <<now, threads, tables, pc, work>>

\* Heartbeats come every 90 seconds, a lease is an hour: when all is calm none
\* runs out under a consolidation.
Tick ==
  /\ now < MaxTime
  /\ Calm => \A w \in Consolidating : global.lease > now + 1
  /\ now' = now + 1
  /\ UNCHANGED <<threads, tables, pc, work, files, resetting>>

-----------------------------------------------------------------------------
Phase1(w) ==
  \/ Prune(w) \/ Scan(w)
  \/ \E t \in Threads : \/ Claim(w, t) \/ ReadRollout(w, t)
                        \/ Succeed(w, t) \/ SucceedNoOutput(w, t) \/ Fail(w, t)

Phase2(w) ==
  \/ ClaimGlobal(w) \/ LoadInputs(w) \/ SyncInputs(w) \/ SyncFails(w) \/ Diff(w)
  \/ AgentEdits(w) \/ Heartbeat(w) \/ AgentCompletes(w) \/ ResetBaseline(w)
  \/ SucceedGlobal(w) \/ GiveUp(w) \/ FailGlobal(w) \/ AgentStops(w)

OfThread(t) ==
  \/ Touch(t) \/ Pollute(t)
  \/ DeleteFile(t) \/ DeleteMemory(t) \/ DeleteRow(t)

Next ==
  \/ \E w \in Workers : Phase1(w) \/ Phase2(w) \/ Crash(w)
  \/ \E t \in Threads : OfThread(t)
  \/ ResetRows \/ ResetFiles \/ Tick

Spec == Init /\ [][Next]_vars

-----------------------------------------------------------------------------
\* However the startups interleave, crash and outlive their leases, no more
\* extractions hold a valid lease than one startup may claim.
RunningCap == Cardinality(Active) <= MaxRunning

\* A memory is of exactly the version of its thread that the job row calls
\* done: a worker that lost its claim to another one neither stores an
\* old memory nor marks a newer version as done.
OutputIsDone ==
  \A t \in Threads :
    output[t] # None => job[t] # None /\ job[t].success = output[t].source

\* A deleted thread has no row of a memory, although its deletion takes several
\* steps and tasks that scanned, claimed or read it before go on.  (What was
\* consolidated of it stays in the workspace until the next consolidation.)
DeletedStaysForgotten ==
  \A t \in Threads : deletion[t] \in {"memory", "row"} => output[t] = None

\* Agents at work although their consolidation gave up and released the lock:
\* they are shut down a little later.
Dismissed == {w \in agents : pc[w] = "done"}

\* "Only one consolidation inspects or mutates the workspace at a time"
\* (memories/README.md): true of the consolidations when all is calm, not when
\* memory/reset comes during one; and their agents are alone in the workspace
\* but for those that were dismissed.
OneConsolidation ==
  \A w1 \in Consolidating, w2 \in (Consolidating \cup agents) \ Dismissed : w1 = w2

\* After a success the memories that are marked as consolidated are in the git
\* baseline, so that to forget one shows in the next diff.  (When all is calm.)
SelectedInBaseline ==
  (Calm /\ ~resetting /\ global # None /\ global.status = "done") =>
    \A t \in Threads :
      (output[t] # None /\ output[t].selected # None) => baseline[t] = output[t].selected

-----------------------------------------------------------------------------
DoneVersion(t) == IF job[t] = None THEN -1 ELSE job[t].success

MemoryOf(t) == IF output[t] = None THEN -1 ELSE output[t].source

Forgotten == {t \in Threads : deletion[t] \in {"memory", "row"}}

\* However many startups work on the rows, crash and outlive their leases, each
\* thread is extracted as by one of them: version after version, none twice,
\* and not at all once it is forgotten.
Versions == INSTANCE MemoryVersions WITH
  version <- updatedAt,
  done <- [t \in Threads |-> DoneVersion(t)],
  memory <- [t \in Threads |-> MemoryOf(t)],
  forgotten <- Forgotten

MemoryVersionsSpec == Versions!MemorySpec
=============================================================================
