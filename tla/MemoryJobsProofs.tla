-------------------------- MODULE MemoryJobsProofs --------------------------
(***************************************************************************)
(* Proofs about MemoryJobs, for any threads and workers and any bounds.    *)
(***************************************************************************)
EXTENDS MemoryJobs, FiniteSetTheorems, TLAPS

\* A job runs with a retry left, for a source newer than what was done.
RunningIsNeeded ==
  \A t \in Threads :
    (job[t] # None /\ job[t].status = "running") =>
      job[t].retries >= 1 /\ job[t].input > job[t].success

\* The claim that owns a row is for the row's version of the thread, and was not
\* read from a thread that is forgotten.
ClaimIsOfRow ==
  \A w \in Workers, t \in Threads :
    (claims[w][t] # None /\ Owns(w, t)) =>
      /\ claims[w][t].source = job[t].input
      /\ deletion[t] \in {"memory", "row"} => ~claims[w][t].read

TypeInv == TypeOK /\ RunningIsNeeded

-----------------------------------------------------------------------------
(* Types                                                                   *)

LEMMA NoneIsNoRow ==
  /\ None \notin Times
  /\ NoSource \in Sources
  /\ {MaxRunning, Retries, Lease, RetryDelay, Cooldown} \subseteq Nat \ {0}
  /\ {Idle, MaxUnused, MaxTime} \subseteq Nat
BY ConstAssumption DEF NoSource, Sources, Times

LEMMA ExceptType ==
  ASSUME NEW S, NEW T, NEW V, NEW f \in [S -> [T -> V]],
         NEW s \in S, NEW t \in T, NEW v \in V
  PROVE  [f EXCEPT ![s][t] = v] \in [S -> [T -> V]]
<1>1. [f[s] EXCEPT ![t] = v] \in [T -> V]
  OBVIOUS
<1>. QED
  BY <1>1

LEMMA EnqueuedType ==
  ASSUME TypeOK
  PROVE  /\ Enqueued \in GlobalJobs \cup {None}
         /\ \A c : EnqueuedIf(c) \in GlobalJobs \cup {None}
<1>1. Enqueued \in GlobalJobs \cup {None}
  BY DEF TypeOK, Enqueued, GlobalJobs
<1>. QED
  BY <1>1 DEF EnqueuedIf, TypeOK

LEMMA InitType == Init => TypeInv
<1> SUFFICES ASSUME Init PROVE TypeInv
  OBVIOUS
<1>1. NoSource \in [Threads -> Claims \cup {None}] /\ 0 \in Times
  BY NoneIsNoRow DEF NoSource, Times
<1>2. TypeOK
  BY <1>1, NoneIsNoRow DEF Init, TypeOK
<1>3. RunningIsNeeded
  BY DEF Init, RunningIsNeeded
<1>. QED
  BY <1>2, <1>3 DEF TypeInv

LEMMA ClaimType ==
  ASSUME TypeInv, NEW w \in Workers, NEW t \in Threads, Claim(w, t)
  PROVE  TypeInv'
<1>. DEFINE source == todo[w][t]
<1>. USE NoneIsNoRow DEF TypeInv
<1>1. source \in Times /\ now \in Nat
  BY DEF Claim, TypeOK, Sources, Times
<1>2. job' \in [Threads -> Jobs \cup {None}]
  <2>1. ClaimedJob(w, t, source) \in Jobs
    BY <1>1 DEF ClaimedJob, TypeOK, Jobs
  <2>. QED
    BY <2>1 DEF Claim, TypeOK
<1>3. claims' \in [Workers -> [Threads -> Claims \cup {None}]]
  <2>1. [source |-> source, read |-> FALSE] \in Claims
    BY <1>1 DEF Claims
  <2>2. claims \in [Workers -> [Threads -> Claims \cup {None}]]
    BY DEF TypeOK
  <2>3. [claims EXCEPT ![w][t] = [source |-> source, read |-> FALSE]]
          \in [Workers -> [Threads -> Claims \cup {None}]]
    BY <2>1, <2>2, ExceptType
  <2>. QED
    BY <2>2, <2>3 DEF Claim
<1>4. todo' \in [Workers -> Sources]
  <2>1. todo \in [Workers -> [Threads -> Times \cup {None}]]
    BY DEF TypeOK, Sources
  <2>2. [todo EXCEPT ![w][t] = None] \in [Workers -> Sources]
    BY <2>1, ExceptType DEF Sources
  <2>3. [todo EXCEPT ![w] = NoSource] \in [Workers -> Sources]
    BY DEF TypeOK
  <2>. QED
    BY <2>2, <2>3 DEF Claim
<1>5. pc' \in [Workers -> {"idle", "scanning", "claiming", "sampling", "phase2", "done"}
                          \cup Consolidation]
  BY DEF Claim, TypeOK, Goto
<1>6. TypeOK'
  BY <1>2, <1>3, <1>4, <1>5 DEF Claim, TypeOK, threads, files
<1>7. RunningIsNeeded'
  <2>1. CASE ~(~UpToDate(t, source) /\ Claimable(t, source) /\ BelowLimit(t))
    BY <2>1 DEF Claim, RunningIsNeeded
  <2>2. CASE ~UpToDate(t, source) /\ Claimable(t, source)
    <3>1. ClaimedJob(w, t, source).retries >= 1
      BY <1>1, <2>2 DEF ClaimedJob, Claimable, RetryDue, RunningIsNeeded, TypeOK, Jobs, Active
    <3>2. ClaimedJob(w, t, source).input > ClaimedJob(w, t, source).success
      BY <1>1, <2>2 DEF ClaimedJob, UpToDate, TypeOK, Jobs, Times
    <3>3. \A u \in Threads \ {t} : job'[u] = job[u]
      BY DEF Claim, TypeOK
    <3>4. job'[t] = job[t] \/ job'[t] = ClaimedJob(w, t, source)
      BY DEF Claim, TypeOK
    <3>. QED
      BY <3>1, <3>2, <3>3, <3>4 DEF RunningIsNeeded
  <2>. QED
    BY <2>1, <2>2
<1>. QED
  BY <1>6, <1>7

LEMMA FinishType ==
  ASSUME TypeOK, NEW w \in Workers, NEW t \in Threads, Finish(w, t)
  PROVE  /\ claims' \in [Workers -> [Threads -> Claims \cup {None}]]
         /\ pc' \in [Workers -> {"idle", "scanning", "claiming", "sampling", "phase2", "done"}
                                \cup Consolidation]
BY DEF Finish, Goto, TypeOK

LEMMA EndOfJobType ==
  ASSUME TypeInv, NEW w \in Workers, NEW t \in Threads,
         Succeed(w, t) \/ SucceedNoOutput(w, t) \/ Fail(w, t)
  PROVE  TypeInv'
<1>. USE NoneIsNoRow, EnqueuedType DEF TypeInv
<1>1. Finish(w, t)
  BY DEF Succeed, SucceedNoOutput, Fail
<1>2. job' \in [Threads -> Jobs \cup {None}] /\ RunningIsNeeded'
  <2>1. CASE UNCHANGED job
    BY <2>1 DEF TypeOK, RunningIsNeeded
  <2>2. CASE Owns(w, t) /\ job' = Succeeded(t)
    <3>1. /\ job[t] \in Jobs
          /\ job' = [job EXCEPT ![t] =
               [job[t] EXCEPT !.status = "done", !.by = None, !.lease = 0,
                              !.success = job[t].input]]
      BY <2>2 DEF TypeOK, Succeeded, Owns
    <3>2. [job[t] EXCEPT !.status = "done", !.by = None, !.lease = 0,
                         !.success = job[t].input] \in Jobs
      BY <3>1 DEF Jobs
    <3>3. job'[t].status = "done"
      BY <3>1 DEF TypeOK, Jobs
    <3>. QED
      BY <3>1, <3>2, <3>3 DEF TypeOK, RunningIsNeeded
  <2>3. CASE Owns(w, t) /\ Fail(w, t)
    <3>1. job[t].retries - 1 \in 0 .. Retries /\ now + RetryDelay \in Nat
      BY <2>3 DEF TypeOK, RunningIsNeeded, Owns, Jobs, Times
    <3>. QED
      BY <2>3, <3>1 DEF TypeOK, RunningIsNeeded, Fail, Owns, Jobs
  <2>. QED
    BY <2>1, <2>2, <2>3 DEF Succeed, SucceedNoOutput, Fail, tables
<1>3. output' \in [Threads -> Outputs \cup {None}]
  <2>1. CASE Succeed(w, t)
    <3>1. claims[w][t].source \in Times
      BY <1>1 DEF Finish, TypeOK, Claims
    <3>2. Upserted(t, claims[w][t].source) \in [Threads -> Outputs \cup {None}]
      BY <3>1 DEF Upserted, TypeOK, Outputs
    <3>. QED
      BY <2>1, <3>2 DEF Succeed, tables, TypeOK
  <2>. QED
    BY <2>1 DEF SucceedNoOutput, Fail, tables, TypeOK
<1>4. global' \in GlobalJobs \cup {None}
  BY DEF Succeed, SucceedNoOutput, Fail, tables, TypeOK
<1>5. TypeOK'
  BY <1>1, <1>2, <1>3, <1>4, FinishType DEF TypeOK, Finish, threads, files
<1>. QED
  BY <1>2, <1>5

LEMMA Phase1Type ==
  ASSUME TypeInv, NEW w \in Workers, Phase1(w)
  PROVE  TypeInv'
<1>. USE NoneIsNoRow DEF TypeInv
<1>1. ASSUME Prune(w)
      PROVE  TypeInv'
  <2>1. output' \in [Threads -> Outputs \cup {None}]
    BY <1>1 DEF Prune, TypeOK
  <2>. QED
    BY <1>1, <2>1 DEF Prune, Goto, TypeOK, RunningIsNeeded, threads, work, files
<1>2. ASSUME Scan(w)
      PROVE  TypeInv'
  <2>1. PICK found \in SUBSET Threads :
          todo' = [todo EXCEPT ![w] =
                     [t \in Threads |-> IF t \in found THEN updatedAt[t] ELSE None]]
    BY <1>2 DEF Scan
  <2>2. [t \in Threads |-> IF t \in found THEN updatedAt[t] ELSE None] \in Sources
    BY DEF TypeOK, Sources
  <2>3. todo' \in [Workers -> Sources]
    BY <2>1, <2>2 DEF TypeOK
  <2>. QED
    BY <1>2, <2>3 DEF Scan, Goto, TypeOK, RunningIsNeeded, threads, tables, files
<1>3. ASSUME NEW t \in Threads, Claim(w, t)
      PROVE  TypeInv'
  BY <1>3, ClaimType
<1>4. ASSUME NEW t \in Threads, ReadRollout(w, t)
      PROVE  TypeInv'
  <2>1. claims \in [Workers -> [Threads -> Claims \cup {None}]] /\ claims[w][t] \in Claims
    BY <1>4 DEF ReadRollout, TypeOK
  <2>2. [claims[w][t] EXCEPT !.read = TRUE] \in Claims
    BY <2>1 DEF Claims
  <2>3. claims' = [claims EXCEPT ![w][t] = [claims[w][t] EXCEPT !.read = TRUE]]
    BY <1>4 DEF ReadRollout
  <2>4. claims' \in [Workers -> [Threads -> Claims \cup {None}]]
    BY <2>1, <2>2, <2>3, ExceptType
  <2>. QED
    BY <1>4, <2>4 DEF ReadRollout, TypeOK, RunningIsNeeded, threads, tables, files
<1>5. ASSUME NEW t \in Threads, Succeed(w, t) \/ SucceedNoOutput(w, t) \/ Fail(w, t)
      PROVE  TypeInv'
  BY <1>5, EndOfJobType
<1>. QED
  BY <1>1, <1>2, <1>3, <1>4, <1>5 DEF Phase1

LEMMA Phase2Type ==
  ASSUME TypeInv, NEW w \in Workers, Phase2(w)
  PROVE  TypeInv'
<1>. USE NoneIsNoRow DEF TypeInv, Consolidation
<1>t. now \in Nat /\ now + Lease \in Nat /\ now + RetryDelay \in Nat /\ now + Cooldown \in Nat
  BY DEF TypeOK, Times
<1>r. RunningIsNeeded'
  BY DEF RunningIsNeeded, Phase2, ClaimGlobal, LoadInputs, SyncInputs, SyncFails, Diff,
         AgentEdits, Heartbeat, AgentCompletes, ResetBaseline, SucceedGlobal, GiveUp,
         FailGlobal, AgentStops, tables
<1>n. [chosen EXCEPT ![w] = NoSource] \in [Workers -> Sources]
  BY DEF TypeOK
<1>1. ASSUME ClaimGlobal(w)
      PROVE  TypeOK'
  <2>1. global' \in GlobalJobs \cup {None}
    BY <1>1, <1>t DEF ClaimGlobal, TypeOK, GlobalJobs
  <2>. QED
    BY <1>1, <2>1 DEF ClaimGlobal, Goto, TypeOK, threads, work, files
<1>2. ASSUME LoadInputs(w)
      PROVE  TypeOK'
  <2>1. PICK S \in SUBSET Threads :
          /\ \A t \in S : output[t] # None
          /\ chosen' = [chosen EXCEPT ![w] =
                          [t \in Threads |-> IF t \in S THEN output[t].source ELSE None]]
    BY <1>2 DEF LoadInputs
  <2>2. [t \in Threads |-> IF t \in S THEN output[t].source ELSE None] \in Sources
    BY <2>1 DEF TypeOK, Sources, Outputs
  <2>3. chosen' \in [Workers -> Sources]
    BY <2>1, <2>2 DEF TypeOK
  <2>. QED
    BY <1>2, <2>3 DEF LoadInputs, Goto, TypeOK, threads, tables, files
<1>3. ASSUME \/ SyncInputs(w) \/ SyncFails(w) \/ Diff(w) \/ AgentEdits(w)
             \/ GiveUp(w) \/ AgentStops(w)
      PROVE  TypeOK'
  <2>1. inputs' \in Sources
    BY <1>3 DEF SyncInputs, SyncFails, Diff, AgentEdits, GiveUp, AgentStops, TypeOK, files
  <2>3. edited' \in BOOLEAN
    <3>1. edited' = TRUE \/ edited' = edited
      BY <1>3 DEF SyncInputs, SyncFails, Diff, AgentEdits, GiveUp, AgentStops, files
    <3>. QED
      BY <3>1 DEF TypeOK
  <2>2. pc' \in [Workers -> {"idle", "scanning", "claiming", "sampling", "phase2", "done"}
                           \cup Consolidation]
    BY <1>3 DEF SyncInputs, SyncFails, Diff, AgentEdits, GiveUp, AgentStops, Goto, TypeOK
  <2>4. agents' \subseteq Workers
    BY <1>3 DEF SyncInputs, SyncFails, Diff, AgentEdits, GiveUp, AgentStops, TypeOK, work
  <2>. QED
    BY <1>3, <2>1, <2>2, <2>3, <2>4
       DEF SyncInputs, SyncFails, Diff, AgentEdits, GiveUp, AgentStops, TypeOK,
           threads, tables, work, files
<1>4. ASSUME Heartbeat(w) \/ AgentCompletes(w)
      PROVE  TypeOK'
  <2>1. global' \in GlobalJobs \cup {None}
    BY <1>4, <1>t DEF Heartbeat, AgentCompletes, Extended, OwnsGlobal, TypeOK, GlobalJobs
  <2>. QED
    BY <1>4, <2>1 DEF Heartbeat, AgentCompletes, Goto, TypeOK, threads, work, files
<1>5. ASSUME ResetBaseline(w)
      PROVE  TypeOK'
  BY <1>5 DEF ResetBaseline, NewBaseline, Goto, TypeOK, threads, tables, work
<1>6. ASSUME SucceedGlobal(w)
      PROVE  TypeOK'
  <2>1. global' \in GlobalJobs \cup {None}
    <3>1. CASE OwnsGlobal(w)
      <4>1. global \in GlobalJobs
        BY <3>1 DEF OwnsGlobal, TypeOK
      <4>2. [global EXCEPT !.status = "done", !.by = None, !.lease = 0,
                           !.coolUntil = now + Cooldown] \in GlobalJobs
        BY <4>1, <1>t DEF GlobalJobs
      <4>. QED
        BY <1>6, <3>1, <4>2 DEF SucceedGlobal
    <3>. QED
      BY <1>6, <3>1 DEF SucceedGlobal, TypeOK
  <2>2. ASSUME NEW t \in Threads, output[t] # None
        PROVE  [output[t] EXCEPT !.selected =
                  IF chosen[w][t] = output[t].source THEN chosen[w][t] ELSE None] \in Outputs
    BY <2>2 DEF TypeOK, Outputs, Sources
  <2>3. Selected(w) \in [Threads -> Outputs \cup {None}]
    BY <2>2 DEF Selected
  <2>. QED
    BY <1>6, <1>n, <2>1, <2>3 DEF SucceedGlobal, Goto, TypeOK, threads, files
<1>7. ASSUME FailGlobal(w)
      PROVE  TypeOK'
  <2>1. global' \in GlobalJobs \cup {None}
    <3>1. CASE OwnsGlobal(w)
      <4>1. global \in GlobalJobs
        BY <3>1 DEF OwnsGlobal, TypeOK
      <4>2. [global EXCEPT !.status = "error", !.by = None, !.lease = 0,
                           !.retryAt = now + RetryDelay] \in GlobalJobs
        BY <4>1, <1>t DEF GlobalJobs
      <4>. QED
        BY <1>7, <3>1, <4>2 DEF FailGlobal
    <3>. QED
      BY <1>7, <3>1 DEF FailGlobal, TypeOK
  <2>. QED
    BY <1>7, <1>n, <2>1 DEF FailGlobal, Goto, TypeOK, threads, files
<1>. QED
  BY <1>r, <1>1, <1>2, <1>3, <1>4, <1>5, <1>6, <1>7 DEF Phase2

LEMMA AroundType ==
  ASSUME TypeInv,
         \/ \E w \in Workers : Crash(w)
         \/ \E t \in Threads : OfThread(t)
         \/ ResetRows \/ ResetFiles \/ Tick \/ UNCHANGED vars
  PROVE  TypeInv'
<1>. USE NoneIsNoRow, EnqueuedType DEF TypeInv
<1>1. ASSUME NEW w \in Workers, Crash(w)
      PROVE  TypeInv'
  <2>1. NoSource \in [Threads -> Claims \cup {None}]
    BY DEF NoSource
  <2>. QED
    BY <1>1, <2>1 DEF Crash, Goto, TypeOK, RunningIsNeeded, threads, tables, files
<1>2. ASSUME NEW t \in Threads, Touch(t) \/ Pollute(t) \/ DeleteFile(t) \/ DeleteRow(t)
      PROVE  TypeInv'
  BY <1>2 DEF Touch, Pollute, DeleteFile, DeleteRow, TypeOK, RunningIsNeeded,
              threads, tables, work, files
<1>3. ASSUME NEW t \in Threads, DeleteMemory(t)
      PROVE  TypeInv'
  <2>1. job' \in [Threads -> Jobs \cup {None}] /\ output' \in [Threads -> Outputs \cup {None}]
    BY <1>3 DEF DeleteMemory, JobLeft, TypeOK
  <2>2. RunningIsNeeded'
    BY <1>3 DEF DeleteMemory, JobLeft, TypeOK, RunningIsNeeded
  <2>. QED
    BY <1>3, <2>1, <2>2 DEF DeleteMemory, TypeOK, work, files
<1>4. ASSUME ResetRows
      PROVE  TypeInv'
  BY <1>4 DEF ResetRows, TypeOK, RunningIsNeeded, threads, work, files
<1>5. ASSUME ResetFiles
      PROVE  TypeInv'
  BY <1>5 DEF ResetFiles, TypeOK, RunningIsNeeded, threads, tables, work
<1>6. ASSUME Tick
      PROVE  TypeInv'
  BY <1>6 DEF Tick, TypeOK, Times, RunningIsNeeded, threads, tables, work, files
<1>7. ASSUME UNCHANGED vars
      PROVE  TypeInv'
  BY <1>7 DEF vars, TypeOK, RunningIsNeeded, threads, tables, work, files
<1>. QED
  BY <1>1, <1>2, <1>3, <1>4, <1>5, <1>6, <1>7 DEF OfThread

LEMMA TypeStep == TypeInv /\ [Next]_vars => TypeInv'
BY Phase1Type, Phase2Type, AroundType DEF Next

\* Every variable keeps its type, and so do the retry budgets: none falls below
\* zero, because only a job with a retry left is claimed again.
THEOREM TypeCorrect == Spec => []TypeOK
<1>1. Init => TypeInv
  BY InitType
<1>2. TypeInv /\ [Next]_vars => TypeInv'
  BY TypeStep
<1>3. TypeInv => TypeOK
  BY DEF TypeInv
<1>. QED
  BY <1>1, <1>2, <1>3, PTL DEF Spec

-----------------------------------------------------------------------------
(* What the tables say of each other                                       *)

DataInv == OutputIsDone /\ DeletedStaysForgotten /\ ClaimIsOfRow

LEMMA ClaimData ==
  ASSUME TypeInv, DataInv, NEW w \in Workers, NEW t \in Threads, Claim(w, t)
  PROVE  DataInv'
<1>. DEFINE source == todo[w][t]
            row == ClaimedJob(w, t, source)
<1>. USE DEF DataInv
<1>1. CASE UNCHANGED <<job, claims>>
  BY <1>1 DEF Claim, OutputIsDone, DeletedStaysForgotten, ClaimIsOfRow, Owns, threads
<1>2. CASE /\ ~UpToDate(t, source)
           /\ job' = [job EXCEPT ![t] = row]
           /\ claims' = [claims EXCEPT ![w][t] = [source |-> source, read |-> FALSE]]
  <2>1. row.by = w /\ row.input = source
        /\ row.success = (IF job[t] = None THEN -1 ELSE job[t].success)
    BY DEF ClaimedJob
  <2>2. job'[t] = row /\ \A u \in Threads \ {t} : job'[u] = job[u]
    BY <1>2 DEF TypeInv, TypeOK
  <2>3. /\ claims'[w][t] = [source |-> source, read |-> FALSE]
        /\ \A v \in Workers, u \in Threads :
             (v = w /\ u = t) \/ claims'[v][u] = claims[v][u]
    BY <1>2 DEF TypeInv, TypeOK
  <2>4. output' = output /\ deletion' = deletion
    BY DEF Claim, threads
  <2>n. job'[t] # None
    <3>2. now \in Nat /\ source \in Times
      BY NoneIsNoRow DEF Claim, TypeInv, TypeOK, Sources, Times
    <3>3. row \in Jobs
      BY <3>2, NoneIsNoRow DEF ClaimedJob, TypeInv, TypeOK, Jobs, Times
    <3>. QED
      BY <2>2, <3>3, NoneAssumption
  <2>5. OutputIsDone'
    BY <2>1, <2>2, <2>n, <2>4 DEF OutputIsDone
  <2>6. DeletedStaysForgotten'
    BY <2>4 DEF DeletedStaysForgotten
  <2>7. ClaimIsOfRow'
    BY <2>1, <2>2, <2>3, <2>4 DEF ClaimIsOfRow, Owns
  <2>. QED
    BY <2>5, <2>6, <2>7
<1>. QED
  BY <1>1, <1>2 DEF Claim

LEMMA EndOfJobData ==
  ASSUME TypeInv, DataInv, NEW w \in Workers, NEW t \in Threads,
         Succeed(w, t) \/ SucceedNoOutput(w, t) \/ Fail(w, t)
  PROVE  DataInv'
<1>. USE DEF DataInv
<1>1. /\ claims[w][t] # None
      /\ claims' = [claims EXCEPT ![w][t] = None]
      /\ deletion' = deletion
  BY DEF Succeed, SucceedNoOutput, Fail, Finish, threads
<1>2. \A v \in Workers, u \in Threads : claims'[v][u] \in {None, claims[v][u]}
  BY <1>1 DEF TypeInv, TypeOK
<1>3. CASE UNCHANGED <<job, output>>
  BY <1>1, <1>2, <1>3 DEF OutputIsDone, DeletedStaysForgotten, ClaimIsOfRow, Owns
<1>4. CASE Owns(w, t) /\ ~(UNCHANGED <<job, output>>)
  <2>1. job[t] \in Jobs /\ job[t] # None /\ job[t].input > job[t].success
    BY <1>4 DEF Owns, TypeInv, TypeOK, RunningIsNeeded
  <2>2. \A u \in Threads \ {t} : job'[u] = job[u] /\ output'[u] = output[u]
    BY <1>4 DEF Succeed, SucceedNoOutput, Fail, Succeeded, Upserted, tables, TypeInv, TypeOK
  <2>3. job'[t] # None /\ job'[t].status # "running"
    <3>1. job'[t].status \in {"done", "error"}
      BY <1>4, <2>1 DEF Succeed, SucceedNoOutput, Fail, Succeeded, tables, TypeInv, TypeOK, Jobs
    <3>3. ASSUME job' = Succeeded(t)
          PROVE  job'[t] # None
      <4>1. job'[t] = [job[t] EXCEPT !.status = "done", !.by = None, !.lease = 0,
                                     !.success = job[t].input]
        BY <2>1, <3>3 DEF Succeeded, TypeInv, TypeOK
      <4>2. [job[t] EXCEPT !.status = "done", !.by = None, !.lease = 0,
                           !.success = job[t].input] \in Jobs
        BY <2>1 DEF Jobs
      <4>. QED
        BY <4>1, <4>2, NoneAssumption
    <3>4. ASSUME Fail(w, t)
          PROVE  job'[t] # None
      <4>1. job'[t] = [job[t] EXCEPT !.status = "error", !.by = None, !.lease = 0,
                                     !.retryAt = now + RetryDelay,
                                     !.retries = job[t].retries - 1]
        BY <1>4, <2>1, <3>4 DEF Fail, TypeInv, TypeOK
      <4>2. now + RetryDelay \in Nat /\ job[t].retries - 1 \in 0 .. Retries
        BY <1>4, NoneIsNoRow DEF Owns, TypeInv, TypeOK, RunningIsNeeded, Jobs, Times
      <4>3. [job[t] EXCEPT !.status = "error", !.by = None, !.lease = 0,
                           !.retryAt = now + RetryDelay,
                           !.retries = job[t].retries - 1] \in Jobs
        BY <2>1, <4>2 DEF Jobs
      <4>. QED
        BY <4>1, <4>3, NoneAssumption
    <3>5. job'[t] # None
      BY <1>4, <3>3, <3>4 DEF Succeed, SucceedNoOutput
    <3>. QED
      BY <3>1, <3>5
  <2>4. ClaimIsOfRow'
    BY <1>1, <1>2, <2>2, <2>3 DEF ClaimIsOfRow, Owns
  <2>5. CASE Succeed(w, t)
    <3>1. claims[w][t].source = job[t].input /\ deletion[t] \notin {"memory", "row"}
      BY <1>1, <1>4, <2>5 DEF ClaimIsOfRow, Succeed
    <3>2. job'[t].success = job[t].input
      BY <1>4, <2>1, <2>5 DEF Succeed, Succeeded, TypeInv, TypeOK, Jobs
    <3>3. output[t] = None \/ claims[w][t].source >= output[t].source
      BY <2>1, <3>1 DEF OutputIsDone, TypeInv, TypeOK, Jobs, Outputs, Times
    <3>4. output'[t].source = claims[w][t].source
      BY <1>4, <2>5, <3>3 DEF Succeed, Upserted, TypeInv, TypeOK, Outputs
    <3>5. OutputIsDone'
      BY <2>2, <2>3, <3>1, <3>2, <3>4 DEF OutputIsDone
    <3>6. DeletedStaysForgotten'
      BY <1>1, <2>2, <3>1 DEF DeletedStaysForgotten
    <3>. QED
      BY <2>4, <3>5, <3>6
  <2>6. CASE SucceedNoOutput(w, t)
    <3>1. output'[t] = None
      BY <1>4, <2>6 DEF SucceedNoOutput, TypeInv, TypeOK
    <3>. QED
      BY <1>1, <2>2, <2>4, <3>1 DEF OutputIsDone, DeletedStaysForgotten
  <2>7. CASE Fail(w, t)
    <3>1. output' = output /\ job'[t].success = job[t].success
      BY <1>4, <2>1, <2>7 DEF Fail, TypeInv, TypeOK, Jobs
    <3>. QED
      BY <1>1, <2>2, <2>3, <2>4, <3>1 DEF OutputIsDone, DeletedStaysForgotten
  <2>. QED
    BY <2>5, <2>6, <2>7
<1>. QED
  BY <1>3, <1>4 DEF Succeed, SucceedNoOutput, Fail, tables

LEMMA DataStep ==
  ASSUME TypeInv, DataInv, [Next]_vars
  PROVE  DataInv'
<1>. USE DEF DataInv
<1>0. CASE UNCHANGED <<job, output, claims, deletion>>
  BY <1>0 DEF OutputIsDone, DeletedStaysForgotten, ClaimIsOfRow, Owns
<1>1. ASSUME NEW w \in Workers, Prune(w)
      PROVE  DataInv'
  <2>1. \A t \in Threads : output'[t] \in {None, output[t]}
    BY <1>1 DEF Prune
  <2>. QED
    BY <1>1, <2>1 DEF Prune, OutputIsDone, DeletedStaysForgotten, ClaimIsOfRow, Owns,
                      threads, work
<1>2. ASSUME NEW w \in Workers, NEW t \in Threads, Claim(w, t)
      PROVE  DataInv'
  BY <1>2, ClaimData
<1>3. ASSUME NEW w \in Workers, NEW t \in Threads, ReadRollout(w, t)
      PROVE  DataInv'
  <2>1. /\ claims'[w][t] = [claims[w][t] EXCEPT !.read = TRUE]
        /\ \A v \in Workers, u \in Threads :
             (v = w /\ u = t) \/ claims'[v][u] = claims[v][u]
    BY <1>3 DEF ReadRollout, TypeInv, TypeOK
  <2>2. claims'[w][t].source = claims[w][t].source /\ deletion[t] = "no"
    BY <1>3, <2>1 DEF ReadRollout, TypeInv, TypeOK, Claims
  <2>3. job' = job /\ output' = output /\ deletion' = deletion /\ claims[w][t] # None
    BY <1>3 DEF ReadRollout, threads, tables
  <2>4. \A v \in Workers, u \in Threads : Owns(v, u)' <=> Owns(v, u)
    BY <2>3 DEF Owns
  <2>5. ASSUME NEW v \in Workers, NEW u \in Threads, claims'[v][u] # None, Owns(v, u)'
        PROVE  /\ claims'[v][u].source = job'[u].input
               /\ deletion'[u] \in {"memory", "row"} => ~claims'[v][u].read
    <3>1. Owns(v, u)
      BY <2>4, <2>5
    <3>2. CASE v = w /\ u = t
      BY <2>2, <2>3, <3>1, <3>2 DEF ClaimIsOfRow
    <3>3. CASE claims'[v][u] = claims[v][u]
      BY <2>3, <2>5, <3>1, <3>3 DEF ClaimIsOfRow
    <3>. QED
      BY <2>1, <3>2, <3>3
  <2>6. ClaimIsOfRow'
    BY <2>5 DEF ClaimIsOfRow
  <2>. QED
    BY <2>3, <2>6 DEF OutputIsDone, DeletedStaysForgotten
<1>4. ASSUME NEW w \in Workers, NEW t \in Threads,
             Succeed(w, t) \/ SucceedNoOutput(w, t) \/ Fail(w, t)
      PROVE  DataInv'
  BY <1>4, EndOfJobData
<1>5. ASSUME NEW w \in Workers, SucceedGlobal(w)
      PROVE  DataInv'
  <2>1. \A t \in Threads : /\ output'[t] = None <=> output[t] = None
                           /\ output[t] # None => output'[t].source = output[t].source
    <3>1. CASE output' = output
      BY <3>1
    <3>2. CASE output' = Selected(w)
      <4>1. ASSUME NEW t \in Threads, output[t] # None
            PROVE  /\ output'[t] # None
                   /\ output'[t].source = output[t].source
        <5>1. output'[t] = [output[t] EXCEPT !.selected =
                              IF chosen[w][t] = output[t].source THEN chosen[w][t] ELSE None]
          BY <3>2, <4>1 DEF Selected
        <5>2. output[t] \in Outputs
          BY <4>1 DEF TypeInv, TypeOK
        <5>3. output'[t] \in Outputs /\ output'[t].source = output[t].source
          BY <5>1, <5>2 DEF Outputs, TypeInv, TypeOK, Sources
        <5>. QED
          BY <5>3, NoneAssumption
      <4>. QED
        BY <3>2, <4>1 DEF Selected
    <3>. QED
      BY <1>5, <3>1, <3>2 DEF SucceedGlobal
  <2>. QED
    BY <1>5, <2>1 DEF SucceedGlobal, OutputIsDone, DeletedStaysForgotten, ClaimIsOfRow, Owns,
                      threads
<1>6. ASSUME NEW w \in Workers, Crash(w)
      PROVE  DataInv'
  <2>1. \A v \in Workers, t \in Threads : claims'[v][t] \in {None, claims[v][t]}
    BY <1>6 DEF Crash, NoSource, TypeInv, TypeOK
  <2>. QED
    BY <1>6, <2>1 DEF Crash, OutputIsDone, DeletedStaysForgotten, ClaimIsOfRow, Owns,
                      threads, tables
<1>7. ASSUME NEW t \in Threads, DeleteFile(t)
      PROVE  DataInv'
  BY <1>7 DEF DeleteFile, OutputIsDone, DeletedStaysForgotten, ClaimIsOfRow, Owns,
              tables, work, TypeInv, TypeOK
<1>8. ASSUME NEW t \in Threads, DeleteMemory(t)
      PROVE  DataInv'
  <2>1. /\ job'[t] = None /\ output'[t] = None
        /\ \A u \in Threads \ {t} : /\ job'[u] = job[u]
                                    /\ output'[u] = output[u]
                                    /\ deletion'[u] = deletion[u]
        /\ claims' = claims
    BY <1>8 DEF DeleteMemory, JobLeft, work, TypeInv, TypeOK
  <2>. QED
    BY <2>1 DEF OutputIsDone, DeletedStaysForgotten, ClaimIsOfRow, Owns
<1>9. ASSUME NEW t \in Threads, DeleteRow(t)
      PROVE  DataInv'
  BY <1>9 DEF DeleteRow, OutputIsDone, DeletedStaysForgotten, ClaimIsOfRow, Owns,
              tables, work, TypeInv, TypeOK
<1>10. ASSUME ResetRows
       PROVE  DataInv'
  BY <1>10 DEF ResetRows, OutputIsDone, DeletedStaysForgotten, ClaimIsOfRow, Owns, threads, work
<1>. QED
  <2>1. [Next]_vars =>
          \/ UNCHANGED <<job, output, claims, deletion>>
          \/ \E w \in Workers : Prune(w) \/ SucceedGlobal(w) \/ Crash(w)
          \/ \E w \in Workers, t \in Threads :
               Claim(w, t) \/ ReadRollout(w, t)
                 \/ Succeed(w, t) \/ SucceedNoOutput(w, t) \/ Fail(w, t)
          \/ \E t \in Threads : DeleteFile(t) \/ DeleteMemory(t) \/ DeleteRow(t)
          \/ ResetRows
    BY DEF Next, Phase1, Phase2, OfThread, Scan, ClaimGlobal, LoadInputs, SyncInputs,
           SyncFails, Diff, AgentEdits, Heartbeat, AgentCompletes, ResetBaseline, GiveUp,
           FailGlobal, AgentStops, Touch, Pollute, ResetFiles, Tick, vars, threads, tables, work, files
  <2>. QED
    BY <2>1, <1>0, <1>1, <1>2, <1>3, <1>4, <1>5, <1>6, <1>7, <1>8, <1>9, <1>10

\* Whatever interleaving of claims, crashes, expired leases, deletions and resets:
\* a stored memory is of exactly the version its job row calls done, and a
\* deleted thread has none.
THEOREM MemoriesAreCurrent == Spec => [](OutputIsDone /\ DeletedStaysForgotten)
<1>1. Init => TypeInv /\ DataInv
  BY InitType DEF Init, DataInv, OutputIsDone, DeletedStaysForgotten, ClaimIsOfRow, Owns
<1>2. (TypeInv /\ DataInv) /\ [Next]_vars => (TypeInv /\ DataInv)'
  BY TypeStep, DataStep
<1>3. DataInv => OutputIsDone /\ DeletedStaysForgotten
  BY DEF DataInv
<1>. QED
  BY <1>1, <1>2, <1>3, PTL DEF Spec

\* In particular a deleted thread has no memory, whatever tasks were under way.
THEOREM DeletedForgotten == Spec => []DeletedStaysForgotten
BY MemoriesAreCurrent, PTL

-----------------------------------------------------------------------------
(* The limit of the jobs that run                                          *)

LEMMA ActiveFinite ==
  /\ IsFiniteSet(Active) /\ Cardinality(Active) \in Nat
  /\ \A S \in SUBSET Active : IsFiniteSet(S) /\ Cardinality(S) \in Nat
                              /\ Cardinality(S) <= Cardinality(Active)
<1>1. IsFiniteSet(Active)
  BY ConstAssumption, FS_Subset DEF Active
<1>. QED
  BY <1>1, FS_Subset, FS_CardinalityType

LEMMA CapStep ==
  ASSUME TypeInv, RunningCap, [Next]_vars
  PROVE  RunningCap'
<1>m. MaxRunning \in Nat
  BY NoneIsNoRow
<1>1. ASSUME Active' \subseteq Active
      PROVE  RunningCap'
  BY <1>1, <1>m, ActiveFinite, FS_CardinalityType, FS_Subset DEF RunningCap
<1>2. CASE now' = now /\ job' = job
  BY <1>1, <1>2 DEF Active
<1>3. ASSUME NEW w \in Workers, NEW t \in Threads, Claim(w, t)
      PROVE  RunningCap'
  <2>1. CASE job' = job
    BY <1>2, <1>3, <2>1 DEF Claim
  <2>2. CASE BelowLimit(t) /\ \A u \in Threads \ {t} : job'[u] = job[u]
    <3>1. Active' \subseteq (Active \ {t}) \cup {t}
      BY <1>3, <2>2 DEF Claim, Active
    <3>2. IsFiniteSet(Active \ {t}) /\ Cardinality(Active \ {t}) \in Nat
      BY ActiveFinite
    <3>3. /\ IsFiniteSet((Active \ {t}) \cup {t})
          /\ Cardinality((Active \ {t}) \cup {t}) = Cardinality(Active \ {t}) + 1
      BY <3>2, FS_AddElement
    <3>4. Cardinality(Active') <= Cardinality((Active \ {t}) \cup {t})
          /\ Cardinality(Active') \in Nat
      BY <3>1, <3>3, FS_Subset, FS_CardinalityType
    <3>. QED
      BY <1>m, <2>2, <3>2, <3>3, <3>4 DEF BelowLimit, RunningCap
  <2>3. job' = job \/ (BelowLimit(t) /\ \A u \in Threads \ {t} : job'[u] = job[u])
    BY <1>3 DEF Claim, TypeInv, TypeOK
  <2>. QED
    BY <2>1, <2>2, <2>3
<1>4. ASSUME NEW w \in Workers, NEW t \in Threads,
             Succeed(w, t) \/ SucceedNoOutput(w, t) \/ Fail(w, t)
      PROVE  RunningCap'
  <2>1. \A u \in Threads \ {t} : job'[u] = job[u]
    BY <1>4 DEF Succeed, SucceedNoOutput, Fail, Succeeded, tables, TypeInv, TypeOK
  <2>2. job' = job \/ (Owns(w, t) /\ job'[t].status \in {"done", "error"})
    <3>1. CASE Owns(w, t)
      <4>1. job[t] \in Jobs
        BY <3>1 DEF Owns, TypeInv, TypeOK
      <4>. QED
        BY <1>4, <3>1, <4>1 DEF Succeed, SucceedNoOutput, Fail, Succeeded, tables,
                                TypeInv, TypeOK, Jobs
    <3>. QED
      BY <1>4, <3>1 DEF Succeed, SucceedNoOutput, Fail, tables
  <2>3. now' = now
    BY <1>4 DEF Succeed, SucceedNoOutput, Fail, Finish
  <2>. QED
    BY <1>1, <2>1, <2>2, <2>3 DEF Active
<1>5. ASSUME NEW t \in Threads, DeleteMemory(t)
      PROVE  RunningCap'
  BY <1>1, <1>5 DEF DeleteMemory, JobLeft, Active, TypeInv, TypeOK
<1>6. CASE ResetRows
  BY <1>1, <1>6 DEF ResetRows, Active
<1>7. CASE Tick
  <2>1. \A t \in Threads : job[t] # None => job[t].lease \in Nat
    BY DEF TypeInv, TypeOK, Jobs
  <2>2. now \in Nat /\ now' = now + 1 /\ job' = job
    BY <1>7, NoneIsNoRow DEF Tick, TypeInv, TypeOK, Times, tables
  <2>. QED
    BY <1>1, <2>1, <2>2 DEF Active
<1>. QED
  <2>1. [Next]_vars =>
          \/ now' = now /\ job' = job
          \/ \E w \in Workers, t \in Threads :
               Claim(w, t) \/ Succeed(w, t) \/ SucceedNoOutput(w, t) \/ Fail(w, t)
          \/ \E t \in Threads : DeleteMemory(t)
          \/ ResetRows \/ Tick
    BY DEF Next, Phase1, Phase2, OfThread, Prune, Scan, ReadRollout, ClaimGlobal, LoadInputs,
           SyncInputs, SyncFails, Diff, AgentEdits, Heartbeat, AgentCompletes, ResetBaseline,
           SucceedGlobal, GiveUp, FailGlobal, AgentStops, Crash, Touch, Pollute, DeleteFile, DeleteRow,
           ResetFiles, vars, threads, tables, work, files
  <2>. QED
    BY <2>1, <1>2, <1>3, <1>4, <1>5, <1>6, <1>7

\* Claims of any number of startups never have more extractions under a valid
\* lease than the limit, whichever of them crashed or let its lease run out.
THEOREM RunningIsCapped == Spec => []RunningCap
<1>1. Init => TypeInv /\ RunningCap
  <2> SUFFICES ASSUME Init PROVE RunningCap
    BY InitType
  <2>1. Active = {}
    BY DEF Init, Active
  <2>. QED
    BY <2>1, FS_EmptySet, NoneIsNoRow DEF RunningCap
<1>2. (TypeInv /\ RunningCap) /\ [Next]_vars => (TypeInv /\ RunningCap)'
  BY TypeStep, CapStep
<1>. QED
  BY <1>1, <1>2, PTL DEF Spec

-----------------------------------------------------------------------------
(* Consolidations when all is calm                                         *)

\* Who consolidates holds the lock, and its lease is valid.
LockIsHeld ==
  \A w \in Consolidating : OwnsGlobal(w) /\ global.lease > now

\* A memory/reset that is under way meets no consolidation and nothing that was
\* consolidated.
ResetIsAlone ==
  resetting =>
    /\ Consolidating = {}
    /\ \A t \in Threads : output[t] # None => output[t].selected = None

\* From the sync on the workspace holds the input of the worker, and so does the
\* baseline when nothing changed or once it is reset.
WorkspaceIsChosen ==
  \A w \in Workers :
    /\ pc[w] \in {"synced", "agent", "confirmed", "unchanged", "committed"} =>
         inputs = chosen[w]
    /\ pc[w] \in {"unchanged", "committed"} => baseline = chosen[w]

CalmInv == LockIsHeld /\ ResetIsAlone /\ WorkspaceIsChosen /\ SelectedInBaseline

LEMMA OneLock ==
  ASSUME LockIsHeld, NEW w \in Consolidating
  PROVE  Consolidating = {w} /\ OwnsGlobal(w) /\ Enqueued = global /\ LockHeld
BY DEF LockIsHeld, OwnsGlobal, Enqueued, LockHeld, Consolidating

\* What a step that is not of a consolidation may do to one.
Elsewhere ==
  /\ now' = now
  /\ UNCHANGED files
  /\ resetting' = resetting
  /\ \A w \in Workers : pc'[w] \in Consolidation => pc'[w] = pc[w] /\ chosen'[w] = chosen[w]
  /\ global' \in {global, Enqueued}
  /\ \A t \in Threads :
       (output'[t] # None /\ output'[t].selected # None) =>
         output[t] # None /\ output'[t].selected = output[t].selected

LEMMA ElsewhereCalm ==
  ASSUME TypeInv, CalmInv, Elsewhere
  PROVE  CalmInv'
<1>. USE DEF CalmInv
<1>1. Consolidating' \subseteq Consolidating
  BY DEF Elsewhere, Consolidating
<1>2. LockIsHeld'
  <2> SUFFICES ASSUME NEW w \in Consolidating'
               PROVE  OwnsGlobal(w)' /\ global'.lease > now'
    BY DEF LockIsHeld
  <2>1. w \in Consolidating /\ Enqueued = global
    BY <1>1, OneLock
  <2>2. global' = global /\ now' = now
    BY <2>1 DEF Elsewhere
  <2>. QED
    BY <2>1, <2>2 DEF LockIsHeld, OwnsGlobal
<1>3. ResetIsAlone'
  BY <1>1 DEF ResetIsAlone, Elsewhere
<1>4. WorkspaceIsChosen'
  BY DEF WorkspaceIsChosen, Elsewhere, files, Consolidation
<1>5. SelectedInBaseline'
  <2> SUFFICES ASSUME Calm, ~resetting', global' # None, global'.status = "done",
                      NEW t \in Threads, output'[t] # None, output'[t].selected # None
               PROVE  baseline'[t] = output'[t].selected
    BY DEF SelectedInBaseline
  <2>1. global' = global
    <3>1. ASSUME Enqueued # global
          PROVE  Enqueued.status = "pending"
      <4>1. CASE global = None
        BY <4>1 DEF Enqueued
      <4>2. CASE global # None
        BY <3>1, <4>2 DEF Enqueued, TypeInv, TypeOK, GlobalJobs
      <4>. QED
        BY <4>1, <4>2
    <3>. QED
      BY <3>1 DEF Elsewhere
  <2>2. baseline' = baseline /\ resetting' = resetting
    BY DEF Elsewhere, files
  <2>3. output[t] # None /\ output'[t].selected = output[t].selected
    BY DEF Elsewhere
  <2>. QED
    BY <2>1, <2>2, <2>3 DEF SelectedInBaseline
<1>. QED
  BY <1>2, <1>3, <1>4, <1>5

LEMMA Phase1Elsewhere ==
  ASSUME TypeInv, NEW w \in Workers, Phase1(w)
  PROVE  Elsewhere
<1>. USE DEF TypeInv, Consolidation, files, work, threads, tables
<1>1. CASE Prune(w)
  BY <1>1 DEF Prune, Goto, Elsewhere, TypeOK
<1>2. CASE Scan(w)
  BY <1>2 DEF Scan, Goto, Elsewhere, TypeOK
<1>3. ASSUME NEW t \in Threads, Claim(w, t)
      PROVE  Elsewhere
  <2>1. \A v \in Workers : pc'[v] = pc[v] \/ pc'[v] \in {"phase2", "sampling"}
    BY <1>3 DEF Claim, Goto, TypeOK
  <2>. QED
    BY <1>3, <2>1 DEF Claim, Elsewhere
<1>4. ASSUME NEW t \in Threads, ReadRollout(w, t)
      PROVE  Elsewhere
  BY <1>4 DEF ReadRollout, Elsewhere
<1>5. ASSUME NEW t \in Threads, Succeed(w, t) \/ SucceedNoOutput(w, t) \/ Fail(w, t)
      PROVE  Elsewhere
  <2>1. /\ \A v \in Workers : pc'[v] = pc[v] \/ pc'[v] = "phase2"
        /\ UNCHANGED <<now, chosen, files, resetting>>
    BY <1>5 DEF Succeed, SucceedNoOutput, Fail, Finish, Goto, TypeOK
  <2>2. global' \in {global, Enqueued}
    BY <1>5 DEF Succeed, SucceedNoOutput, Fail, EnqueuedIf
  <2>3. ASSUME NEW u \in Threads, output'[u] # None, output'[u].selected # None
        PROVE  output[u] # None /\ output'[u].selected = output[u].selected
    <3>1. CASE output' = output
      BY <2>3, <3>1
    <3>2. CASE output' = [output EXCEPT ![t] = None]
      BY <2>3, <3>2 DEF TypeOK
    <3>3. CASE output' = Upserted(t, claims[w][t].source)
      <4>1. CASE u = t
        BY <2>3, <3>3, <4>1 DEF Upserted, TypeOK, Outputs
      <4>2. CASE u # t
        BY <2>3, <3>3, <4>2 DEF Upserted, TypeOK
      <4>. QED
        BY <4>1, <4>2
    <3>. QED
      BY <1>5, <3>1, <3>2, <3>3 DEF Succeed, SucceedNoOutput, Fail
  <2>. QED
    BY <2>1, <2>2, <2>3 DEF Elsewhere
<1>. QED
  BY <1>1, <1>2, <1>3, <1>4, <1>5 DEF Phase1

LEMMA AroundElsewhere ==
  ASSUME TypeInv, (\E w \in Workers : Crash(w)) \/ (\E t \in Threads : OfThread(t))
                    \/ UNCHANGED vars
  PROVE  Elsewhere
<1>. USE DEF TypeInv, Consolidation, files, work, threads, tables
<1>1. ASSUME NEW w \in Workers, Crash(w)
      PROVE  Elsewhere
  <2>1. \A v \in Workers : pc'[v] = "done" \/ (pc'[v] = pc[v] /\ chosen'[v] = chosen[v])
    BY <1>1 DEF Crash, Goto, TypeOK
  <2>. QED
    BY <1>1, <2>1 DEF Crash, Elsewhere
<1>2. ASSUME NEW t \in Threads, OfThread(t)
      PROVE  Elsewhere
  <2>1. /\ UNCHANGED <<now, pc, chosen, files, resetting>>
        /\ global' \in {global, Enqueued}
    BY <1>2 DEF OfThread, Touch, Pollute, DeleteFile, DeleteMemory, DeleteRow, EnqueuedIf
  <2>2. \A u \in Threads : output'[u] \in {None, output[u]}
    BY <1>2 DEF OfThread, Touch, Pollute, DeleteFile, DeleteMemory, DeleteRow, TypeOK
  <2>. QED
    BY <2>1, <2>2 DEF Elsewhere
<1>3. CASE UNCHANGED vars
  BY <1>3 DEF vars, Elsewhere
<1>. QED
  BY <1>1, <1>2, <1>3

\* A step of the one consolidation: what is left to show is about its worker.
LEMMA Alone ==
  ASSUME TypeInv, CalmInv, NEW w \in Consolidating,
         UNCHANGED <<now, resetting>>,
         \A v \in Workers \ {w} : pc'[v] = pc[v],
         pc'[w] \in Consolidation => OwnsGlobal(w)' /\ global'.lease > now,
         pc'[w] \in {"synced", "agent", "confirmed", "unchanged", "committed"} =>
           inputs' = chosen'[w],
         pc'[w] \in {"unchanged", "committed"} => baseline' = chosen'[w],
         global'.status = "done" => SelectedInBaseline'
  PROVE  CalmInv'
<1>1. \A v \in Workers \ {w} : pc'[v] \notin Consolidation
  BY OneLock DEF CalmInv, Consolidating
<1>2. LockIsHeld'
  BY <1>1 DEF LockIsHeld, Consolidating
<1>3. ResetIsAlone'
  BY DEF CalmInv, ResetIsAlone
<1>4. WorkspaceIsChosen'
  BY <1>1 DEF WorkspaceIsChosen, Consolidation
<1>5. SelectedInBaseline'
  BY DEF SelectedInBaseline
<1>. QED
  BY <1>2, <1>3, <1>4, <1>5 DEF CalmInv

LEMMA Phase2Calm ==
  ASSUME TypeInv, CalmInv, Calm, NEW w \in Workers, Phase2(w)
  PROVE  CalmInv'
<1>1. CASE ClaimGlobal(w)
  <2>1. CASE Goto(w, "done") /\ UNCHANGED global
    <3>1. Elsewhere
      BY <1>1, <2>1 DEF ClaimGlobal, Goto, Elsewhere, Consolidation, TypeInv, TypeOK, work
    <3>. QED
      BY <3>1, ElsewhereCalm
  <2>2. CASE ~LockHeld /\ Goto(w, "locked")
                /\ global' = [status |-> "running", by |-> w, lease |-> now + Lease,
                              retryAt |-> 0, coolUntil |-> 0]
    <3>1. Consolidating = {}
      BY <2>2, OneLock DEF CalmInv
    <3>2. \A v \in Workers \ {w} : pc'[v] = pc[v] /\ pc'[v] \notin Consolidation
      BY <2>2, <3>1 DEF Goto, Consolidating, TypeInv, TypeOK
    <3>3. pc'[w] = "locked"
      BY <2>2 DEF Goto, TypeInv, TypeOK
    <3>4. now' = now /\ now + Lease > now
      BY <1>1, NoneIsNoRow DEF ClaimGlobal, TypeInv, TypeOK, Times
    <3>5. LockIsHeld'
      <4>1. now + Lease \in Nat
        BY NoneIsNoRow DEF TypeInv, TypeOK, Times
      <4>2. global' \in GlobalJobs
        BY <2>2, <4>1 DEF GlobalJobs
      <4>. QED
        BY <2>2, <3>2, <3>4, <4>2, NoneAssumption DEF LockIsHeld, Consolidating, OwnsGlobal
    <3>6. ResetIsAlone'
      <4>1. ~resetting /\ resetting' = resetting
        BY <1>1 DEF ClaimGlobal
      <4>. QED
        BY <4>1 DEF ResetIsAlone
    <3>7. WorkspaceIsChosen'
      BY <3>2, <3>3 DEF WorkspaceIsChosen, Consolidation
    <3>8. SelectedInBaseline'
      BY <2>2 DEF SelectedInBaseline
    <3>. QED
      BY <3>5, <3>6, <3>7, <3>8 DEF CalmInv
  <2>. QED
    BY <1>1, <2>1, <2>2 DEF ClaimGlobal
<1>2. CASE AgentEdits(w) \/ AgentStops(w)
  <2>1. UNCHANGED <<now, pc, global, output, chosen, inputs, baseline, resetting>>
    BY <1>2 DEF AgentEdits, AgentStops, tables, work, files
  <2>. QED
    BY <2>1 DEF CalmInv, LockIsHeld, ResetIsAlone, WorkspaceIsChosen, SelectedInBaseline,
                OwnsGlobal, Consolidating
<1>3. ASSUME ~ClaimGlobal(w), ~AgentEdits(w), ~AgentStops(w)
      PROVE  CalmInv'
  <2>1. w \in Consolidating
    BY <1>3 DEF Phase2, LoadInputs, SyncInputs, SyncFails, Diff, Heartbeat,
                AgentCompletes, ResetBaseline, SucceedGlobal, GiveUp, FailGlobal,
                Consolidating, Consolidation
  <2>2. OwnsGlobal(w) /\ global.lease > now
    BY <2>1 DEF CalmInv, LockIsHeld
  <2>3. UNCHANGED <<now, resetting>>
    BY <1>3 DEF Phase2, LoadInputs, SyncInputs, SyncFails, Diff, Heartbeat,
                AgentCompletes, ResetBaseline, SucceedGlobal, GiveUp, FailGlobal
  <2>4. \A v \in Workers \ {w} : pc'[v] = pc[v]
    BY <1>3 DEF Phase2, LoadInputs, SyncInputs, SyncFails, Diff, Heartbeat,
                AgentCompletes, ResetBaseline, SucceedGlobal, GiveUp, FailGlobal,
                Goto, TypeInv, TypeOK
  <2>5. /\ pc[w] \in {"synced", "agent", "confirmed", "unchanged", "committed"} =>
             inputs = chosen[w]
        /\ pc[w] \in {"unchanged", "committed"} => baseline = chosen[w]
    BY DEF CalmInv, WorkspaceIsChosen
  <2>6. now \in Nat /\ now + Lease > now /\ global \in GlobalJobs
    BY <2>2, NoneIsNoRow DEF TypeInv, TypeOK, Times, OwnsGlobal
  <2>7. ASSUME global' = global,
               \/ pc'[w] \in {"loaded", "failing", "done"}
               \/ pc'[w] = "synced" /\ inputs' = chosen'[w]
               \/ pc'[w] = "agent" /\ inputs' = chosen'[w]
               \/ pc'[w] = "unchanged" /\ inputs' = chosen'[w] /\ baseline' = chosen'[w]
               \/ pc'[w] = "committed" /\ inputs' = chosen'[w] /\ baseline' = chosen'[w]
        PROVE  CalmInv'
    BY <2>1, <2>2, <2>3, <2>4, <2>7, Alone DEF OwnsGlobal, Consolidation
  <2>8. CASE LoadInputs(w)
    BY <2>7, <2>8 DEF LoadInputs, Goto, tables, TypeInv, TypeOK
  <2>9. CASE SyncInputs(w)
    BY <2>7, <2>9 DEF SyncInputs, Goto, tables, work, TypeInv, TypeOK
  <2>10. CASE SyncFails(w) \/ GiveUp(w)
    BY <2>7, <2>10 DEF SyncFails, GiveUp, Goto, tables, TypeInv, TypeOK
  <2>11. CASE Diff(w)
    BY <2>5, <2>7, <2>11 DEF Diff, Goto, tables, work, files, TypeInv, TypeOK
  <2>12. CASE Heartbeat(w) \/ AgentCompletes(w)
    <3>1. global' = [global EXCEPT !.lease = now + Lease] /\ pc'[w] \in {"agent", "confirmed"}
      BY <2>2, <2>12 DEF Heartbeat, AgentCompletes, Extended, Goto, TypeInv, TypeOK
    <3>2. OwnsGlobal(w)' /\ global'.lease > now /\ global'.status = "running"
      <4>1. now + Lease \in Nat
        BY <2>6, NoneIsNoRow
      <4>2. global' \in GlobalJobs /\ global'.status = global.status
              /\ global'.by = global.by /\ global'.lease = now + Lease
        BY <2>6, <3>1, <4>1 DEF GlobalJobs
      <4>. QED
        BY <2>2, <2>6, <4>2, NoneAssumption DEF OwnsGlobal
    <3>3. inputs' = chosen'[w]
      BY <2>5, <2>12 DEF Heartbeat, AgentCompletes, work, files
    <3>. QED
      BY <2>1, <2>3, <2>4, <3>1, <3>2, <3>3, Alone
  <2>13. CASE ResetBaseline(w)
    BY <2>5, <2>7, <2>13 DEF ResetBaseline, NewBaseline, Goto, tables, work, TypeInv, TypeOK
  <2>14. CASE SucceedGlobal(w)
    <3>1. pc'[w] = "done"
      BY <2>14 DEF SucceedGlobal, Goto, TypeInv, TypeOK
    <3>2. baseline' = chosen[w] /\ output' = Selected(w)
      BY <2>2, <2>5, <2>14 DEF SucceedGlobal, files
    <3>3. ASSUME NEW t \in Threads, output'[t] # None, output'[t].selected # None
          PROVE  output'[t].selected = chosen[w][t]
      <4>1. output[t] \in Outputs /\ output'[t] = [output[t] EXCEPT !.selected =
              IF chosen[w][t] = output[t].source THEN chosen[w][t] ELSE None]
        BY <3>2, <3>3 DEF Selected, TypeInv, TypeOK
      <4>. QED
        BY <3>3, <4>1 DEF Outputs
    <3>4. SelectedInBaseline'
      BY <3>2, <3>3 DEF SelectedInBaseline
    <3>. QED
      BY <2>1, <2>3, <2>4, <3>1, <3>4, Alone DEF Consolidation
  <2>15. CASE FailGlobal(w)
    <3>1. pc'[w] = "done" /\ global'.status = "error"
      BY <2>2, <2>6, <2>15 DEF FailGlobal, Goto, GlobalJobs, TypeInv, TypeOK
    <3>. QED
      BY <2>1, <2>3, <2>4, <3>1, Alone DEF Consolidation
  <2>. QED
    BY <1>3, <2>8, <2>9, <2>10, <2>11, <2>12, <2>13, <2>14, <2>15 DEF Phase2
<1>. QED
  BY <1>1, <1>2, <1>3

LEMMA CalmStep ==
  ASSUME TypeInv, CalmInv, Calm, [Next]_vars
  PROVE  CalmInv'
<1>1. ASSUME Elsewhere PROVE CalmInv'
  BY <1>1, ElsewhereCalm
<1>2. CASE (\E w \in Workers : Crash(w)) \/ (\E t \in Threads : OfThread(t)) \/ UNCHANGED vars
  BY <1>1, <1>2, AroundElsewhere
<1>3. ASSUME NEW w \in Workers, Phase1(w) PROVE CalmInv'
  BY <1>1, <1>3, Phase1Elsewhere
<1>4. ASSUME NEW w \in Workers, Phase2(w) PROVE CalmInv'
  BY <1>4, Phase2Calm
<1>5. CASE ResetRows
  <2>1. Consolidating = {} /\ Consolidating' = {}
    BY <1>5 DEF ResetRows, Consolidating
  <2>2. global' = None /\ resetting' /\ \A t \in Threads : output'[t] = None
    BY <1>5 DEF ResetRows
  <2>3. WorkspaceIsChosen'
    BY <2>1 DEF WorkspaceIsChosen, Consolidating, Consolidation
  <2>. QED
    BY <2>1, <2>2, <2>3 DEF CalmInv, LockIsHeld, ResetIsAlone, SelectedInBaseline
<1>6. CASE ResetFiles
  <2>1. Consolidating = {} /\ Consolidating' = {}
    BY <1>6 DEF ResetFiles, CalmInv, ResetIsAlone, Consolidating
  <2>2. WorkspaceIsChosen'
    BY <2>1 DEF WorkspaceIsChosen, Consolidating, Consolidation
  <2>3. SelectedInBaseline'
    BY <1>6 DEF ResetFiles, SelectedInBaseline, CalmInv, ResetIsAlone, tables
  <2>. QED
    BY <1>6, <2>1, <2>2, <2>3 DEF ResetFiles, CalmInv, LockIsHeld, ResetIsAlone
<1>7. CASE Tick
  <2>1. UNCHANGED <<pc, global, output, chosen, inputs, baseline, resetting>>
    BY <1>7 DEF Tick, threads, tables, work, files
  <2>2. LockIsHeld'
    BY <1>7, <2>1 DEF Tick, CalmInv, LockIsHeld, OwnsGlobal, Consolidating
  <2>3. ResetIsAlone' /\ WorkspaceIsChosen' /\ SelectedInBaseline'
    BY <2>1 DEF CalmInv, ResetIsAlone, WorkspaceIsChosen, SelectedInBaseline, Consolidating
  <2>. QED
    BY <2>2, <2>3 DEF CalmInv
<1>. QED
  BY <1>2, <1>3, <1>4, <1>5, <1>6, <1>7 DEF Next

\* An agent is of a worker that watches it, or that gave up.
AgentInv == \A w \in agents : pc[w] \in {"agent", "failing", "done"}

LEMMA AgentStep ==
  ASSUME TypeInv, AgentInv, [Next]_vars
  PROVE  AgentInv'
<1>. USE DEF TypeInv, TypeOK, AgentInv
<1>1. ASSUME agents' \subseteq agents, NEW w \in Workers,
             \A v \in Workers \ {w} : pc'[v] = pc[v],
             \/ pc'[w] = pc[w] \/ pc'[w] \in {"agent", "failing", "done"}
             \/ pc[w] \notin {"agent", "failing", "done"} \/ w \notin agents'
      PROVE  AgentInv'
  BY <1>1
<1>2. ASSUME NEW w \in Workers, Phase1(w) \/ Crash(w)
      PROVE  AgentInv'
  <2>1. agents' \subseteq agents /\ \A v \in Workers \ {w} : pc'[v] = pc[v]
    BY <1>2 DEF Phase1, Prune, Scan, Claim, ReadRollout, Succeed, SucceedNoOutput, Fail,
                Finish, Crash, Goto, work
  <2>2. \/ pc'[w] = pc[w] \/ pc'[w] = "done"
        \/ pc[w] \in {"idle", "scanning", "claiming", "sampling"}
    BY <1>2 DEF Phase1, Prune, Scan, Claim, ReadRollout, Succeed, SucceedNoOutput, Fail,
                Finish, Crash, Goto
  <2>. QED
    BY <1>1, <2>1, <2>2
<1>3. ASSUME NEW w \in Workers, Diff(w)
      PROVE  AgentInv'
  BY <1>3 DEF Diff, Goto
<1>4. ASSUME NEW w \in Workers, Phase2(w), ~Diff(w)
      PROVE  AgentInv'
  <2>1. agents' \subseteq agents /\ \A v \in Workers \ {w} : pc'[v] = pc[v]
    BY <1>4 DEF Phase2, ClaimGlobal, LoadInputs, SyncInputs, SyncFails, AgentEdits, Heartbeat,
                AgentCompletes, ResetBaseline, SucceedGlobal, GiveUp, FailGlobal, AgentStops,
                Goto, work
  <2>2. \/ pc'[w] = pc[w] \/ pc'[w] \in {"failing", "done"}
        \/ pc[w] \notin {"agent", "failing", "done"} \/ w \notin agents'
    BY <1>4 DEF Phase2, ClaimGlobal, LoadInputs, SyncInputs, SyncFails, AgentEdits, Heartbeat,
                AgentCompletes, ResetBaseline, SucceedGlobal, GiveUp, FailGlobal, AgentStops,
                Goto
  <2>. QED
    BY <1>1, <2>1, <2>2
<1>5. CASE UNCHANGED <<pc, agents>>
  BY <1>5
<1>. QED
  <2>1. [Next]_vars =>
          \/ UNCHANGED <<pc, agents>>
          \/ \E w \in Workers : Phase1(w) \/ Phase2(w) \/ Crash(w)
    BY DEF Next, OfThread, Touch, Pollute, DeleteFile, DeleteMemory, DeleteRow, ResetRows,
           ResetFiles, Tick, vars, work
  <2>. QED
    BY <2>1, <1>2, <1>3, <1>4, <1>5

\* When memory/reset spares a consolidation and heartbeats come in time, no two
\* consolidations are in the workspace at once, nor an agent beside the one that
\* consolidates, but for those whose consolidation gave up and that are still to
\* be shut down; and what a success marks as consolidated is in the baseline it
\* left.
THEOREM ConsolidationIsAlone ==
  ASSUME Calm
  PROVE  Spec => [](OneConsolidation /\ SelectedInBaseline)
<1>1. Init => TypeInv /\ CalmInv /\ AgentInv
  <2> SUFFICES ASSUME Init PROVE CalmInv /\ AgentInv
    BY InitType
  <2>1. \A w \in Workers : pc[w] = "idle"
    BY DEF Init
  <2>. QED
    BY <2>1 DEF Init, CalmInv, AgentInv, LockIsHeld, ResetIsAlone, WorkspaceIsChosen,
                SelectedInBaseline, Consolidating, Consolidation
<1>2. (TypeInv /\ CalmInv /\ AgentInv) /\ [Next]_vars => (TypeInv /\ CalmInv /\ AgentInv)'
  BY TypeStep, CalmStep, AgentStep
<1>3. TypeInv /\ CalmInv /\ AgentInv => OneConsolidation /\ SelectedInBaseline
  <2> SUFFICES ASSUME TypeInv, CalmInv, AgentInv PROVE OneConsolidation
    BY DEF CalmInv
  <2>1. (Consolidating \cup agents) \ Dismissed \subseteq Consolidating
    BY DEF TypeInv, TypeOK, AgentInv, Dismissed, Consolidating, Consolidation
  <2>. QED
    BY <2>1, OneLock DEF CalmInv, OneConsolidation
<1>. QED
  BY <1>1, <1>2, <1>3, PTL DEF Spec

\* What is marked as consolidated is in the baseline, in the same case.
THEOREM BaselineIsKept ==
  ASSUME Calm
  PROVE  Spec => []SelectedInBaseline
BY ConsolidationIsAlone, PTL

-----------------------------------------------------------------------------
(* One version after the other                                             *)

\* Nobody works on a version of a thread that is still to come.
SeenVersions ==
  /\ \A w \in Workers, t \in Threads : todo[w][t] # None => todo[w][t] <= updatedAt[t]
  /\ \A t \in Threads : job[t] # None => job[t].input <= updatedAt[t]

LEMMA SeenKept ==
  ASSUME TypeInv, SeenVersions,
         \A t \in Threads : updatedAt'[t] \in Times /\ updatedAt[t] <= updatedAt'[t],
         \A w \in Workers, t \in Threads : todo'[w][t] \in {None, todo[w][t]},
         \A t \in Threads :
           job'[t] # None => job[t] # None /\ job'[t].input = job[t].input
  PROVE  SeenVersions'
<1>1. \A t \in Threads : updatedAt[t] \in Int /\ updatedAt'[t] \in Int
  BY NoneIsNoRow DEF TypeInv, TypeOK, Times
<1>2. \A w \in Workers, t \in Threads : todo[w][t] # None => todo[w][t] \in Int
  BY NoneIsNoRow DEF TypeInv, TypeOK, Sources, Times
<1>3. \A t \in Threads : job[t] # None => job[t].input \in Int
  BY NoneIsNoRow DEF TypeInv, TypeOK, Jobs, Times
<1>4. ASSUME NEW w \in Workers, NEW t \in Threads, todo'[w][t] # None
      PROVE  todo'[w][t] <= updatedAt'[t]
  BY <1>1, <1>2, <1>4 DEF SeenVersions
<1>5. ASSUME NEW t \in Threads, job'[t] # None
      PROVE  job'[t].input <= updatedAt'[t]
  BY <1>1, <1>3, <1>5 DEF SeenVersions
<1>. QED
  BY <1>4, <1>5 DEF SeenVersions

LEMMA SeenStep ==
  ASSUME TypeInv, SeenVersions, [Next]_vars
  PROVE  SeenVersions'
<1>. USE DEF TypeInv, TypeOK
<1>1. \A t \in Threads : updatedAt[t] \in Times /\ updatedAt[t] <= updatedAt[t]
  BY NoneIsNoRow DEF Times
<1>2. CASE UNCHANGED <<updatedAt, todo, job>>
  BY <1>1, <1>2, SeenKept
<1>3. ASSUME NEW w \in Workers, Scan(w)
      PROVE  SeenVersions'
  <2>1. /\ \A t \in Threads : todo'[w][t] \in {None, updatedAt[t]}
        /\ \A v \in Workers \ {w} : todo'[v] = todo[v]
    BY <1>3 DEF Scan
  <2>. QED
    BY <1>1, <1>3, <2>1 DEF SeenVersions, Scan, threads, tables
<1>4. ASSUME NEW w \in Workers, NEW t \in Threads, Claim(w, t)
      PROVE  SeenVersions'
  <2>1. updatedAt' = updatedAt /\ todo[w][t] # None /\ todo[w][t] <= updatedAt[t]
    BY <1>4 DEF Claim, threads, SeenVersions
  <2>2. \A v \in Workers, u \in Threads : todo'[v][u] \in {None, todo[v][u]}
    <3>1. \/ todo' = [todo EXCEPT ![w] = NoSource]
          \/ todo' = [todo EXCEPT ![w] = [todo[w] EXCEPT ![t] = None]]
      BY <1>4 DEF Claim
    <3>2. todo[w] \in [Threads -> Times \cup {None}]
      BY DEF Sources
    <3>. QED
      BY <3>1, <3>2 DEF NoSource
  <2>3. \A u \in Threads : job'[u] # job[u] => u = t /\ job'[u].input = todo[w][t]
    BY <1>4 DEF Claim, ClaimedJob
  <2>4. ASSUME NEW u \in Threads, job'[u] # None
        PROVE  job'[u].input <= updatedAt'[u]
    BY <2>1, <2>3, <2>4 DEF SeenVersions
  <2>. QED
    BY <2>1, <2>2, <2>4 DEF SeenVersions
<1>5. ASSUME NEW w \in Workers, NEW t \in Threads,
             Succeed(w, t) \/ SucceedNoOutput(w, t) \/ Fail(w, t)
      PROVE  SeenVersions'
  <2>1. UNCHANGED <<updatedAt, todo>>
    BY <1>5 DEF Succeed, SucceedNoOutput, Fail, Finish, threads
  <2>2. \A u \in Threads \ {t} : job'[u] = job[u]
    BY <1>5 DEF Succeed, SucceedNoOutput, Fail, Succeeded, tables
  <2>3. job'[t] # job[t] => job[t] \in Jobs /\ job[t] # None
    BY <1>5 DEF Succeed, SucceedNoOutput, Fail, Owns, tables
  <2>4. job'[t] # job[t] => job'[t].input = job[t].input
    BY <1>5, <2>3 DEF Succeed, SucceedNoOutput, Fail, Succeeded, tables, Jobs
  <2>. QED
    BY <1>1, <2>1, <2>2, <2>3, <2>4, SeenKept
<1>6. ASSUME NEW w \in Workers, Crash(w)
      PROVE  SeenVersions'
  <2>1. \A v \in Workers, t \in Threads : todo'[v][t] \in {None, todo[v][t]}
    BY <1>6 DEF Crash, NoSource
  <2>. QED
    BY <1>1, <1>6, <2>1, SeenKept DEF Crash, threads, tables
<1>7. ASSUME NEW t \in Threads, Touch(t)
      PROVE  SeenVersions'
  <2>1. \A u \in Threads : updatedAt'[u] \in Times /\ updatedAt[u] <= updatedAt'[u]
    BY <1>1, <1>7 DEF Touch, Times
  <2>. QED
    BY <1>7, <2>1, SeenKept DEF Touch, tables, work
<1>8. ASSUME NEW t \in Threads, DeleteMemory(t)
      PROVE  SeenVersions'
  <2>1. \A u \in Threads : job'[u] \in {None, job[u]}
    BY <1>8 DEF DeleteMemory, JobLeft
  <2>. QED
    BY <1>1, <1>8, <2>1, SeenKept DEF DeleteMemory, work
<1>9. ASSUME ResetRows
      PROVE  SeenVersions'
  BY <1>1, <1>9, SeenKept DEF ResetRows, threads, work
<1>. QED
  <2>1. [Next]_vars =>
          \/ UNCHANGED <<updatedAt, todo, job>>
          \/ \E w \in Workers : Scan(w) \/ Crash(w)
          \/ \E w \in Workers, t \in Threads :
               Claim(w, t) \/ Succeed(w, t) \/ SucceedNoOutput(w, t) \/ Fail(w, t)
          \/ \E t \in Threads : Touch(t) \/ DeleteMemory(t)
          \/ ResetRows
    BY DEF Next, Phase1, Phase2, OfThread, Prune, ReadRollout, ClaimGlobal, LoadInputs,
           SyncInputs, SyncFails, Diff, AgentEdits, Heartbeat, AgentCompletes, ResetBaseline,
           SucceedGlobal, GiveUp, FailGlobal, AgentStops, DeleteFile, DeleteRow, Pollute, ResetFiles, Tick,
           vars, threads, tables, work, files
  <2>. QED
    BY <2>1, <1>2, <1>3, <1>4, <1>5, <1>6, <1>7, <1>8, <1>9

LEMMA SameRows ==
  ASSUME NEW t \in Threads
  PROVE  /\ job'[t] = job[t] => DoneVersion(t)' = DoneVersion(t)
         /\ output'[t] = output[t] => MemoryOf(t)' = MemoryOf(t)
BY DEF DoneVersion, MemoryOf

LEMMA StillVersions ==
  ASSUME UNCHANGED updatedAt, Forgotten' = Forgotten,
         \A t \in Threads : DoneVersion(t)' = DoneVersion(t) /\ MemoryOf(t)' = MemoryOf(t)
  PROVE  UNCHANGED Versions!memoryVars
BY DEF Versions!memoryVars

LEMMA NothingChanges ==
  ASSUME UNCHANGED <<updatedAt, deletion, job, output>>
  PROVE  UNCHANGED Versions!memoryVars
<1>1. Forgotten' = Forgotten
  BY DEF Forgotten
<1>. QED
  BY <1>1, SameRows, StillVersions

\* A job that is claimed, or that fails, has done what it had.
LEMMA ClaimKeepsDone ==
  ASSUME TypeInv, NEW w \in Workers, NEW t \in Threads, Claim(w, t)
  PROVE  UNCHANGED Versions!memoryVars
<1>. USE DEF TypeInv, TypeOK
<1>1. UNCHANGED <<updatedAt, deletion, output>> /\ Forgotten' = Forgotten
  BY DEF Claim, threads, Forgotten
<1>2. \A u \in Threads : u # t => job'[u] = job[u]
  BY DEF Claim
<1>3. DoneVersion(t)' = DoneVersion(t)
  <2>1. CASE job' = job
    BY <2>1, SameRows
  <2>2. CASE job' = [job EXCEPT ![t] = ClaimedJob(w, t, todo[w][t])]
    <3>1. job'[t] = ClaimedJob(w, t, todo[w][t])
      BY <2>2
    <3>2. job'[t] # None
      <4>1. now \in Nat /\ todo[w][t] \in Times
        BY NoneIsNoRow DEF Claim, Sources, Times
      <4>2. ClaimedJob(w, t, todo[w][t]) \in Jobs
        BY <4>1, NoneIsNoRow DEF ClaimedJob, Jobs, Times
      <4>. QED
        BY <3>1, <4>2, NoneAssumption
    <3>3. job'[t].success = IF job[t] = None THEN -1 ELSE job[t].success
      BY <3>1 DEF ClaimedJob
    <3>. QED
      BY <3>2, <3>3 DEF DoneVersion
  <2>. QED
    BY <2>1, <2>2 DEF Claim
<1>. QED
  BY <1>1, <1>2, <1>3, SameRows, StillVersions

LEMMA JobIsDone ==
  ASSUME TypeInv, NEW w \in Workers, NEW t \in Threads, Owns(w, t), job' = Succeeded(t)
  PROVE  /\ DoneVersion(t)' = job[t].input
         /\ \A u \in Threads : u # t => DoneVersion(u)' = DoneVersion(u)
<1>. DEFINE row == [job[t] EXCEPT !.status = "done", !.by = None, !.lease = 0,
                                  !.success = job[t].input]
<1>1. job[t] \in Jobs
  BY DEF Owns, TypeInv, TypeOK
<1>2. job'[t] = row /\ \A u \in Threads : u # t => job'[u] = job[u]
  BY <1>1 DEF Succeeded, TypeInv, TypeOK
<1>3. row \in Jobs /\ row.success = job[t].input
  BY <1>1 DEF Jobs
<1>4. job'[t] # None
  BY <1>2, <1>3, NoneAssumption
<1>. QED
  BY <1>2, <1>3, <1>4, SameRows DEF DoneVersion

LEMMA FailKeepsDone ==
  ASSUME TypeInv, NEW w \in Workers, NEW t \in Threads, Fail(w, t)
  PROVE  UNCHANGED Versions!memoryVars
<1>. USE DEF TypeInv, TypeOK
<1>1. CASE job' = job
  BY <1>1, NothingChanges DEF Fail, Finish, threads
<1>2. CASE job' # job
  <2>. DEFINE row == [job[t] EXCEPT !.status = "error", !.by = None, !.lease = 0,
                                    !.retryAt = now + RetryDelay,
                                    !.retries = job[t].retries - 1]
  <2>1. job[t] \in Jobs /\ job[t] # None /\ job[t].retries >= 1
    BY <1>2 DEF Fail, Owns, RunningIsNeeded
  <2>2. job'[t] = row /\ \A u \in Threads : u # t => job'[u] = job[u]
    BY <1>2 DEF Fail
  <2>3. now + RetryDelay \in Nat /\ job[t].retries - 1 \in 0 .. Retries
    BY <2>1, NoneIsNoRow DEF Jobs, Times
  <2>4. row \in Jobs /\ row.success = job[t].success
    BY <2>1, <2>3 DEF Jobs
  <2>5. job'[t] # None
    BY <2>2, <2>4, NoneAssumption
  <2>6. DoneVersion(t)' = DoneVersion(t)
    BY <2>1, <2>2, <2>4, <2>5 DEF DoneVersion
  <2>7. UNCHANGED <<updatedAt, deletion, output>> /\ Forgotten' = Forgotten
    BY DEF Fail, Finish, threads, Forgotten
  <2>. QED
    BY <2>2, <2>6, <2>7, SameRows, StillVersions
<1>. QED
  BY <1>1, <1>2

\* Who still owns its claim extracts a version that is newer than all before.
LEMMA SucceedExtracts ==
  ASSUME TypeInv, DataInv, SeenVersions, NEW w \in Workers, NEW t \in Threads,
         Succeed(w, t) \/ SucceedNoOutput(w, t)
  PROVE  Versions!MemoryNext \/ UNCHANGED Versions!memoryVars
<1>. USE DEF TypeInv, TypeOK
<1>0. UNCHANGED <<updatedAt, deletion>> /\ Forgotten' = Forgotten
  BY DEF Succeed, SucceedNoOutput, Finish, threads, Forgotten
<1>1. CASE ~Owns(w, t)
  BY <1>0, <1>1, NothingChanges DEF Succeed, SucceedNoOutput, tables
<1>2. CASE Owns(w, t)
  <2>. DEFINE v == job[t].input
  <2>1. /\ job[t] # None /\ job[t] \in Jobs /\ job' = Succeeded(t)
        /\ claims[w][t] # None /\ claims[w][t].read
    BY <1>2 DEF Owns, Succeed, SucceedNoOutput, Finish
  <2>2. claims[w][t].source = v /\ t \notin Forgotten
    BY <1>2, <2>1 DEF DataInv, ClaimIsOfRow, Forgotten
  <2>3. v \in DoneVersion(t) + 1 .. updatedAt[t]
    <3>1. v \in Nat /\ job[t].success \in Int /\ updatedAt[t] \in Nat
      BY <2>1, NoneIsNoRow DEF Jobs, Times
    <3>2. job[t].success < v /\ v <= updatedAt[t]
      BY <1>2, <2>1, <3>1 DEF RunningIsNeeded, SeenVersions, Owns
    <3>. QED
      BY <2>1, <3>1, <3>2 DEF DoneVersion
  <2>4. DoneVersion(t)' = v /\ \A u \in Threads : u # t => DoneVersion(u)' = DoneVersion(u)
    BY <1>2, <2>1, JobIsDone
  <2>5. MemoryOf(t)' \in {v, -1} /\ \A u \in Threads : u # t => MemoryOf(u)' = MemoryOf(u)
    <3>1. \A u \in Threads : u # t => output'[u] = output[u]
      BY <1>2 DEF Succeed, SucceedNoOutput, Upserted
    <3>2. CASE SucceedNoOutput(w, t)
      BY <1>2, <3>1, <3>2, SameRows DEF SucceedNoOutput, MemoryOf
    <3>3. CASE Succeed(w, t)
      <4>1. output' = Upserted(t, v) /\ v \in Times
        BY <1>2, <2>1, <2>2, <3>3 DEF Succeed, Jobs
      <4>2. output[t] = None \/ v >= output[t].source
        BY <1>2, <2>1 DEF DataInv, OutputIsDone, RunningIsNeeded, Owns, Jobs, Outputs, Times
      <4>3. output'[t] \in Outputs /\ output'[t].source = v
        BY <4>1, <4>2 DEF Upserted, Outputs
      <4>4. MemoryOf(t)' = v
        BY <4>3, NoneAssumption DEF MemoryOf
      <4>. QED
        BY <3>1, <4>4, SameRows
    <3>. QED
      BY <3>2, <3>3
  <2>6. PICK d \in DoneVersion(t) + 1 .. updatedAt[t] : d = v
    BY <2>3
  <2>7. [u \in Threads |-> DoneVersion(u)]' =
          [[u \in Threads |-> DoneVersion(u)] EXCEPT ![t] = d]
    BY <2>4, <2>6
  <2>8. \/ [u \in Threads |-> MemoryOf(u)]' = [[u \in Threads |-> MemoryOf(u)] EXCEPT ![t] = d]
        \/ [u \in Threads |-> MemoryOf(u)]' = [[u \in Threads |-> MemoryOf(u)] EXCEPT ![t] = -1]
    BY <2>5, <2>6
  <2>9. Versions!Extract(t)
    BY <1>0, <2>2, <2>6, <2>7, <2>8 DEF Versions!Extract, Versions!Nothing
  <2>. QED
    BY <2>9 DEF Versions!MemoryNext
<1>. QED
  BY <1>1, <1>2

LEMMA PruneForgets ==
  ASSUME TypeInv, NEW w \in Workers, Prune(w)
  PROVE  Versions!MemoryNext
<1>1. PICK stale \in SUBSET Threads :
        output' = [t \in Threads |-> IF t \in stale THEN None ELSE output[t]]
  BY DEF Prune
<1>2. UNCHANGED <<updatedAt, deletion, job>> /\ Forgotten' = Forgotten
  BY DEF Prune, threads, Forgotten
<1>3. \A t \in Threads : MemoryOf(t)' = IF t \in stale THEN -1 ELSE MemoryOf(t)
  BY <1>1 DEF MemoryOf
<1>4. Versions!Prune(stale)
  BY <1>2, <1>3, SameRows DEF Versions!Prune, Versions!Nothing
<1>. QED
  BY <1>4 DEF Versions!MemoryNext

LEMMA SelectionIsApart ==
  ASSUME TypeInv, NEW w \in Workers, SucceedGlobal(w)
  PROVE  UNCHANGED Versions!memoryVars
<1>. USE DEF TypeInv, TypeOK
<1>1. UNCHANGED <<updatedAt, deletion, job>> /\ Forgotten' = Forgotten
  BY DEF SucceedGlobal, threads, Forgotten
<1>2. ASSUME NEW t \in Threads
      PROVE  MemoryOf(t)' = MemoryOf(t)
  <2>1. CASE output'[t] = output[t]
    BY <2>1, SameRows
  <2>2. CASE output' = Selected(w) /\ output[t] # None
    <3>1. output'[t] = [output[t] EXCEPT !.selected =
                          IF chosen[w][t] = output[t].source THEN chosen[w][t] ELSE None]
      BY <2>2 DEF Selected
    <3>2. output[t] \in Outputs
      BY <2>2
    <3>3. output'[t] \in Outputs /\ output'[t].source = output[t].source
      BY <3>1, <3>2 DEF Outputs, Sources
    <3>. QED
      BY <2>2, <3>3, NoneAssumption DEF MemoryOf
  <2>. QED
    BY <2>1, <2>2 DEF SucceedGlobal, Selected
<1>. QED
  BY <1>1, <1>2, SameRows, StillVersions

LEMMA DeletionForgets ==
  ASSUME TypeInv, NEW t \in Threads, DeleteFile(t) \/ DeleteMemory(t) \/ DeleteRow(t)
  PROVE  Versions!MemoryNext \/ UNCHANGED Versions!memoryVars
<1>. USE DEF TypeInv, TypeOK
<1>1. CASE DeleteFile(t) \/ DeleteRow(t)
  <2>1. Forgotten' = Forgotten
    BY <1>1 DEF DeleteFile, DeleteRow, Forgotten
  <2>. QED
    BY <1>1, <2>1, SameRows, StillVersions DEF DeleteFile, DeleteRow, tables
<1>2. CASE DeleteMemory(t)
  <2>1. /\ UNCHANGED updatedAt
        /\ job'[t] = None /\ output'[t] = None
        /\ \A u \in Threads : u # t => job'[u] = job[u] /\ output'[u] = output[u]
    BY <1>2 DEF DeleteMemory, JobLeft
  <2>2. Forgotten' = Forgotten \cup {t}
    BY <1>2 DEF DeleteMemory, Forgotten
  <2>3. DoneVersion(t)' = -1 /\ MemoryOf(t)' = -1
    BY <2>1 DEF DoneVersion, MemoryOf
  <2>4. [u \in Threads |-> DoneVersion(u)]' =
          [[u \in Threads |-> DoneVersion(u)] EXCEPT ![t] = -1]
    BY <2>1, <2>3, SameRows
  <2>5. [u \in Threads |-> MemoryOf(u)]' = [[u \in Threads |-> MemoryOf(u)] EXCEPT ![t] = -1]
    BY <2>1, <2>3, SameRows
  <2>6. Versions!Forget(t)
    BY <2>1, <2>2, <2>4, <2>5 DEF Versions!Forget, Versions!Nothing
  <2>. QED
    BY <2>6 DEF Versions!MemoryNext
<1>. QED
  BY <1>1, <1>2

LEMMA ResetForgets ==
  ASSUME ResetRows
  PROVE  Versions!MemoryNext
<1>1. UNCHANGED updatedAt /\ Forgotten' = Forgotten
  BY DEF ResetRows, threads, Forgotten
<1>2. \A t \in Threads : DoneVersion(t)' = -1 /\ MemoryOf(t)' = -1
  BY DEF ResetRows, DoneVersion, MemoryOf
<1>3. Versions!Reset
  BY <1>1, <1>2 DEF Versions!Reset, Versions!Nothing
<1>. QED
  BY <1>3 DEF Versions!MemoryNext

LEMMA TouchIsTurn ==
  ASSUME TypeInv, NEW t \in Threads, Touch(t)
  PROVE  Versions!MemoryNext
<1>1. UNCHANGED <<deletion, job, output>> /\ Forgotten' = Forgotten
  BY DEF Touch, tables, Forgotten
<1>2. updatedAt' = [updatedAt EXCEPT ![t] = updatedAt'[t]] /\ updatedAt'[t] > updatedAt[t]
  BY NoneIsNoRow DEF Touch, TypeInv, TypeOK, Times
<1>3. Versions!Turn(t)
  BY <1>1, <1>2, SameRows DEF Versions!Turn
<1>. QED
  BY <1>3 DEF Versions!MemoryNext

LEMMA StepVersions ==
  ASSUME TypeInv, DataInv, SeenVersions, [Next]_vars
  PROVE  [Versions!MemoryNext]_(Versions!memoryVars)
<1>1. CASE UNCHANGED <<updatedAt, deletion, job, output>>
  BY <1>1, NothingChanges
<1>2. [Next]_vars =>
        \/ UNCHANGED <<updatedAt, deletion, job, output>>
        \/ \E w \in Workers : Prune(w) \/ SucceedGlobal(w)
        \/ \E w \in Workers, t \in Threads :
             Claim(w, t) \/ Succeed(w, t) \/ SucceedNoOutput(w, t) \/ Fail(w, t)
        \/ \E t \in Threads : Touch(t) \/ DeleteFile(t) \/ DeleteMemory(t) \/ DeleteRow(t)
        \/ ResetRows
  BY DEF Next, Phase1, Phase2, OfThread, Scan, ReadRollout, ClaimGlobal, LoadInputs,
         SyncInputs, SyncFails, Diff, AgentEdits, Heartbeat, AgentCompletes, ResetBaseline,
         GiveUp, FailGlobal, AgentStops, Crash, Pollute, ResetFiles, Tick, vars, threads, tables, work, files
<1>. QED
  BY <1>1, <1>2, PruneForgets, SelectionIsApart, ClaimKeepsDone, SucceedExtracts,
     FailKeepsDone, TouchIsTurn, DeletionForgets, ResetForgets

LEMMA InitVersions == Init => SeenVersions /\ Versions!MemoryInit
BY DEF Init, SeenVersions, NoSource, DoneVersion, MemoryOf, Forgotten, Versions!MemoryInit,
       Versions!Nothing

\* Startups, leases, crashes, retries and resets over the rows of the tables are
\* an implementation of one extraction per version of a thread, in order
\* (memories.rs: claims, watermarks and ownership tokens): no version is taken
\* twice between resets, and none of a thread that is forgotten.
THEOREM Implements == Spec => MemoryVersionsSpec
<1>1. Init => TypeInv /\ DataInv
  BY InitType DEF Init, DataInv, OutputIsDone, DeletedStaysForgotten, ClaimIsOfRow, Owns
<1>2. TypeInv /\ DataInv /\ SeenVersions /\ [Next]_vars => (TypeInv /\ DataInv /\ SeenVersions)'
  BY TypeStep, DataStep, SeenStep
<1>3. TypeInv /\ DataInv /\ SeenVersions /\ [Next]_vars
        => [Versions!MemoryNext]_(Versions!memoryVars)
  BY StepVersions
<1>. QED
  BY <1>1, <1>2, <1>3, InitVersions, PTL DEF Spec, MemoryVersionsSpec, Versions!MemorySpec
=============================================================================
