----------------------------- MODULE TurnTasks -----------------------------
(***************************************************************************)
(* The turns of a Codex session (codex-rs/core/src: tasks/mod.rs,          *)
(* session/inject.rs, handlers.rs and mod.rs, state/turn.rs).              *)
(*                                                                         *)
(* Session.active_turn is one slot under a mutex: None, or an ActiveTurn   *)
(* with a turn_state and perhaps a task.  Three processes fill and empty   *)
(* it: the loop of submissions, the guardian that interrupts a turn after  *)
(* too many denials, and the goal extension that continues when idle.      *)
(* The task of a turn runs beside them and empties the slot when it ends.  *)
(* An action is the work between two awaits at which another one can take  *)
(* the slot.                                                               *)
(*                                                                         *)
(* Left out: pending input, Plan mode and the mailbox phase (the choices   *)
(* they make are nondeterministic here), the other four kinds of waiters,  *)
(* which are kept and cleared like approvals, and handle_task_abort on a   *)
(* token already cancelled: Owned says that the slot never holds one.      *)
(***************************************************************************)
EXTENDS Integers, FiniteSets

CONSTANTS
  MaxTurns,  \* bound: turns that are started, or given up before that
  None,      \* no turn, no state
  Prompt     \* timing: a task gets from its check of the token to the slot
             \* before another, anywhere in start_task, sets its own task

ASSUME ConstAssumption == MaxTurns \in Nat /\ Prompt \in BOOLEAN

Turns == 1 .. MaxTurns

\* A TurnState, by the turn and the place in the code that made it.
States == Turns \X {"reserve", "prepare", "set"}

Processes == {"loop", "guardian", "idle"}

ASSUME NoneAssumption == None \notin Turns /\ None \notin States

VARIABLES
  slot,       \* active_turn: its turn_state
  task,       \* active_turn: the turn of its task
  mail,       \* whether the mailbox holds mail that triggers a turn
  turns,      \* the turns numbered so far
  job,        \* where each process is
  pc,         \* where the task of each turn is
  cancelled,  \* RunningTask.cancellation_token
  sender,     \* the TurnState that holds the sender a task waits for
  home,       \* the TurnState a task took when it finished
  ended       \* terminal events sent: TurnComplete or TurnAborted

tasks == <<pc, cancelled, sender, home, ended>>
vars == <<slot, task, mail, turns, job, tasks>>

Jobs ==
  [at: {"free", "taking", "waiting", "aborted", "waking", "reserving",
        "reserved", "starting", "setting"},
   turn: Turns \cup {None},   \* to be started
   state: States \cup {None}, \* taken or reserved
   task: Turns \cup {None}]   \* to be aborted

Free == [at |-> "free", turn |-> None, state |-> None, task |-> None]

Live == {"running", "asking", "checked"}

TypeOK ==
  /\ slot \in States \cup {None}
  /\ task \in Turns \cup {None}
  /\ slot = None => task = None
  /\ mail \in BOOLEAN
  /\ turns \in 0 .. MaxTurns
  /\ job \in [Processes -> Jobs]
  /\ pc \in [Turns -> Live \cup {"none", "finishing", "completed", "over"}]
  /\ cancelled \in [Turns -> BOOLEAN]
  /\ sender \in [Turns -> States \cup {None}]
  /\ home \in [Turns -> States \cup {None}]
  /\ ended \in [Turns -> Nat]

Init ==
  /\ slot = None /\ task = None
  /\ mail = FALSE
  /\ turns = 0
  /\ job = [p \in Processes |-> Free]
  /\ pc = [t \in Turns |-> "none"]
  /\ cancelled = [t \in Turns |-> FALSE]
  /\ sender = [t \in Turns |-> None]
  /\ home = [t \in Turns |-> None]
  /\ ended = [t \in Turns |-> 0]

-----------------------------------------------------------------------------
(* Operations of the loop, which handles one at a time. *)

\* User input that found no task to steer, compact, review, shell command.
Submit ==
  /\ job["loop"].at = "free" /\ turns < MaxTurns
  /\ turns' = turns + 1
  /\ job' = [job EXCEPT !["loop"] = [Free EXCEPT !.at = "taking", !.turn = turns']]
  /\ UNCHANGED <<slot, task, mail, tasks>>

\* Interrupt, an approval answered with Abort, shutdown.
Interrupt ==
  /\ job["loop"].at = "free"
  /\ job' = [job EXCEPT !["loop"].at = "taking"]
  /\ UNCHANGED <<slot, task, mail, turns, tasks>>

SendMail ==
  /\ job["loop"].at = "free"
  /\ mail' = TRUE
  /\ job' = [job EXCEPT !["loop"].at = "waking"]
  /\ UNCHANGED <<slot, task, turns, tasks>>

\* The sender is looked up in the turn that is active now.
Answer(t) ==
  /\ job["loop"].at = "free"
  /\ pc[t] = "asking" /\ slot # None /\ sender[t] = slot
  /\ pc' = [pc EXCEPT ![t] = "running"]
  /\ sender' = [sender EXCEPT ![t] = None]
  /\ UNCHANGED <<slot, task, mail, turns, job, cancelled, home, ended>>

-----------------------------------------------------------------------------
(* Aborting the active turn. *)

\* The slot is emptied and the token of its task cancelled.
Cancel(p) ==
  /\ slot' = None /\ task' = None
  /\ cancelled' = [cancelled EXCEPT ![task] = TRUE]
  /\ job' = [job EXCEPT ![p].at = "waiting", ![p].state = slot, ![p].task = task]

\* abort_all_tasks; without a task there is nothing to abort or to clear.
TakeActive(p) ==
  /\ job[p].at = "taking"
  /\ IF task # None
       THEN Cancel(p)
       ELSE /\ slot' = None /\ task' = None
            /\ job' = [job EXCEPT ![p] =
                         IF @.turn = None THEN Free ELSE [@ EXCEPT !.at = "starting"]]
            /\ UNCHANGED cancelled
  /\ UNCHANGED <<mail, turns, pc, sender, home, ended>>

\* abort_turn_if_active, for a turn that still has the slot.
Intervene ==
  /\ job["guardian"].at = "free" /\ task # None
  /\ Cancel("guardian")
  /\ UNCHANGED <<mail, turns, pc, sender, home, ended>>

\* A dropped or aborted handle stops its task at the await it is at.
StoppedBug(t) == pc[t]

Stopped(t) == IF pc[t] \in Live THEN "over" ELSE pc[t]

EndAbortBug(p) ==
  /\ job[p].at = "waiting"
  /\ ended' = [ended EXCEPT ![job[p].task] = @ + 1]
  /\ job' = [job EXCEPT ![p].at = "aborted", ![p].task = None]
  /\ UNCHANGED <<slot, task, mail, turns, pc, cancelled, sender, home>>

PatientBug(p) ==
  /\ job[p].at = "waiting" /\ pc[job[p].task] \notin Live
  /\ ended' = [ended EXCEPT ![job[p].task] = @ + 1]
  /\ job' = [job EXCEPT ![p].at = "aborted", ![p].task = None]
  /\ UNCHANGED <<slot, task, mail, turns, pc, cancelled, sender, home>>

\* The task has ended, or 100 ms have passed: the task stops for good, and
\* TurnAborted is sent.
EndAbort(p) ==
  /\ job[p].at = "waiting"
  /\ LET t == job[p].task
     IN /\ pc' = [pc EXCEPT ![t] = Stopped(t)]
        /\ sender' = [sender EXCEPT ![t] = None]
        /\ ended' = [ended EXCEPT ![t] = @ + 1]
  /\ job' = [job EXCEPT ![p].at = "aborted", ![p].task = None]
  /\ UNCHANGED <<slot, task, mail, turns, cancelled, home>>

\* The senders in the state are dropped: who still waits is told Abort.
ClearPending(p) ==
  /\ job[p].at = "aborted"
  /\ LET told == {t \in Turns : pc[t] = "asking" /\ sender[t] = job[p].state}
     IN /\ pc' = [t \in Turns |-> IF t \in told THEN "running" ELSE pc[t]]
        /\ sender' = [t \in Turns |-> IF t \in told THEN None ELSE sender[t]]
  /\ job' = [job EXCEPT ![p].at = IF job[p].turn = None THEN "waking" ELSE "starting",
                        ![p].state = None]
  /\ UNCHANGED <<slot, task, mail, turns, cancelled, home, ended>>

-----------------------------------------------------------------------------
(* Starting a turn. *)

\* maybe_start_turn_for_pending_work.
CheckMail(p) ==
  /\ job[p].at = "waking"
  /\ job' = [job EXCEPT ![p] = IF mail THEN [Free EXCEPT !.at = "reserving"] ELSE Free]
  /\ UNCHANGED <<slot, task, mail, turns, tasks>>

\* An empty slot gets a turn without a task, and p goes on at `at`.
ReserveFor(p, at) ==
  /\ slot = None /\ turns < MaxTurns
  /\ turns' = turns + 1
  /\ slot' = <<turns', "reserve">>
  /\ job' = [job EXCEPT ![p] =
               [Free EXCEPT !.at = at, !.turn = turns', !.state = slot']]
  /\ UNCHANGED <<task, mail, tasks>>

Reserve(p) ==
  /\ job[p].at = "reserving"
  /\ ReserveFor(p, "starting")

\* The slot is taken, or the bound is reached.
DoNotReserve(p) ==
  /\ job[p].at = "reserving"
  /\ slot # None \/ turns = MaxTurns
  /\ job' = [job EXCEPT ![p] = Free]
  /\ UNCHANGED <<slot, task, mail, turns, tasks>>

\* try_start_turn_if_idle, up to the reservation; the goal extension lets one
\* caller in at a time.
TryIdle ==
  /\ job["idle"].at = "free" /\ ~mail
  /\ ReserveFor("idle", "reserved")

ReservedBug(s) == slot # None

Reserved(s) == slot = s /\ task = None

GiveUpBug ==
  /\ job["idle"].at = "reserved"
  /\ job' = [job EXCEPT !["idle"] = [Free EXCEPT !.at = "waking"]]
  /\ UNCHANGED <<slot, task, mail, turns, tasks>>

\* Mail has come, or Plan mode: clear_reserved_idle_turn, then the pending work.
GiveUp ==
  /\ job["idle"].at = "reserved"
  /\ slot' = IF Reserved(job["idle"].state) THEN None ELSE slot
  /\ task' = IF Reserved(job["idle"].state) THEN None ELSE task
  /\ job' = [job EXCEPT !["idle"] = [Free EXCEPT !.at = "waking"]]
  /\ UNCHANGED <<mail, turns, tasks>>

\* still_reserved.
Confirm ==
  /\ job["idle"].at = "reserved" /\ ~mail
  /\ job' = [job EXCEPT !["idle"] =
               IF Reserved(@.state) THEN [@ EXCEPT !.at = "starting"] ELSE Free]
  /\ UNCHANGED <<slot, task, mail, turns, tasks>>

FilledBug(s) == slot

\* get_or_insert_with.
Filled(s) == IF slot = None THEN s ELSE slot

\* start_task, first part: pending input and mail are drained, the mail unless
\* the turn in the slot leaves it to the next one; the slot is filled.
Prepare(p) ==
  /\ job[p].at = "starting"
  /\ \E kept \in BOOLEAN : mail' = (mail /\ kept /\ slot # None)
  /\ slot' = Filled(<<job[p].turn, "prepare">>)
  /\ job' = [job EXCEPT ![p].at = "setting", ![p].state = None]
  /\ UNCHANGED <<task, turns, tasks>>

\* start_task, second part: a task found in the slot is dropped.
SetTask(p) ==
  /\ job[p].at = "setting"
  /\ Prompt => \A t \in Turns : pc[t] # "checked"
  /\ slot' = Filled(<<job[p].turn, "set">>)
  /\ task' = job[p].turn
  /\ pc' = [t \in Turns |-> CASE t = job[p].turn -> "running"
                              [] t = task /\ t # job[p].turn -> Stopped(t)
                              [] OTHER -> pc[t]]
  /\ sender' = [t \in Turns |-> IF t = task THEN None ELSE sender[t]]
  /\ job' = [job EXCEPT ![p] = Free]
  /\ UNCHANGED <<mail, turns, cancelled, home, ended>>

-----------------------------------------------------------------------------
(* The task of a turn. *)

\* request_command_approval puts its sender into the turn that is active now;
\* a tool call ends with the token of its task.
Ask(t) ==
  /\ pc[t] = "running" /\ ~cancelled[t]
  /\ pc' = [pc EXCEPT ![t] = "asking"]
  /\ sender' = [sender EXCEPT ![t] = slot]
  /\ UNCHANGED <<slot, task, mail, turns, job, cancelled, home, ended>>

\* Mail joins the next request to the model.
Drain(t) ==
  /\ pc[t] = "running" /\ mail
  /\ mail' = FALSE
  /\ UNCHANGED <<slot, task, turns, job, tasks>>

\* run returns; a cancelled task, waiting or not, goes no further.
RunEnds(t) ==
  /\ pc[t] = "running" \/ (pc[t] = "asking" /\ cancelled[t])
  /\ pc' = [pc EXCEPT ![t] = IF cancelled[t] THEN "over" ELSE "checked"]
  /\ sender' = [sender EXCEPT ![t] = None]
  /\ UNCHANGED <<slot, task, mail, turns, job, cancelled, home, ended>>

\* on_task_finished takes the task it finds in the slot.
Finish(t) ==
  /\ pc[t] = "checked" /\ task # None
  /\ task' = None
  /\ home' = [home EXCEPT ![t] = slot]
  /\ pc' = [pc EXCEPT ![t] = "finishing"]
  /\ UNCHANGED <<slot, mail, turns, job, cancelled, sender, ended>>

LateBug(t) ==
  /\ pc[t] = "checked" /\ task = None
  /\ pc' = [pc EXCEPT ![t] = "finishing"]
  /\ UNCHANGED <<slot, task, mail, turns, job, cancelled, sender, home, ended>>

\* It finds none: it was aborted after the check, and sends nothing.
Late(t) ==
  /\ pc[t] = "checked" /\ task = None
  /\ pc' = [pc EXCEPT ![t] = "over"]
  /\ UNCHANGED <<slot, task, mail, turns, job, cancelled, sender, home, ended>>

Complete(t) ==
  /\ pc[t] = "finishing"
  /\ ended' = [ended EXCEPT ![t] = @ + 1]
  /\ pc' = [pc EXCEPT ![t] = "completed"]
  /\ UNCHANGED <<slot, task, mail, turns, job, cancelled, sender, home>>

\* The slot is emptied if it is still the one of this turn.
Leave(t) ==
  /\ pc[t] = "completed"
  /\ slot' = IF Reserved(home[t]) THEN None ELSE slot
  /\ task' = IF Reserved(home[t]) THEN None ELSE task
  /\ home' = [home EXCEPT ![t] = None]
  /\ pc' = [pc EXCEPT ![t] = "over"]
  /\ UNCHANGED <<mail, turns, job, cancelled, sender, ended>>

-----------------------------------------------------------------------------
OfProcess(p) ==
  \/ TakeActive(p) \/ EndAbort(p) \/ ClearPending(p)
  \/ CheckMail(p) \/ Reserve(p) \/ DoNotReserve(p)
  \/ Prepare(p) \/ SetTask(p)

OfIdle == GiveUp \/ Confirm

OfFinished(t) == Finish(t) \/ Late(t) \/ Complete(t) \/ Leave(t)

Next ==
  \/ Submit \/ Interrupt \/ SendMail \/ Intervene \/ TryIdle \/ OfIdle
  \/ \E p \in Processes : OfProcess(p)
  \/ \E t \in Turns : Answer(t) \/ Ask(t) \/ Drain(t) \/ RunEnds(t) \/ OfFinished(t)

\* What has begun goes on; whether a client acts, a model answers or a tool
\* returns is not assumed.
Fairness ==
  /\ \A p \in Processes : WF_vars(OfProcess(p))
  /\ WF_vars(OfIdle)
  /\ \A t \in Turns : WF_vars(OfFinished(t))

Spec == Init /\ [][Next]_vars /\ Fairness

-----------------------------------------------------------------------------
\* A task that runs and is not cancelled is the one in the slot, and the slot
\* holds no other: Interrupt, steering and answers reach it.
Owned ==
  /\ \A t \in Turns : pc[t] \in Live /\ ~cancelled[t] => task = t
  /\ task # None => pc[task] \in Live /\ ~cancelled[task]

\* A turn gets one terminal event, and none as long as its task may run.
EndsOnce ==
  \A t \in Turns : ended[t] <= 1 /\ (ended[t] = 1 => pc[t] \notin Live)

\* An approval that a task waits for can be answered.
Answerable ==
  \A t \in Turns : pc[t] = "asking" /\ ~cancelled[t] => slot # None /\ sender[t] = slot

\* A slot without a task belongs to a process that is starting a turn or to a
\* task that is finishing: otherwise the session would be busy with nothing,
\* and pending work and goals would never start.
NoStuckSlot ==
  slot # None /\ task = None =>
    \/ \E p \in Processes :
         \/ job[p].at \in {"starting", "setting"}
         \/ job[p].at = "reserved" /\ job[p].state = slot
    \/ \E t \in Turns : pc[t] \in {"finishing", "completed"} /\ home[t] = slot

\* Who waits for an approval is told only what a client says, and only while
\* its turn has the slot.  No abort, of this turn or of another, makes up a
\* verdict that the model would see as a rejection (tasks/mod.rs 513, 552).
NoMadeUpVerdict ==
  [][\A t \in Turns : pc[t] = "asking" /\ pc'[t] = "running" =>
       ~cancelled[t] /\ sender[t] = slot /\ slot' = slot]_vars

\* An aborted turn ends with its event, whatever its task does.
AbortEnds ==
  \A t \in Turns : cancelled[t] ~> ended[t] = 1 /\ pc[t] \notin Live

-----------------------------------------------------------------------------
\* The stage of a turn: the one in the slot is active, any other that began was
\* aborted, took itself out of the slot, or was dropped for another.
Stage(t) ==
  CASE pc[t] = "none" -> "new"
    [] pc[t] # "none" /\ task = t -> IF pc[t] = "asking" THEN "asking" ELSE "running"
    [] pc[t] # "none" /\ task # t /\ cancelled[t] -> "aborted"
    [] OTHER -> IF pc[t] = "finishing" \/ ended[t] > 0 THEN "finished" ELSE "dropped"

\* The slot, its processes and the tasks behave like one turn at a time, whose
\* events come once and last.
Lifecycle == INSTANCE TurnLifecycle WITH
  stage <- [t \in Turns |-> Stage(t)],
  events <- ended

TurnLifecycleSpec == Lifecycle!LifecycleSpec
=============================================================================
