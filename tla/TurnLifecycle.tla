--------------------------- MODULE TurnLifecycle ---------------------------
(***************************************************************************)
(* What a Codex session promises of its turns: one at a time is active, it *)
(* alone runs and asks for approval, and what has left by an abort or by   *)
(* its own end gets one terminal event and nothing more.  A turn may also  *)
(* be dropped for the next one, and then gets none.                        *)
(***************************************************************************)
EXTENDS Integers

CONSTANT Turns

VARIABLES
  stage,   \* of each turn
  events   \* terminal events sent for it

lifecycleVars == <<stage, events>>

LifecycleInit ==
  /\ stage = [t \in Turns |-> "new"]
  /\ events = [t \in Turns |-> 0]

Active(t) == stage[t] \in {"running", "asking"}

To(t, where) ==
  /\ stage' = [stage EXCEPT ![t] = where]
  /\ UNCHANGED events

Begin(t) ==
  /\ stage[t] = "new"
  /\ stage' = [s \in Turns |-> CASE s = t      -> "running"
                                 [] Active(s)  -> "dropped"
                                 [] OTHER      -> stage[s]]
  /\ UNCHANGED events

Ask(t) == stage[t] = "running" /\ To(t, "asking")

Answer(t) == stage[t] = "asking" /\ To(t, "running")

Abort(t) == Active(t) /\ To(t, "aborted")

\* Not while an answer is awaited.
Finish(t) == stage[t] = "running" /\ To(t, "finished")

Report(t) ==
  /\ events[t] = 0
  /\ events' = [events EXCEPT ![t] = 1]
  /\ stage[t] \in {"aborted", "finished"}
  /\ UNCHANGED stage

Move(t) ==
  /\ stage'[t] # stage[t]
  /\ Begin(t) \/ Ask(t) \/ Answer(t) \/ Abort(t) \/ Finish(t)

LifecycleNext == \E t \in Turns : Report(t) \/ Move(t)

LifecycleSpec == LifecycleInit /\ [][LifecycleNext]_lifecycleVars
=============================================================================
