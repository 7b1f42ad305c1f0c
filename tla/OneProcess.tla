----------------------------- MODULE OneProcess -----------------------------
(***************************************************************************)
(* What the Codex backend promises of its subprocesses: one at a time      *)
(* runs, a next one is launched only when the one before has ended and was *)
(* given up, and messages go to one that answered its initialization.      *)
(***************************************************************************)
CONSTANTS
  Procs,  \* processes
  None    \* no process

VARIABLES
  alive,    \* processes that run
  ended,    \* processes that ran
  current   \* the one that messages are sent to

processVars == <<alive, ended, current>>

ProcessInit ==
  /\ alive = {}
  /\ ended = {}
  /\ current = None

Launch(p) ==
  /\ alive = {} /\ current = None
  /\ p \notin ended
  /\ alive' = {p}
  /\ UNCHANGED <<ended, current>>

Serve(p) ==
  /\ p \in alive /\ current = None
  /\ current' = p
  /\ UNCHANGED <<alive, ended>>

\* It exits; when that is taken for a crash it is no longer sent messages.
End(p) ==
  /\ p \in alive
  /\ alive' = alive \ {p}
  /\ ended' = ended \cup {p}
  /\ current' \in {current, None}

GiveUp ==
  /\ current \in ended
  /\ current' = None
  /\ UNCHANGED <<alive, ended>>

ProcessNext ==
  \/ GiveUp
  \/ \E p \in Procs : Launch(p) \/ Serve(p) \/ End(p)

ProcessSpec == ProcessInit /\ [][ProcessNext]_processVars
=============================================================================
