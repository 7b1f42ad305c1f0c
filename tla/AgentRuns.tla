----------------------------- MODULE AgentRuns -----------------------------
(***************************************************************************)
(* What the HTTP side promises of each request for an agent run: the run   *)
(* begins under a live controller, asks before it acts and not once it was *)
(* told to stop, is answered while it asks, and is over once and for all   *)
(* when its response was ended.  Requests stop each other's runs and end   *)
(* each other's responses, and do no more to each other.                   *)
(***************************************************************************)
CONSTANT Requests

VARIABLES
  stage,    \* of each request
  stopped,  \* runs that were told to stop
  told      \* requests whose response was ended

runsVars == <<stage, stopped, told>>

RunsInit ==
  /\ stage = [r \in Requests |-> "new"]
  /\ stopped = {}
  /\ told = {}

Live == {r \in Requests : stage[r] \in {"running", "asking", "acting"}}

To(r, where) == stage' = [stage EXCEPT ![r] = where]

\* Runs are stopped and responses ended.
Stop ==
  /\ stopped \subseteq stopped' /\ stopped' \subseteq Live'
  /\ told \subseteq told' /\ \A r \in told' : stage'[r] # "new"

\* The request comes, and may replace others or be refused.
Open(r) ==
  /\ stage[r] = "new"
  /\ To(r, "opening") \/ (To(r, "over") /\ r \in told')
  /\ Stop

Run(r) ==
  /\ stage[r] \in {"new", "opening"}
  /\ r \notin stopped
  /\ To(r, "running")
  /\ UNCHANGED <<stopped, told>>

\* For an approval, or for the human input that a tool wants.
Ask(r) ==
  /\ \/ stage[r] = "running" /\ r \notin stopped
     \/ stage[r] = "acting"
  /\ To(r, "asking")
  /\ UNCHANGED <<stopped, told>>

Answer(r) ==
  /\ stage[r] = "asking"
  /\ To(r, "acting") \/ To(r, "running")
  /\ UNCHANGED <<stopped, told>>

Acted(r) ==
  /\ stage[r] = "acting"
  /\ To(r, "running")
  /\ UNCHANGED <<stopped, told>>

End(r) ==
  /\ stage[r] \in {"opening", "running"}
  /\ To(r, "over")
  /\ told' = told \cup {r}
  /\ stopped' = stopped \ {r}

RunsNext ==
  \/ UNCHANGED stage /\ Stop
  \/ \E r \in Requests :
       /\ stage'[r] # stage[r]
       /\ Open(r) \/ Run(r) \/ Ask(r) \/ Answer(r) \/ Acted(r) \/ End(r)

RunsSpec == RunsInit /\ [][RunsNext]_runsVars
=============================================================================
