-------------------------- MODULE TurnTasksProofs --------------------------
(***************************************************************************)
(* Proofs about TurnTasks, for any number of turns.                        *)
(***************************************************************************)
EXTENDS TurnTasks, TLAPS

\* What a job holds at each step.
Holds(j) ==
  /\ j.at \in {"reserved", "starting", "setting"} => j.turn \in Turns
  /\ j.at \in {"reserved", "waiting", "aborted"} => j.state \in States
  /\ j.at = "waiting" => j.task \in Turns

JobsHold == \A p \in Processes : Holds(job[p])

TypeInv == TypeOK /\ JobsHold

-----------------------------------------------------------------------------
(* Types                                                                   *)

LEMMA Basics ==
  /\ None \notin Turns /\ None \notin States
  /\ Turns \subseteq Nat /\ MaxTurns \in Nat
  /\ \A t \in Nat : t \in Turns <=> 1 <= t /\ t <= MaxTurns
  /\ \A t \in Turns, m \in {"reserve", "prepare", "set"} : <<t, m>> \in States
  /\ Free \in Jobs /\ {"loop", "guardian", "idle"} = Processes
BY ConstAssumption, NoneAssumption DEF Turns, States, Free, Jobs, Processes

LEMMA FreeHolds == Free \in Jobs /\ Holds(Free)
BY DEF Free, Jobs, Holds

\* An update of one job, as every action makes it.
LEMMA JobStep ==
  ASSUME job \in [Processes -> Jobs], JobsHold, NEW p \in Processes, NEW j \in Jobs, Holds(j),
         job' = [job EXCEPT ![p] = j]
  PROVE  job' \in [Processes -> Jobs] /\ JobsHold'
BY DEF JobsHold

LEMMA InitType == Init => TypeInv
<1>. SUFFICES ASSUME Init
              PROVE  TypeInv
  OBVIOUS
<1>1. job \in [Processes -> Jobs] /\ JobsHold
  BY FreeHolds DEF Init, JobsHold
<1>2. 0 \in 0 .. MaxTurns
  BY Basics
<1>3. /\ pc \in [Turns -> Live \cup {"none", "finishing", "completed", "over"}]
      /\ ended \in [Turns -> Nat]
  BY DEF Init
<1>4. TypeOK
  BY <1>1, <1>2, <1>3 DEF Init, TypeOK
<1>. QED
  BY <1>1, <1>4 DEF TypeInv

LEMMA LoopType ==
  ASSUME TypeInv, Submit \/ Interrupt \/ SendMail \/ \E t \in Turns : Answer(t)
  PROVE  TypeInv'
<1>. DEFINE j == job["loop"]
<1>. USE DEF TypeInv
<1>0. "loop" \in Processes /\ j \in Jobs /\ Holds(j)
  BY Basics DEF TypeOK, JobsHold
<1>1. CASE Submit
  <2>. DEFINE k == [Free EXCEPT !.at = "taking", !.turn = turns']
  <2>1. turns' \in Turns /\ turns' \in 0 .. MaxTurns
    BY <1>1, Basics DEF Submit, TypeOK
  <2>2. k \in Jobs /\ Holds(k) /\ job' = [job EXCEPT !["loop"] = k]
    BY <1>1, <2>1 DEF Submit, Jobs, Holds, Free
  <2>3. job' \in [Processes -> Jobs] /\ JobsHold'
    BY <1>0, <2>2, JobStep DEF TypeOK
  <2>. QED
    BY <1>1, <2>1, <2>3 DEF Submit, TypeOK, tasks
<1>2. CASE Interrupt
  <2>. DEFINE k == [j EXCEPT !.at = "taking"]
  <2>1. k \in Jobs /\ Holds(k)
    BY <1>0 DEF Jobs, Holds
  <2>2. job' = [job EXCEPT !["loop"] = k]
    BY <1>2 DEF Interrupt
  <2>3. job' \in [Processes -> Jobs] /\ JobsHold'
    BY <1>0, <2>1, <2>2, JobStep DEF TypeOK
  <2>. QED
    BY <1>2, <2>3 DEF Interrupt, TypeOK, tasks
<1>3. CASE SendMail
  <2>. DEFINE k == [j EXCEPT !.at = "waking"]
  <2>1. k \in Jobs /\ Holds(k)
    BY <1>0 DEF Jobs, Holds
  <2>2. job' = [job EXCEPT !["loop"] = k]
    BY <1>3 DEF SendMail
  <2>3. job' \in [Processes -> Jobs] /\ JobsHold'
    BY <1>0, <2>1, <2>2, JobStep DEF TypeOK
  <2>. QED
    BY <1>3, <2>3 DEF SendMail, TypeOK, tasks
<1>4. CASE \E t \in Turns : Answer(t)
  BY <1>4 DEF Answer, TypeOK, JobsHold, Live
<1>. QED
  BY <1>1, <1>2, <1>3, <1>4

LEMMA CancelType ==
  ASSUME TypeInv, NEW p \in Processes, Cancel(p), task # None,
         UNCHANGED <<mail, turns, pc, sender, home, ended>>
  PROVE  TypeInv'
<1>. DEFINE j == [job[p] EXCEPT !.at = "waiting", !.state = slot, !.task = task]
<1>. USE DEF TypeInv
<1>1. task \in Turns /\ slot \in States
  BY Basics DEF TypeOK
<1>2. job[p] \in Jobs
  BY DEF TypeOK
<1>3. j \in Jobs /\ Holds(j)
  BY <1>1, <1>2 DEF Jobs, Holds
<1>4. job' = [job EXCEPT ![p] = j]
  BY DEF Cancel
<1>5. job' \in [Processes -> Jobs] /\ JobsHold'
  BY <1>3, <1>4, JobStep DEF TypeOK
<1>. QED
  BY <1>5 DEF Cancel, TypeOK

LEMMA AbortType ==
  ASSUME TypeInv, NEW p \in Processes,
         TakeActive(p) \/ Intervene \/ EndAbort(p) \/ ClearPending(p)
  PROVE  TypeInv'
<1>. DEFINE j == job[p]
<1>. USE DEF TypeInv
<1>0. j \in Jobs /\ Holds(j)
  BY DEF TypeOK, JobsHold
<1>1. CASE TakeActive(p) /\ task # None
  BY <1>1, CancelType DEF TakeActive
<1>2. CASE TakeActive(p) /\ task = None
  <2>. DEFINE k == IF j.turn = None THEN Free ELSE [j EXCEPT !.at = "starting"]
  <2>1. k \in Jobs /\ Holds(k)
    BY <1>0, FreeHolds DEF Jobs, Holds
  <2>2. job' = [job EXCEPT ![p] = k]
    BY <1>2 DEF TakeActive
  <2>3. job' \in [Processes -> Jobs] /\ JobsHold'
    BY <2>1, <2>2, JobStep DEF TypeOK
  <2>. QED
    BY <1>2, <2>3 DEF TakeActive, TypeOK
<1>3. CASE Intervene
  BY <1>3, CancelType, Basics DEF Intervene
<1>4. CASE EndAbort(p)
  <2>. DEFINE k == [j EXCEPT !.at = "aborted", !.task = None]
  <2>1. k \in Jobs /\ Holds(k)
    BY <1>0, <1>4 DEF Jobs, Holds, EndAbort
  <2>2. job' = [job EXCEPT ![p] = k]
    BY <1>4 DEF EndAbort
  <2>3. job' \in [Processes -> Jobs] /\ JobsHold'
    BY <2>1, <2>2, JobStep DEF TypeOK
  <2>4. j.task \in Turns
    BY <1>0, <1>4 DEF EndAbort, Holds
  <2>. QED
    BY <1>4, <2>3, <2>4 DEF EndAbort, Stopped, TypeOK, Live
<1>5. CASE ClearPending(p)
  <2>. DEFINE k == [j EXCEPT !.at = IF j.turn = None THEN "waking" ELSE "starting",
                             !.state = None]
  <2>1. k \in Jobs /\ Holds(k)
    BY <1>0 DEF Jobs, Holds
  <2>2. job' = [job EXCEPT ![p] = k]
    BY <1>5 DEF ClearPending
  <2>3. job' \in [Processes -> Jobs] /\ JobsHold'
    BY <2>1, <2>2, JobStep DEF TypeOK
  <2>. QED
    BY <1>5, <2>3 DEF ClearPending, TypeOK, Live
<1>. QED
  BY <1>1, <1>2, <1>3, <1>4, <1>5

LEMMA ReserveType ==
  ASSUME TypeInv, NEW p \in Processes, NEW at \in {"starting", "reserved"}, ReserveFor(p, at)
  PROVE  TypeInv'
<1>. DEFINE k == [Free EXCEPT !.at = at, !.turn = turns', !.state = slot']
<1>. USE DEF TypeInv
<1>1. turns' \in Turns /\ turns' \in 0 .. MaxTurns
  BY Basics DEF ReserveFor, TypeOK
<1>2. slot' \in States /\ slot' # None
  BY <1>1, Basics DEF ReserveFor
<1>3. k \in Jobs /\ Holds(k)
  BY <1>1, <1>2 DEF Jobs, Holds, Free
<1>4. job' = [job EXCEPT ![p] = k]
  BY DEF ReserveFor
<1>5. job' \in [Processes -> Jobs] /\ JobsHold'
  BY <1>3, <1>4, JobStep DEF TypeOK
<1>. QED
  BY <1>1, <1>2, <1>5 DEF ReserveFor, TypeOK, tasks

LEMMA IdleType ==
  ASSUME TypeInv, NEW p \in Processes, CheckMail(p) \/ DoNotReserve(p) \/ GiveUp \/ Confirm
  PROVE  TypeInv'
<1>. USE DEF TypeInv
<1>0. job["idle"] \in Jobs /\ Holds(job["idle"]) /\ "idle" \in Processes
  BY Basics DEF TypeOK, JobsHold
<1>1. CASE CheckMail(p)
  <2>. DEFINE k == IF mail THEN [Free EXCEPT !.at = "reserving"] ELSE Free
  <2>1. k \in Jobs /\ Holds(k)
    BY FreeHolds DEF Jobs, Holds, Free
  <2>2. job' = [job EXCEPT ![p] = k]
    BY <1>1 DEF CheckMail
  <2>3. job' \in [Processes -> Jobs] /\ JobsHold'
    BY <2>1, <2>2, JobStep DEF TypeOK
  <2>. QED
    BY <1>1, <2>3 DEF CheckMail, TypeOK, tasks
<1>2. CASE DoNotReserve(p)
  <2>1. job' \in [Processes -> Jobs] /\ JobsHold'
    BY <1>2, FreeHolds, JobStep DEF DoNotReserve, TypeOK
  <2>. QED
    BY <1>2, <2>1 DEF DoNotReserve, TypeOK, tasks
<1>3. CASE GiveUp
  <2>. DEFINE k == [Free EXCEPT !.at = "waking"]
  <2>1. k \in Jobs /\ Holds(k)
    BY DEF Jobs, Holds, Free
  <2>2. job' \in [Processes -> Jobs] /\ JobsHold'
    BY <1>0, <1>3, <2>1, JobStep DEF GiveUp, TypeOK
  <2>. QED
    BY <1>3, <2>2 DEF GiveUp, Reserved, TypeOK, tasks
<1>4. CASE Confirm
  <2>. DEFINE j == job["idle"]
              k == IF Reserved(j.state) THEN [j EXCEPT !.at = "starting"] ELSE Free
  <2>1. [j EXCEPT !.at = "starting"] \in Jobs /\ Holds([j EXCEPT !.at = "starting"])
    BY <1>0, <1>4 DEF Confirm, Jobs, Holds
  <2>2. k \in Jobs /\ Holds(k)
    BY <2>1, FreeHolds
  <2>3. job' = [job EXCEPT !["idle"] = k]
    BY <1>4 DEF Confirm
  <2>4. job' \in [Processes -> Jobs] /\ JobsHold'
    BY <1>0, <2>2, <2>3, JobStep DEF TypeOK
  <2>. QED
    BY <1>4, <2>4 DEF Confirm, TypeOK, tasks
<1>. QED
  BY <1>1, <1>2, <1>3, <1>4

LEMMA StartType ==
  ASSUME TypeInv, NEW p \in Processes, Prepare(p) \/ SetTask(p)
  PROVE  TypeInv'
<1>. DEFINE j == job[p]
<1>. USE DEF TypeInv
<1>0. j \in Jobs /\ Holds(j)
  BY DEF TypeOK, JobsHold
<1>1. CASE Prepare(p)
  <2>. DEFINE k == [j EXCEPT !.at = "setting", !.state = None]
  <2>1. j.turn \in Turns
    BY <1>0, <1>1 DEF Prepare, Holds
  <2>2. k \in Jobs /\ Holds(k)
    BY <1>0, <2>1 DEF Jobs, Holds
  <2>3. job' = [job EXCEPT ![p] = k]
    BY <1>1 DEF Prepare
  <2>4. job' \in [Processes -> Jobs] /\ JobsHold'
    BY <2>2, <2>3, JobStep DEF TypeOK
  <2>5. slot' \in States /\ mail' \in BOOLEAN
    BY <1>1, <2>1, Basics DEF Prepare, Filled, TypeOK
  <2>. QED
    BY <1>1, <2>4, <2>5, Basics DEF Prepare, TypeOK, tasks
<1>2. CASE SetTask(p)
  <2>1. j.turn \in Turns
    BY <1>0, <1>2 DEF SetTask, Holds
  <2>2. job' \in [Processes -> Jobs] /\ JobsHold'
    BY <1>2, FreeHolds, JobStep DEF SetTask, TypeOK
  <2>3. slot' \in States /\ task' \in Turns
    BY <1>2, <2>1, Basics DEF SetTask, Filled, TypeOK
  <2>. QED
    BY <1>2, <2>1, <2>2, <2>3, Basics DEF SetTask, Stopped, Live, TypeOK
<1>. QED
  BY <1>1, <1>2

LEMMA TaskType ==
  ASSUME TypeInv, NEW t \in Turns, Ask(t) \/ Drain(t) \/ RunEnds(t) \/ OfFinished(t)
  PROVE  TypeInv'
<1>. USE Basics DEF TypeInv, TypeOK, JobsHold, tasks, Live
<1>1. CASE Ask(t)
  BY <1>1 DEF Ask
<1>2. CASE Drain(t)
  BY <1>2 DEF Drain
<1>3. CASE RunEnds(t)
  BY <1>3 DEF RunEnds
<1>4. CASE Finish(t)
  BY <1>4 DEF Finish
<1>5. CASE Late(t)
  BY <1>5 DEF Late
<1>6. CASE Complete(t)
  BY <1>6 DEF Complete
<1>7. CASE Leave(t)
  BY <1>7 DEF Leave, Reserved
<1>. QED
  BY <1>1, <1>2, <1>3, <1>4, <1>5, <1>6, <1>7 DEF OfFinished

LEMMA TypeStep == TypeInv /\ [Next]_vars => TypeInv'
<1>. SUFFICES ASSUME TypeInv, [Next]_vars
              PROVE  TypeInv'
  OBVIOUS
<1>1. CASE UNCHANGED vars
  BY <1>1 DEF vars, tasks, TypeInv, TypeOK, JobsHold
<1>2. CASE Next
  <2>1. Intervene => TypeInv'
    BY AbortType, Basics
  <2>2. TryIdle \/ OfIdle => TypeInv'
    BY ReserveType, IdleType, Basics DEF TryIdle, OfIdle
  <2>3. ASSUME NEW p \in Processes, OfProcess(p)
        PROVE  TypeInv'
    BY <2>3, AbortType, ReserveType, IdleType, StartType DEF OfProcess, Reserve
  <2>4. ASSUME NEW t \in Turns, Ask(t) \/ Drain(t) \/ RunEnds(t) \/ OfFinished(t)
        PROVE  TypeInv'
    BY <2>4, TaskType
  <2>. QED
    BY <1>2, <2>1, <2>2, <2>3, <2>4, LoopType DEF Next
<1>. QED
  BY <1>1, <1>2

\* Every state of the model is one that the code can describe: the slot has no
\* task without its ActiveTurn.
THEOREM TypeCorrect == Spec => []TypeOK
<1>1. TypeInv => TypeOK
  BY DEF TypeInv
<1>. QED
  BY <1>1, InitType, TypeStep, PTL DEF Spec

-----------------------------------------------------------------------------
(* No stuck slot                                                           *)

LEMMA JobAt ==
  ASSUME job \in [Processes -> Jobs], NEW p \in Processes, NEW k, job' = [job EXCEPT ![p] = k]
  PROVE  \A q \in Processes : job'[q] = IF q = p THEN k ELSE job[q]
OBVIOUS

\* The two ways in which the code owns a slot without a task.
Starting(p) ==
  \/ job[p].at \in {"starting", "setting"}
  \/ job[p].at = "reserved" /\ job[p].state = slot

Finishing(t) == pc[t] \in {"finishing", "completed"} /\ home[t] = slot

LEMMA SlotStep == TypeInv /\ NoStuckSlot /\ [Next]_vars => NoStuckSlot'
<1>. SUFFICES ASSUME TypeInv, NoStuckSlot, [Next]_vars, slot' # None, task' = None
              PROVE  (\E p \in Processes : Starting(p)') \/ (\E t \in Turns : Finishing(t)')
  BY DEF NoStuckSlot, Starting, Finishing
<1>. USE DEF TypeInv
<1>0. job \in [Processes -> Jobs] /\ "loop" \in Processes /\ "idle" \in Processes
  BY Basics DEF TypeOK
<1>1. ASSUME slot' = slot, task' = task
      PROVE  (\E p \in Processes : Starting(p)) \/ (\E t \in Turns : Finishing(t))
  BY <1>1 DEF NoStuckSlot, Starting, Finishing
<1>2. ASSUME slot' = slot, task' = task, UNCHANGED <<pc, home>>, NEW p \in Processes, NEW k,
             job' = [job EXCEPT ![p] = k], ~Starting(p)
      PROVE  (\E q \in Processes : Starting(q)') \/ (\E t \in Turns : Finishing(t)')
  <2>1. \A q \in Processes : q # p => job'[q] = job[q]
    BY <1>0, <1>2, JobAt
  <2>. QED
    BY <1>1, <1>2, <2>1 DEF Starting, Finishing
<1>3. ASSUME slot' = slot, task' = task, job' = job, home' = home,
             \A t \in Turns : pc[t] \in {"finishing", "completed"} => pc'[t] \in {"finishing", "completed"}
      PROVE  (\E q \in Processes : Starting(q)') \/ (\E t \in Turns : Finishing(t)')
  BY <1>1, <1>3 DEF Starting, Finishing
<1>4. CASE UNCHANGED vars
  BY <1>3, <1>4 DEF vars, tasks
<1>5. CASE Submit \/ Interrupt \/ SendMail
  <2>1. ~Starting("loop")
    BY <1>5 DEF Submit, Interrupt, SendMail, Starting
  <2>2. \E k : job' = [job EXCEPT !["loop"] = k]
    BY <1>5 DEF Submit, Interrupt, SendMail
  <2>. QED
    BY <1>0, <1>2, <1>5, <2>1, <2>2 DEF Submit, Interrupt, SendMail, tasks
<1>6. CASE Intervene \/ \E p \in Processes : TakeActive(p)
  BY <1>6 DEF Intervene, TakeActive, Cancel
<1>7. ASSUME NEW p \in Processes, EndAbort(p) \/ ClearPending(p)
      PROVE  (\E q \in Processes : Starting(q)') \/ (\E t \in Turns : Finishing(t)')
  <2>1. ~Starting(p)
    BY <1>7 DEF EndAbort, ClearPending, Starting
  <2>2. PICK k : job' = [job EXCEPT ![p] = k]
    BY <1>7 DEF EndAbort, ClearPending
  <2>3. \A q \in Processes : q # p => job'[q] = job[q]
    BY <1>0, <2>2, JobAt
  <2>4. slot' = slot /\ task' = task /\ home' = home
    BY <1>7 DEF EndAbort, ClearPending
  <2>5. \A t \in Turns : pc[t] \in {"finishing", "completed"} => pc'[t] = pc[t]
    BY <1>7 DEF EndAbort, ClearPending, Stopped, Live, TypeOK
  <2>. QED
    BY <1>1, <2>1, <2>3, <2>4, <2>5 DEF Starting, Finishing
<1>8. ASSUME NEW p \in Processes, CheckMail(p) \/ DoNotReserve(p)
      PROVE  (\E q \in Processes : Starting(q)') \/ (\E t \in Turns : Finishing(t)')
  <2>1. ~Starting(p)
    BY <1>8 DEF CheckMail, DoNotReserve, Starting
  <2>2. \E k : job' = [job EXCEPT ![p] = k]
    BY <1>8 DEF CheckMail, DoNotReserve
  <2>. QED
    BY <1>2, <1>8, <2>1, <2>2 DEF CheckMail, DoNotReserve, tasks
<1>9. ASSUME NEW p \in Processes, NEW at \in {"starting", "reserved"}, ReserveFor(p, at)
      PROVE  Starting(p)'
  <2>. DEFINE k == [Free EXCEPT !.at = at, !.turn = turns', !.state = slot']
  <2>1. job'[p] = k
    BY <1>0, <1>9, JobAt DEF ReserveFor
  <2>. QED
    BY <2>1 DEF Starting, Free
<1>10. CASE GiveUp \/ Confirm
  <2>. DEFINE s == job["idle"].state
  <2>1. CASE Reserved(s)
    <3>1. Confirm
      BY <1>10, <2>1 DEF GiveUp
    <3>2. job'["idle"] = [job["idle"] EXCEPT !.at = "starting"] /\ job["idle"] \in Jobs
      BY <1>0, <2>1, <3>1, JobAt DEF Confirm
    <3>3. Starting("idle")'
      BY <3>2 DEF Starting, Jobs
    <3>. QED
      BY <1>0, <3>3
  <2>2. CASE ~Reserved(s)
    <3>1. slot' = slot /\ task' = task /\ UNCHANGED <<pc, home>>
      BY <1>10, <2>2 DEF GiveUp, Confirm, tasks
    <3>2. ~Starting("idle")
      BY <1>10, <2>2, <3>1 DEF Starting, Reserved, GiveUp, Confirm
    <3>3. \E k : job' = [job EXCEPT !["idle"] = k]
      BY <1>10 DEF GiveUp, Confirm
    <3>. QED
      BY <1>0, <1>2, <3>1, <3>2, <3>3
  <2>. QED
    BY <2>1, <2>2
<1>11. ASSUME NEW p \in Processes, Prepare(p)
       PROVE  Starting(p)'
  <2>1. job'[p] = [job[p] EXCEPT !.at = "setting", !.state = None] /\ job[p] \in Jobs
    BY <1>0, <1>11, JobAt DEF Prepare
  <2>. QED
    BY <2>1 DEF Starting, Jobs
<1>12. ASSUME NEW p \in Processes
       PROVE  ~SetTask(p)
  BY Basics DEF SetTask, JobsHold, Holds
<1>13. ASSUME NEW t \in Turns, Answer(t) \/ Ask(t) \/ Drain(t) \/ RunEnds(t) \/ Late(t) \/ Complete(t)
       PROVE  (\E q \in Processes : Starting(q)') \/ (\E u \in Turns : Finishing(u)')
  <2>1. slot' = slot /\ task' = task /\ job' = job /\ home' = home
    BY <1>13 DEF Answer, Ask, Drain, RunEnds, Late, Complete, tasks
  <2>2. \A u \in Turns : pc[u] \in {"finishing", "completed"} => pc'[u] \in {"finishing", "completed"}
    BY <1>13 DEF Answer, Ask, Drain, RunEnds, Late, Complete, tasks, TypeOK
  <2>. QED
    BY <1>3, <2>1, <2>2
<1>14. ASSUME NEW t \in Turns, Finish(t)
       PROVE  Finishing(t)'
  BY <1>14 DEF Finish, Finishing, TypeOK
<1>15. ASSUME NEW t \in Turns, Leave(t)
       PROVE  (\E q \in Processes : Starting(q)') \/ (\E u \in Turns : Finishing(u)')
  <2>1. slot' = slot /\ task' = task /\ job' = job /\ ~Reserved(home[t])
    BY <1>15 DEF Leave
  <2>2. ~Finishing(t)
    BY <1>15, <2>1 DEF Finishing, Reserved
  <2>3. \A u \in Turns : u # t => pc'[u] = pc[u] /\ home'[u] = home[u]
    BY <1>15 DEF Leave, TypeOK
  <2>. QED
    BY <1>1, <2>1, <2>2, <2>3 DEF Starting, Finishing
<1>. QED
  <2>1. CASE \E p \in Processes : OfProcess(p)
    BY <2>1, <1>6, <1>7, <1>8, <1>9, <1>11, <1>12 DEF OfProcess, Reserve
  <2>2. CASE TryIdle \/ OfIdle
    BY <2>2, <1>0, <1>9, <1>10 DEF TryIdle, OfIdle
  <2>3. CASE \E t \in Turns : Answer(t) \/ Ask(t) \/ Drain(t) \/ RunEnds(t) \/ OfFinished(t)
    BY <2>3, <1>13, <1>14, <1>15 DEF OfFinished
  <2>. QED
    BY <1>4, <1>5, <1>6, <2>1, <2>2, <2>3 DEF Next

\* Whatever the timing, a slot that is taken has a task or belongs to a code
\* path that gives it one or empties it.
THEOREM SlotIsNotStuck == Spec => []NoStuckSlot
<1>1. Init => NoStuckSlot
  BY DEF Init, NoStuckSlot
<1>. QED
  BY <1>1, InitType, TypeStep, SlotStep, PTL DEF Spec

-----------------------------------------------------------------------------
(* The tasks and their events, under Prompt                                *)

\* A turn to be started has no task yet, and one process starts it.
TurnsFresh ==
  /\ \A p \in Processes :
       job[p].turn # None => job[p].turn <= turns /\ pc[job[p].turn] = "none"
  /\ \A p, q \in Processes : p # q /\ job[p].turn # None => job[p].turn # job[q].turn
  /\ \A t \in Turns : t > turns => pc[t] = "none"
  /\ \A t \in Turns : pc[t] = "none" => ~cancelled[t] /\ ended[t] = 0

\* One process waits for a cancelled task, whose event is still to come.
AbortsOnce ==
  /\ \A p \in Processes :
       job[p].at = "waiting" =>
         /\ cancelled[job[p].task] /\ ended[job[p].task] = 0
         /\ pc[job[p].task] \in Live \cup {"over"}
  /\ \A p, q \in Processes :
       p # q /\ job[p].at = "waiting" /\ job[q].at = "waiting" => job[p].task # job[q].task
  /\ \A t \in Turns : pc[t] \in Live \cup {"finishing"} => ended[t] = 0
  /\ \A t \in Turns : ended[t] \in {0, 1}
  /\ \A t \in Turns : pc[t] = "checked" /\ cancelled[t] => task = None

\* A state in the slot, or one taken with a task and not cleared yet.
Held(p) == job[p].at \in {"waiting", "aborted"}

InUse(s) == s = slot \/ \E p \in Processes : Held(p) /\ job[p].state = s

\* No two of them are the same, and a state that is yet to be made is none.
StatesApart ==
  /\ \A p \in Processes : Held(p) => job[p].state # slot
  /\ \A p, q \in Processes : p # q /\ Held(p) /\ Held(q) => job[p].state # job[q].state
  /\ \A u \in Turns, m \in {"reserve", "prepare", "set"} : InUse(<<u, m>>) => u <= turns
  /\ \A u \in Turns, p \in Processes :
       InUse(<<u, "prepare">>) /\ job[p].turn = u => job[p].at = "setting"
  /\ \A u \in Turns : InUse(<<u, "set">>) => pc[u] # "none"

\* The sender of a cancelled task is in the state that its abort holds.
SendersHeld ==
  \A t \in Turns : pc[t] = "asking" /\ cancelled[t] =>
    \E p \in Processes :
      job[p].at = "waiting" /\ job[p].task = t /\ job[p].state = sender[t]

TaskInv == TurnsFresh /\ AbortsOnce /\ Owned /\ StatesApart /\ Answerable /\ SendersHeld

LEMMA InitTasks == Init => TaskInv
<1>. SUFFICES ASSUME Init
              PROVE  TaskInv
  OBVIOUS
<1>1. \A p \in Processes : job[p].at = "free" /\ job[p].turn = None
  BY DEF Init, Free
<1>2. TurnsFresh /\ AbortsOnce /\ Owned
  BY <1>1, Basics DEF Init, TurnsFresh, AbortsOnce, Owned, Live
<1>3. StatesApart
  BY <1>1, Basics DEF Init, StatesApart, Held, InUse
<1>. QED
  BY <1>2, <1>3 DEF Init, TaskInv, Answerable, SendersHeld

\* A process that does not hold a state moves on, with its turn or without,
\* and leaves the slot and the task in it, or empties a slot that has none.
LEMMA MoveStep ==
  ASSUME TypeInv, TaskInv, NEW p \in Processes, NEW k \in Jobs, job' = [job EXCEPT ![p] = k],
         k.turn \in {job[p].turn, None}, k.at \notin {"waiting", "aborted"},
         job[p].at \notin {"waiting", "setting"}, UNCHANGED <<turns, tasks>>,
         task' = task, slot' = slot \/ (slot' = None /\ task = None)
  PROVE  TaskInv'
<1>. USE DEF TypeInv, TaskInv
<1>1. job \in [Processes -> Jobs] /\ \A q \in Processes : job'[q] = IF q = p THEN k ELSE job[q]
  BY JobAt DEF TypeOK
<1>2. TurnsFresh'
  BY <1>1 DEF TurnsFresh, tasks
<1>3. AbortsOnce' /\ Owned'
  BY <1>1 DEF AbortsOnce, Owned, tasks
<1>4. StatesApart'
  <2>1. \A q \in Processes : Held(q)' => Held(q) /\ job'[q] = job[q]
    BY <1>1 DEF Held
  <2>2. \A s \in States : InUse(s)' => InUse(s)
    BY <2>1, Basics DEF InUse
  <2>3. \A q \in Processes : Held(q)' => job'[q].state # slot'
    BY <2>1, Basics DEF StatesApart, JobsHold, Holds, Held
  <2>4. \A u \in Turns, q \in Processes :
          InUse(<<u, "prepare">>)' /\ job'[q].turn = u => job'[q].at = "setting"
    <3> SUFFICES ASSUME NEW u \in Turns, NEW q \in Processes,
                        InUse(<<u, "prepare">>)', job'[q].turn = u
                 PROVE  job'[q].at = "setting"
      OBVIOUS
    <3>1. <<u, "prepare">> \in States /\ u # None
      BY Basics
    <3>2. job[q].turn = u
      BY <1>1, <3>1
    <3>3. job[q].at = "setting"
      BY <2>2, <3>1, <3>2 DEF StatesApart
    <3>. QED
      BY <1>1, <3>3
  <2>5. \A u \in Turns, m \in {"reserve", "prepare", "set"} : InUse(<<u, m>>)' => u <= turns'
    BY <2>2, Basics DEF StatesApart
  <2>6. \A u \in Turns : InUse(<<u, "set">>)' => pc'[u] # "none"
    BY <2>2, Basics DEF StatesApart, tasks
  <2>7. \A q, r \in Processes : q # r /\ Held(q)' /\ Held(r)' => job'[q].state # job'[r].state
    BY <2>1 DEF StatesApart
  <2>. QED
    BY <2>3, <2>4, <2>5, <2>6, <2>7 DEF StatesApart
<1>5. Answerable' /\ SendersHeld'
  <2>1. Answerable'
    BY Basics DEF Answerable, Owned, Live, tasks
  <2>2. SendersHeld'
    BY <1>1 DEF SendersHeld, tasks
  <2>. QED
    BY <2>1, <2>2
<1>. QED
  BY <1>2, <1>3, <1>4, <1>5

\* Nobody is told a verdict by an abort: the state it clears is neither in the
\* slot nor held by another abort, and there alone a waiting task has a sender.
LEMMA NobodyTold ==
  ASSUME TypeInv, TaskInv, NEW p \in Processes, ClearPending(p)
  PROVE  pc' = pc /\ sender' = sender
<1>. USE DEF TypeInv, TaskInv
<1>1. job[p].state \in States /\ job[p].state # slot /\ Held(p) /\ job[p].at = "aborted"
  BY DEF ClearPending, JobsHold, Holds, StatesApart, Held
<1>2. ASSUME NEW t \in Turns, pc[t] = "asking", sender[t] = job[p].state
      PROVE  FALSE
  <2>1. CASE ~cancelled[t]
    BY <1>1, <1>2, <2>1 DEF Answerable
  <2>2. CASE cancelled[t]
    <3>1. PICK q \in Processes : job[q].at = "waiting" /\ job[q].state = sender[t]
      BY <1>2, <2>2 DEF SendersHeld
    <3>. QED
      BY <1>1, <1>2, <3>1 DEF StatesApart, Held
  <2>. QED
    BY <2>1, <2>2 DEF TypeOK
<1>3. /\ \A t \in Turns : pc'[t] = pc[t] /\ sender'[t] = sender[t]
      /\ pc' = [t \in Turns |-> pc'[t]] /\ sender' = [t \in Turns |-> sender'[t]]
  BY <1>2 DEF ClearPending
<1>. QED
  BY <1>3 DEF TypeOK

LEMMA MovesTasks ==
  ASSUME TypeInv, TaskInv, NEW p \in Processes,
         \/ Interrupt \/ SendMail \/ GiveUp \/ Confirm
         \/ (TakeActive(p) /\ task = None) \/ ClearPending(p)
         \/ CheckMail(p) \/ DoNotReserve(p)
  PROVE  TaskInv'
<1>. USE DEF TypeInv
<1>0. /\ "loop" \in Processes /\ "idle" \in Processes
      /\ \A q \in Processes : job[q] \in Jobs
  BY Basics DEF TypeOK
<1>1. CASE Interrupt
  <2>. DEFINE k == [job["loop"] EXCEPT !.at = "taking"]
  <2>1. k \in Jobs /\ k.turn = job["loop"].turn /\ k.at = "taking"
    BY <1>0 DEF Jobs
  <2>. QED
    BY <1>0, <1>1, <2>1, MoveStep DEF Interrupt
<1>2. CASE SendMail
  <2>. DEFINE k == [job["loop"] EXCEPT !.at = "waking"]
  <2>1. k \in Jobs /\ k.turn = job["loop"].turn /\ k.at = "waking"
    BY <1>0 DEF Jobs
  <2>. QED
    BY <1>0, <1>2, <2>1, MoveStep DEF SendMail
<1>3. CASE GiveUp
  <2>. DEFINE k == [Free EXCEPT !.at = "waking"]
  <2>1. k \in Jobs /\ k.turn = None /\ k.at = "waking"
    BY DEF Jobs, Free
  <2>2. task' = task /\ (slot' = slot \/ (slot' = None /\ task = None))
    BY <1>3 DEF GiveUp, Reserved
  <2>. QED
    BY <1>0, <1>3, <2>1, <2>2, MoveStep DEF GiveUp
<1>4. CASE Confirm
  <2>. DEFINE k == IF Reserved(job["idle"].state)
                     THEN [job["idle"] EXCEPT !.at = "starting"] ELSE Free
  <2>1. k \in Jobs /\ k.turn \in {job["idle"].turn, None} /\ k.at \in {"starting", "free"}
    BY <1>0, FreeHolds DEF Jobs, Free
  <2>2. job' = [job EXCEPT !["idle"] = k]
    BY <1>4 DEF Confirm
  <2>. QED
    BY <1>0, <1>4, <2>1, <2>2, MoveStep DEF Confirm
<1>5. CASE TakeActive(p) /\ task = None
  <2>. DEFINE k == IF job[p].turn = None THEN Free ELSE [job[p] EXCEPT !.at = "starting"]
  <2>1. k \in Jobs /\ k.turn = job[p].turn /\ k.at \in {"starting", "free"}
    BY <1>0, FreeHolds DEF Jobs, Free
  <2>2. job' = [job EXCEPT ![p] = k]
    BY <1>5 DEF TakeActive
  <2>. QED
    BY <1>5, <2>1, <2>2, MoveStep DEF TakeActive, tasks
<1>6. CASE ClearPending(p)
  <2>. DEFINE k == [job[p] EXCEPT !.at = IF job[p].turn = None THEN "waking" ELSE "starting",
                                  !.state = None]
  <2>1. k \in Jobs /\ k.turn = job[p].turn /\ k.at \in {"starting", "waking"}
    BY <1>0 DEF Jobs
  <2>2. job' = [job EXCEPT ![p] = k]
    BY <1>6 DEF ClearPending
  <2>3. UNCHANGED tasks
    BY <1>6, NobodyTold DEF ClearPending, tasks
  <2>4. job[p].at = "aborted" /\ UNCHANGED <<turns, task, slot>>
    BY <1>6 DEF ClearPending
  <2>. QED
    BY <2>1, <2>2, <2>3, <2>4, MoveStep
<1>7. CASE CheckMail(p)
  <2>. DEFINE k == IF mail THEN [Free EXCEPT !.at = "reserving"] ELSE Free
  <2>1. k \in Jobs /\ k.turn = None /\ k.at \in {"reserving", "free"}
    BY FreeHolds DEF Jobs, Free
  <2>2. job' = [job EXCEPT ![p] = k]
    BY <1>7 DEF CheckMail
  <2>. QED
    BY <1>7, <2>1, <2>2, MoveStep DEF CheckMail
<1>8. CASE DoNotReserve(p)
  <2>1. Free \in Jobs /\ Free.turn = None /\ Free.at = "free"
    BY FreeHolds DEF Free
  <2>. QED
    BY <1>8, <2>1, MoveStep DEF DoNotReserve
<1>. QED
  BY <1>1, <1>2, <1>3, <1>4, <1>5, <1>6, <1>7, <1>8

\* A process numbers a new turn, and perhaps reserves an empty slot for it.
LEMMA NewTurn ==
  ASSUME TypeInv, TaskInv, NEW p \in Processes, NEW k \in Jobs, job' = [job EXCEPT ![p] = k],
         turns < MaxTurns, turns' = turns + 1, k.turn = turns',
         k.at \notin {"waiting", "aborted"}, job[p].at \notin {"waiting", "aborted"},
         UNCHANGED tasks, task' = task,
         slot' = slot \/ (slot = None /\ slot' = <<turns', "reserve">>)
  PROVE  TaskInv'
<1>. USE DEF TypeInv, TaskInv
<1>1. job \in [Processes -> Jobs] /\ \A q \in Processes : job'[q] = IF q = p THEN k ELSE job[q]
  BY JobAt DEF TypeOK
<1>2. turns' \in Turns /\ turns \in Nat /\ pc[turns'] = "none" /\ turns' # None
  BY Basics DEF TypeOK, TurnsFresh
<1>3. TurnsFresh'
  <2>1. \A q \in Processes : job[q].turn # None => job[q].turn \in Nat /\ job[q].turn <= turns
    <3>1. \A q \in Processes : job[q].turn \in Turns \cup {None}
      BY <1>1 DEF Jobs
    <3>. QED
      BY <3>1, Basics DEF TurnsFresh
  <2>2. \A q \in Processes :
          job'[q].turn # None => job'[q].turn <= turns' /\ pc'[job'[q].turn] = "none"
    BY <1>1, <1>2, <2>1 DEF TurnsFresh, tasks
  <2>3. \A q, r \in Processes : q # r /\ job'[q].turn # None => job'[q].turn # job'[r].turn
    BY <1>1, <1>2, <2>1 DEF TurnsFresh
  <2>4. \A t \in Turns : t > turns' => pc'[t] = "none"
    BY <1>2, Basics DEF TurnsFresh, tasks
  <2>. QED
    BY <2>2, <2>3, <2>4 DEF TurnsFresh, tasks
<1>4. AbortsOnce' /\ Owned'
  BY <1>1 DEF AbortsOnce, Owned, tasks
<1>5. StatesApart'
  <2>1. \A q \in Processes : Held(q)' <=> Held(q) /\ q # p
    BY <1>1 DEF Held
  <2>2. \A q \in Processes : Held(q)' => job'[q] = job[q] /\ job[q].state \in States
    BY <1>1, <2>1 DEF JobsHold, Holds, Held
  <2>3. ~InUse(<<turns', "reserve">>) /\ ~InUse(<<turns', "prepare">>) /\ ~InUse(<<turns', "set">>)
    BY <1>2 DEF StatesApart
  <2>4. \A s \in States : InUse(s)' => InUse(s) \/ s = <<turns', "reserve">>
    BY <2>1, <2>2, Basics DEF InUse
  <2>5. \A q \in Processes : Held(q)' => job'[q].state # slot'
    BY <2>1, <2>2, <2>3 DEF StatesApart, InUse
  <2>6. \A q, r \in Processes : q # r /\ Held(q)' /\ Held(r)' => job'[q].state # job'[r].state
    BY <2>1, <2>2 DEF StatesApart
  <2>7. ASSUME NEW u \in Turns, NEW m \in {"reserve", "prepare", "set"}, InUse(<<u, m>>)'
        PROVE  u <= turns'
    <3>1. <<u, m>> \in States /\ u \in Nat
      BY Basics
    <3>2. InUse(<<u, m>>) \/ u = turns'
      BY <2>4, <2>7, <3>1
    <3>3. InUse(<<u, m>>) => u <= turns
      BY DEF StatesApart
    <3>. QED
      BY <1>2, <3>1, <3>2, <3>3
  <2>8. \A u \in Turns : InUse(<<u, "prepare">>)' => InUse(<<u, "prepare">>) /\ u # turns'
    BY <2>3, <2>4, Basics
  <2>9. \A u \in Turns, q \in Processes :
          InUse(<<u, "prepare">>)' /\ job'[q].turn = u => job'[q].at = "setting"
    BY <1>1, <2>8 DEF StatesApart
  <2>10. \A u \in Turns : InUse(<<u, "set">>)' => pc'[u] # "none"
    BY <2>4, Basics DEF StatesApart, tasks
  <2>. QED
    BY <2>5, <2>6, <2>7, <2>9, <2>10 DEF StatesApart
<1>6. Answerable' /\ SendersHeld'
  <2>1. Answerable'
    BY DEF Answerable, tasks
  <2>2. SendersHeld'
    BY <1>1 DEF SendersHeld, tasks
  <2>. QED
    BY <2>1, <2>2
<1>. QED
  BY <1>3, <1>4, <1>5, <1>6

LEMMA NewTurns ==
  ASSUME TypeInv, TaskInv, NEW p \in Processes, Submit \/ Reserve(p) \/ TryIdle
  PROVE  TaskInv'
<1>. USE DEF TypeInv
<1>1. ASSUME turns < MaxTurns, turns' = turns + 1
      PROVE  turns' \in Turns
  BY <1>1, Basics DEF TypeOK
<1>2. CASE Submit
  <2>. DEFINE k == [Free EXCEPT !.at = "taking", !.turn = turns']
  <2>1. k \in Jobs /\ k.turn = turns' /\ k.at = "taking"
    BY <1>1, <1>2 DEF Submit, Jobs, Free
  <2>. QED
    BY <1>2, <2>1, NewTurn, Basics DEF Submit
<1>3. ASSUME NEW q \in Processes, NEW at \in {"starting", "reserved"}, ReserveFor(q, at),
             job[q].at \in {"free", "reserving"}
      PROVE  TaskInv'
  <2>. DEFINE k == [Free EXCEPT !.at = at, !.turn = turns', !.state = slot']
  <2>1. turns' \in Turns /\ slot' \in States
    BY <1>1, <1>3, Basics DEF ReserveFor
  <2>2. k \in Jobs /\ k.turn = turns' /\ k.at = at
    BY <2>1 DEF Jobs, Free
  <2>. QED
    BY <1>3, <2>2, NewTurn DEF ReserveFor
<1>. QED
  BY <1>2, <1>3, Basics DEF Reserve, TryIdle

\* The task in the slot is cancelled and its state taken.
LEMMA CancelTasks ==
  ASSUME TypeInv, TaskInv, NEW p \in Processes, Cancel(p), task # None,
         job[p].at \in {"free", "taking"},
         UNCHANGED <<mail, turns, pc, sender, home, ended>>
  PROVE  TaskInv'
<1>. DEFINE k == [job[p] EXCEPT !.at = "waiting", !.state = slot, !.task = task]
<1>. USE DEF TypeInv, TaskInv
<1>0. task \in Turns /\ slot \in States /\ pc[task] \in Live /\ ~cancelled[task]
  BY Basics DEF TypeOK, Owned
<1>1. job \in [Processes -> Jobs] /\ \A q \in Processes : job'[q] = IF q = p THEN k ELSE job[q]
  BY JobAt DEF TypeOK, Cancel
<1>2. /\ k.at = "waiting" /\ k.turn = job[p].turn /\ k.state = slot /\ k.task = task
      /\ slot' = None /\ task' = None
  BY <1>1 DEF Cancel, Jobs
<1>3. cancelled'[task] /\ \A t \in Turns : t # task => cancelled'[t] = cancelled[t]
  BY <1>0 DEF Cancel, TypeOK
<1>4. TurnsFresh'
  <2>1. \A t \in Turns : pc[t] = "none" => t # task
    BY <1>0 DEF Live
  <2>2. \A q \in Processes : job'[q].turn = job[q].turn
    BY <1>1, <1>2
  <2>. QED
    BY <1>3, <2>1, <2>2 DEF TurnsFresh
<1>5. AbortsOnce'
  <2>1. \A q \in Processes : job'[q].at = "waiting" /\ q # p => job[q].task # task
    BY <1>0, <1>1 DEF AbortsOnce
  <2>2. ended[task] = 0
    BY <1>0 DEF AbortsOnce
  <2>3. \A q \in Processes : job[q].at = "waiting" => job[q].task \in Turns
    BY DEF JobsHold, Holds
  <2>4. /\ job'[p].at = "waiting" /\ job'[p].task = task
        /\ \A q \in Processes : q # p => job'[q] = job[q]
    BY <1>1, <1>2
  <2>5. \A q \in Processes :
          job'[q].at = "waiting" =>
            /\ cancelled'[job'[q].task] /\ ended'[job'[q].task] = 0
            /\ pc'[job'[q].task] \in Live \cup {"over"}
    BY <1>0, <1>3, <2>2, <2>3, <2>4 DEF AbortsOnce
  <2>6. \A q, r \in Processes :
          q # r /\ job'[q].at = "waiting" /\ job'[r].at = "waiting" => job'[q].task # job'[r].task
    BY <2>1, <2>4 DEF AbortsOnce
  <2>. QED
    BY <1>2, <2>5, <2>6 DEF AbortsOnce
<1>6. Owned'
  BY <1>2, <1>3 DEF Owned
<1>7. StatesApart'
  <2>1. \A q \in Processes : Held(q)' <=> Held(q) \/ q = p
    BY <1>1, <1>2 DEF Held
  <2>2. \A q \in Processes : q # p => job'[q] = job[q]
    BY <1>1
  <2>3. job'[p].state = slot /\ job'[p].turn = job[p].turn /\ job'[p].at = "waiting"
    BY <1>1, <1>2
  <2>4. \A s \in States : InUse(s)' <=> InUse(s)
    BY <1>2, <2>1, <2>2, <2>3, Basics DEF InUse, Held
  <2>5. \A q \in Processes : Held(q)' => job'[q].state # slot'
    BY <1>0, <1>2, <2>1, <2>2, <2>3, Basics DEF JobsHold, Holds, Held
  <2>6. \A q, r \in Processes : q # r /\ Held(q)' /\ Held(r)' => job'[q].state # job'[r].state
    BY <2>1, <2>2, <2>3 DEF StatesApart
  <2>7. \A u \in Turns, m \in {"reserve", "prepare", "set"} : InUse(<<u, m>>)' => InUse(<<u, m>>)
    BY <2>4, Basics
  <2>8. \A u \in Turns, q \in Processes :
          InUse(<<u, "prepare">>)' /\ job'[q].turn = u => job'[q].at = "setting"
    <3> SUFFICES ASSUME NEW u \in Turns, NEW q \in Processes,
                        InUse(<<u, "prepare">>)', job'[q].turn = u
                 PROVE  job'[q].at = "setting"
      OBVIOUS
    <3>1. InUse(<<u, "prepare">>)
      BY <2>7
    <3>2. job[q].turn = u
      BY <2>2, <2>3
    <3>3. job[q].at = "setting"
      BY <3>1, <3>2 DEF StatesApart
    <3>. QED
      BY <1>0, <2>2, <3>3
  <2>. QED
    BY <2>5, <2>6, <2>7, <2>8 DEF StatesApart
<1>8. Answerable' /\ SendersHeld'
  <2>1. \A t \in Turns : pc[t] = "asking" /\ ~cancelled[t] => t = task /\ sender[t] = slot
    BY DEF Answerable, Owned, Live
  <2>2. /\ job'[p].at = "waiting" /\ job'[p].task = task /\ job'[p].state = slot
        /\ \A q \in Processes : job[q].at = "waiting" => job'[q] = job[q]
    BY <1>1, <1>2
  <2>3. Answerable'
    BY <1>3, <2>1 DEF Answerable
  <2>4. SendersHeld'
    BY <1>3, <2>1, <2>2 DEF SendersHeld
  <2>. QED
    BY <2>3, <2>4
<1>. QED
  BY <1>4, <1>5, <1>6, <1>7, <1>8

\* A step of one task leaves the jobs and the states alone.
LEMMA TaskStep ==
  ASSUME TypeInv, TaskInv, NEW t \in Turns, UNCHANGED <<turns, job, cancelled>>,
         slot' = slot \/ (slot' = None /\ task = None),
         pc[t] # "none", pc'[t] # "none",
         \A u \in Turns : u # t => pc'[u] = pc[u] /\ ended'[u] = ended[u]
  PROVE  TurnsFresh' /\ StatesApart'
<1>. USE DEF TypeInv, TaskInv
<1>1. \A u \in Turns : (pc'[u] = "none") <=> (pc[u] = "none")
  OBVIOUS
<1>2. \A p \in Processes : job[p] \in Jobs
  BY DEF TypeOK
<1>3. TurnsFresh'
  BY <1>1, <1>2 DEF TurnsFresh, Jobs
<1>4. \A s \in States : InUse(s)' => InUse(s)
  BY Basics DEF InUse, Held
<1>5. \A u \in Turns, m \in {"reserve", "prepare", "set"} : InUse(<<u, m>>)' => InUse(<<u, m>>)
  BY <1>4, Basics
<1>6. \A p \in Processes : Held(p)' => Held(p) /\ job[p].state # slot'
  BY Basics DEF StatesApart, JobsHold, Holds, Held
<1>7. StatesApart'
  BY <1>1, <1>5, <1>6 DEF StatesApart
<1>. QED
  BY <1>3, <1>7

\* The task in the slot is not cancelled, and t is it if it is not cancelled.
LEMMA OwnTask ==
  ASSUME TypeInv, TaskInv, NEW t \in Turns, pc[t] \in Live
  PROVE  /\ ~cancelled[t] => task = t /\ slot # None
         /\ ended[t] = 0 /\ pc[t] # "none"
BY Basics DEF TypeInv, TaskInv, TypeOK, Owned, AbortsOnce, Live

LEMMA AskTasks ==
  ASSUME TypeInv, TaskInv, NEW t \in Turns, Answer(t) \/ Ask(t)
  PROVE  TaskInv'
<1>. USE DEF TypeInv, TaskInv
<1>1. /\ pc[t] \in {"running", "asking"} /\ pc'[t] \in {"running", "asking"}
      /\ \A u \in Turns : u # t => pc'[u] = pc[u] /\ sender'[u] = sender[u]
      /\ UNCHANGED <<slot, task, turns, job, cancelled, ended>>
  BY DEF Answer, Ask, TypeOK
<1>2. TurnsFresh' /\ StatesApart'
  <2>1. pc[t] # "none" /\ pc'[t] # "none"
    BY <1>1
  <2>. QED
    BY <1>1, <2>1, TaskStep
<1>3. Owned'
  <2>1. task \in Turns \cup {None}
    BY DEF TypeOK
  <2>2. \A u \in Turns : pc'[u] \in Live <=> pc[u] \in Live
    BY <1>1 DEF Live
  <2>. QED
    BY <1>1, <2>1, <2>2 DEF Owned
<1>4. AbortsOnce'
  <2>1. \A u \in Turns : pc'[u] \in Live <=> pc[u] \in Live
    BY <1>1 DEF Live
  <2>2. \A u \in Turns : (pc'[u] \in {"over", "finishing", "checked"}) => pc'[u] = pc[u]
    BY <1>1
  <2>3. \A u \in Turns : (pc[u] \in {"over", "finishing", "checked"}) => pc'[u] = pc[u]
    BY <1>1
  <2>4. \A p \in Processes : job[p].at = "waiting" => job[p].task \in Turns
    BY DEF JobsHold, Holds
  <2>. QED
    BY <1>1, <2>1, <2>2, <2>3, <2>4 DEF AbortsOnce
<1>5. Answerable' /\ SendersHeld'
  <2>1. CASE Answer(t)
    <3>1. pc'[t] = "running"
      BY <2>1 DEF Answer, TypeOK
    <3>. QED
      BY <1>1, <3>1 DEF Answerable, SendersHeld
  <2>2. CASE Ask(t)
    <3>1. ~cancelled[t] /\ sender'[t] = slot /\ slot # None
      BY <2>2, OwnTask DEF Ask, TypeOK, Live
    <3>. QED
      BY <1>1, <3>1 DEF Answerable, SendersHeld
  <2>. QED
    BY <2>1, <2>2
<1>. QED
  BY <1>2, <1>3, <1>4, <1>5

LEMMA RunTasks ==
  ASSUME TypeInv, TaskInv, NEW t \in Turns, RunEnds(t) \/ Late(t)
  PROVE  TaskInv'
<1>. USE DEF TypeInv, TaskInv
<1>1. /\ pc[t] \in Live /\ pc'[t] \in {"checked", "over"}
      /\ pc'[t] = "checked" => ~cancelled[t]
      /\ pc'[t] = "over" => cancelled[t]
      /\ \A u \in Turns : u # t => pc'[u] = pc[u] /\ sender'[u] = sender[u]
      /\ UNCHANGED <<slot, task, turns, job, cancelled, ended>>
  <2>1. CASE RunEnds(t)
    BY <2>1 DEF RunEnds, Live, TypeOK
  <2>2. CASE Late(t)
    <3>1. cancelled[t]
      BY <2>2, OwnTask, Basics DEF Late, Live
    <3>. QED
      BY <2>2, <3>1 DEF Late, Live, TypeOK
  <2>. QED
    BY <2>1, <2>2
<1>2. TurnsFresh' /\ StatesApart'
  <2>1. pc[t] # "none" /\ pc'[t] # "none"
    BY <1>1 DEF Live
  <2>. QED
    BY <1>1, <2>1, TaskStep
<1>3. Owned'
  <2>1. task \in Turns \cup {None}
    BY DEF TypeOK
  <2>2. \A u \in Turns : /\ pc'[u] \in Live => pc[u] \in Live
                         /\ pc[u] \in Live /\ ~cancelled[u] => pc'[u] \in Live
    BY <1>1 DEF Live
  <2>. QED
    BY <1>1, <2>1, <2>2 DEF Owned
<1>4. AbortsOnce'
  <2>1. \A u \in Turns : pc'[u] \in Live => pc[u] \in Live
    BY <1>1
  <2>2. \A u \in Turns : pc'[u] = "finishing" => pc[u] = "finishing"
    BY <1>1
  <2>3. \A u \in Turns : pc[u] \in Live \cup {"over"} => pc'[u] \in Live \cup {"over"}
    BY <1>1 DEF Live
  <2>4. \A p \in Processes : job[p].at = "waiting" => job[p].task \in Turns
    BY DEF JobsHold, Holds
  <2>5. \A u \in Turns : pc'[u] = "checked" /\ cancelled[u] => pc[u] = "checked"
    BY <1>1
  <2>. QED
    BY <1>1, <2>1, <2>2, <2>3, <2>4, <2>5 DEF AbortsOnce
<1>5. Answerable' /\ SendersHeld'
  BY <1>1 DEF Answerable, SendersHeld
<1>. QED
  BY <1>2, <1>3, <1>4, <1>5

\* A task that finishes takes itself out of the slot: one that is cancelled
\* finds none there.
LEMMA FinishTasks ==
  ASSUME TypeInv, TaskInv, NEW t \in Turns, Finish(t)
  PROVE  TaskInv' /\ task = t
<1>. USE DEF TypeInv, TaskInv
<1>1. /\ pc[t] = "checked" /\ pc'[t] = "finishing" /\ task # None /\ task' = None
      /\ \A u \in Turns : u # t => pc'[u] = pc[u]
      /\ UNCHANGED <<slot, turns, job, cancelled, sender, ended>>
  BY DEF Finish, TypeOK
<1>2. ~cancelled[t] /\ task = t /\ ended[t] = 0
  BY <1>1, OwnTask DEF AbortsOnce, Live
<1>3. TurnsFresh' /\ StatesApart'
  BY <1>1, TaskStep
<1>4. Owned'
  BY <1>1, <1>2 DEF Owned, Live
<1>5. AbortsOnce'
  <2>1. \A p \in Processes : job[p].at = "waiting" => job[p].task \in Turns /\ job[p].task # t
    BY <1>2 DEF JobsHold, Holds, AbortsOnce
  <2>. QED
    BY <1>1, <1>2, <2>1 DEF AbortsOnce
<1>6. Answerable' /\ SendersHeld'
  BY <1>1 DEF Answerable, SendersHeld
<1>. QED
  BY <1>2, <1>3, <1>4, <1>5, <1>6

LEMMA LeaveTasks ==
  ASSUME TypeInv, TaskInv, NEW t \in Turns, Complete(t) \/ Leave(t)
  PROVE  TaskInv'
<1>. USE DEF TypeInv, TaskInv
<1>1. /\ pc[t] \in {"finishing", "completed"} /\ pc'[t] \in {"completed", "over"}
      /\ ended'[t] \in {0, 1} /\ task' = task
      /\ slot' = slot \/ (slot' = None /\ task = None)
      /\ \A u \in Turns : u # t => pc'[u] = pc[u] /\ ended'[u] = ended[u]
      /\ UNCHANGED <<turns, job, cancelled, sender>>
  BY DEF Complete, Leave, Reserved, AbortsOnce, TypeOK
<1>2. TurnsFresh' /\ StatesApart'
  <2>1. pc[t] # "none" /\ pc'[t] # "none"
    BY <1>1
  <2>. QED
    BY <1>1, <2>1, TaskStep
<1>3. Owned'
  <2>1. task \in Turns \cup {None}
    BY DEF TypeOK
  <2>2. \A u \in Turns : pc'[u] \in Live <=> pc[u] \in Live
    BY <1>1 DEF Live
  <2>. QED
    BY <1>1, <2>1, <2>2 DEF Owned
<1>4. AbortsOnce'
  <2>1. \A p \in Processes : job[p].at = "waiting" => job[p].task \in Turns /\ job[p].task # t
    BY <1>1 DEF JobsHold, Holds, AbortsOnce, Live
  <2>. QED
    BY <1>1, <2>1 DEF AbortsOnce, Live
<1>5. Answerable' /\ SendersHeld'
  <2>1. \A u \in Turns : pc'[u] = "asking" => u # t /\ pc[u] = "asking"
    BY <1>1
  <2>2. \A u \in Turns : pc[u] = "asking" /\ ~cancelled[u] => task # None
    BY Basics DEF Owned, Live
  <2>. QED
    BY <1>1, <2>1, <2>2 DEF Answerable, SendersHeld
<1>. QED
  BY <1>2, <1>3, <1>4, <1>5

\* Mail is no part of the invariant.
LEMMA StillTasks ==
  ASSUME TaskInv, UNCHANGED <<slot, task, turns, job, tasks>>
  PROVE  TaskInv'
BY DEF TaskInv, TurnsFresh, AbortsOnce, Owned, StatesApart, Held, InUse, Answerable,
       SendersHeld, tasks

\* The aborted task stops and gets its event, the only one.
LEMMA EndAbortTasks ==
  ASSUME TypeInv, TaskInv, NEW p \in Processes, EndAbort(p)
  PROVE  TaskInv'
<1>. DEFINE t == job[p].task
            k == [job[p] EXCEPT !.at = "aborted", !.task = None]
<1>. USE DEF TypeInv, TaskInv
<1>0. /\ t \in Turns /\ cancelled[t] /\ ended[t] = 0 /\ pc[t] \in Live \cup {"over"}
      /\ job[p].at = "waiting" /\ job[p].state \in States
  BY DEF EndAbort, JobsHold, Holds, AbortsOnce
<1>1. /\ \A q \in Processes : q # p => job'[q] = job[q]
      /\ job'[p].at = "aborted" /\ job'[p].state = job[p].state /\ job'[p].turn = job[p].turn
  <2>1. \A q \in Processes : job'[q] = IF q = p THEN k ELSE job[q]
    BY JobAt DEF EndAbort, TypeOK
  <2>2. k.at = "aborted" /\ k.state = job[p].state /\ k.turn = job[p].turn
    BY DEF TypeOK, Jobs
  <2>. QED
    BY <2>1, <2>2
<1>2. /\ pc'[t] = "over" /\ ended'[t] = 1
      /\ \A u \in Turns : u # t => pc'[u] = pc[u] /\ ended'[u] = ended[u] /\ sender'[u] = sender[u]
      /\ UNCHANGED <<slot, task, turns, cancelled>>
  BY <1>0 DEF EndAbort, Stopped, TypeOK
<1>3. TurnsFresh'
  <2>1. \A u \in Turns : (pc'[u] = "none") <=> (pc[u] = "none")
    BY <1>0, <1>2 DEF Live
  <2>2. \A q \in Processes : job'[q].turn = job[q].turn /\ job[q].turn \in Turns \cup {None}
    BY <1>1 DEF TypeOK, Jobs
  <2>3. \A u \in Turns : pc'[u] = "none" => u # t
    BY <1>2
  <2>. QED
    BY <1>2, <2>1, <2>2, <2>3 DEF TurnsFresh
<1>4. AbortsOnce' /\ Owned'
  <2>1. \A q \in Processes :
          job'[q].at = "waiting" => q # p /\ job[q].at = "waiting" /\ job[q].task \in Turns
                                    /\ job[q].task # t
    BY <1>0, <1>1 DEF AbortsOnce, JobsHold, Holds
  <2>2. \A u \in Turns : pc'[u] \in Live \cup {"finishing"} => u # t
    BY <1>2 DEF Live
  <2>3. AbortsOnce'
    BY <1>1, <1>2, <2>1, <2>2 DEF AbortsOnce
  <2>4. task # t /\ task \in Turns \cup {None}
    BY <1>0, Basics DEF Owned, TypeOK
  <2>. QED
    BY <1>2, <2>2, <2>3, <2>4 DEF Owned
<1>5. StatesApart'
  <2>1. \A q \in Processes :
          /\ Held(q)' <=> Held(q)
          /\ job'[q].state = job[q].state /\ job'[q].turn = job[q].turn
    BY <1>0, <1>1 DEF Held
  <2>2. \A s : InUse(s)' <=> InUse(s)
    BY <1>2, <2>1 DEF InUse
  <2>3. \A u \in Turns : pc'[u] = "none" => pc[u] = "none"
    BY <1>2
  <2>4. \A q \in Processes : job[q].at = "setting" => job'[q].at = "setting"
    BY <1>0, <1>1
  <2>. QED
    BY <1>2, <2>1, <2>2, <2>3, <2>4 DEF StatesApart
<1>6. Answerable' /\ SendersHeld'
  <2>1. \A u \in Turns : pc'[u] = "asking" => u # t /\ pc[u] = "asking"
    BY <1>2
  <2>. QED
    BY <1>1, <1>2, <2>1 DEF Answerable, SendersHeld
<1>. QED
  BY <1>3, <1>4, <1>5, <1>6

\* An empty slot gets a state that no other holds.
LEMMA PrepareTasks ==
  ASSUME TypeInv, TaskInv, NEW p \in Processes, Prepare(p)
  PROVE  TaskInv'
<1>. DEFINE k == [job[p] EXCEPT !.at = "setting", !.state = None]
            u == job[p].turn
            s == <<u, "prepare">>
<1>. USE DEF TypeInv, TaskInv
<1>0. u \in Turns /\ u # None /\ job[p].at = "starting" /\ s \in States
  BY Basics DEF Prepare, JobsHold, Holds
<1>1. /\ \A q \in Processes : q # p => job'[q] = job[q]
      /\ job'[p].at = "setting" /\ job'[p].turn = u
  <2>1. \A q \in Processes : job'[q] = IF q = p THEN k ELSE job[q]
    BY JobAt DEF Prepare, TypeOK
  <2>2. k.at = "setting" /\ k.turn = u
    BY DEF TypeOK, Jobs
  <2>. QED
    BY <2>1, <2>2
<1>2. slot' = (IF slot = None THEN s ELSE slot) /\ UNCHANGED <<task, turns, tasks>>
  BY DEF Prepare, Filled
<1>3. TurnsFresh'
  <2>1. \A q \in Processes : job'[q].turn = job[q].turn
    BY <1>1
  <2>. QED
    BY <1>2, <2>1 DEF TurnsFresh, tasks
<1>4. AbortsOnce' /\ Owned'
  <2>1. \A q \in Processes : job'[q].at = "waiting" => job'[q] = job[q]
    BY <1>1
  <2>. QED
    BY <1>2, <2>1 DEF AbortsOnce, Owned, tasks
<1>5. StatesApart'
  <2>1. \A q \in Processes : (Held(q)' <=> Held(q)) /\ (Held(q) => job'[q] = job[q])
    BY <1>0, <1>1 DEF Held
  <2>2. ~InUse(s)
    BY <1>0 DEF StatesApart
  <2>3. \A r \in States : InUse(r)' => InUse(r) \/ r = s
    BY <1>2, <2>1 DEF InUse
  <2>4. \A q \in Processes : Held(q)' => job'[q].state # slot'
    BY <1>2, <2>1, <2>2 DEF StatesApart, InUse
  <2>5. u <= turns
    BY <1>0 DEF TurnsFresh
  <2>6. \A v \in Turns, m \in {"reserve", "prepare", "set"} : InUse(<<v, m>>)' => v <= turns
    BY <2>3, <2>5, Basics DEF StatesApart
  <2>7. \A v \in Turns, q \in Processes :
          InUse(<<v, "prepare">>)' /\ job'[q].turn = v => job'[q].at = "setting"
    <3>1. \A v \in Turns : InUse(<<v, "prepare">>)' => InUse(<<v, "prepare">>) \/ v = u
      BY <2>3, Basics
    <3>2. \A q \in Processes : job'[q].turn = u => q = p
      BY <1>0, <1>1 DEF TurnsFresh
    <3>. QED
      BY <1>1, <3>1, <3>2 DEF StatesApart
  <2>8. \A v \in Turns : InUse(<<v, "set">>)' => InUse(<<v, "set">>)
    BY <2>3, Basics
  <2>9. \A q, r \in Processes : q # r /\ Held(q)' /\ Held(r)' => job'[q].state # job'[r].state
    BY <2>1 DEF StatesApart
  <2>10. turns' = turns /\ pc' = pc
    BY <1>2 DEF tasks
  <2>. QED
    BY <2>4, <2>6, <2>7, <2>8, <2>9, <2>10 DEF StatesApart
<1>6. Answerable' /\ SendersHeld'
  <2>1. \A q \in Processes : job[q].at = "waiting" => job'[q] = job[q]
    BY <1>0, <1>1
  <2>. QED
    BY <1>2, <2>1 DEF Answerable, SendersHeld, tasks
<1>. QED
  BY <1>3, <1>4, <1>5, <1>6

\* The task of a new turn takes the slot; one that is there is stopped.
LEMMA SetTasks ==
  ASSUME TypeInv, TaskInv, Prompt, NEW p \in Processes, SetTask(p)
  PROVE  TaskInv'
<1>. DEFINE u == job[p].turn
            s == <<u, "set">>
<1>. USE DEF TypeInv, TaskInv
<1>0. /\ u \in Turns /\ u # None /\ job[p].at = "setting" /\ s \in States
      /\ pc[u] = "none" /\ ~cancelled[u] /\ ended[u] = 0 /\ task # u
      /\ \A t \in Turns : pc[t] # "checked"
  BY Basics DEF SetTask, JobsHold, Holds, TurnsFresh, Owned, Live
<1>1. /\ \A q \in Processes : q # p => job'[q] = job[q]
      /\ job'[p].at = "free" /\ job'[p].turn = None
  BY JobAt DEF SetTask, TypeOK, Free
<1>2. /\ slot' = (IF slot = None THEN s ELSE slot) /\ slot' # None /\ task' = u
      /\ UNCHANGED <<turns, cancelled, ended>>
  BY <1>0, Basics DEF SetTask, Filled
<1>3. /\ pc'[u] = "running"
      /\ \A t \in Turns : t # u /\ t # task => pc'[t] = pc[t] /\ sender'[t] = sender[t]
      /\ \A t \in Turns : t = task => pc'[t] = "over" /\ pc[t] \in Live
  <2>1. \A t \in Turns : t = task => pc[t] \in Live
    BY Basics DEF Owned
  <2>. QED
    BY <1>0, <2>1 DEF SetTask, Stopped
<1>4. TurnsFresh'
  <2>1. \A q \in Processes : job'[q].turn # None => q # p /\ job'[q].turn = job[q].turn /\ job[q].turn # u
    BY <1>0, <1>1 DEF TurnsFresh
  <2>2. \A t \in Turns : pc'[t] = "none" => pc[t] = "none"
    BY <1>3
  <2>3. \A t \in Turns : pc[t] = "none" /\ t # u => pc'[t] = "none"
    BY <1>3 DEF Live
  <2>4. \A q \in Processes : job[q].turn \in Turns \cup {None}
    BY DEF TypeOK, Jobs
  <2>5. u <= turns /\ turns \in Nat /\ u \in Nat
    BY <1>0, Basics DEF TurnsFresh, TypeOK
  <2>6. \A q \in Processes :
          job'[q].turn # None => job'[q].turn <= turns /\ pc'[job'[q].turn] = "none"
    BY <2>1, <2>3, <2>4 DEF TurnsFresh
  <2>7. \A q, r \in Processes : q # r /\ job'[q].turn # None => job'[q].turn # job'[r].turn
    BY <1>1, <2>1 DEF TurnsFresh
  <2>8. \A t \in Turns : t > turns => pc'[t] = "none"
    BY <2>3, <2>5, Basics DEF TurnsFresh
  <2>. QED
    BY <1>2, <2>2, <2>6, <2>7, <2>8 DEF TurnsFresh
<1>5. AbortsOnce'
  <2>1. \A q \in Processes : job'[q].at = "waiting" =>
          /\ job'[q] = job[q] /\ job[q].task \in Turns /\ job[q].task # u /\ job[q].task # task
    <3>1. \A q \in Processes : job'[q].at = "waiting" => job'[q] = job[q]
      BY <1>1
    <3>2. \A q \in Processes : job[q].at = "waiting" =>
            job[q].task \in Turns /\ cancelled[job[q].task]
      BY DEF JobsHold, Holds, AbortsOnce
    <3>. QED
      BY <1>0, <3>1, <3>2, Basics DEF Owned
  <2>2. \A q \in Processes : job'[q].at = "waiting" =>
          /\ cancelled'[job'[q].task] /\ ended'[job'[q].task] = 0
          /\ pc'[job'[q].task] \in Live \cup {"over"}
    BY <1>2, <1>3, <2>1 DEF AbortsOnce
  <2>3. \A q, r \in Processes :
          q # r /\ job'[q].at = "waiting" /\ job'[r].at = "waiting" => job'[q].task # job'[r].task
    BY <2>1 DEF AbortsOnce
  <2>4. \A t \in Turns : pc'[t] \in Live \cup {"finishing"} => ended'[t] = 0
    BY <1>0, <1>2, <1>3 DEF AbortsOnce, Live
  <2>5. \A t \in Turns : pc'[t] # "checked"
    BY <1>0, <1>3
  <2>. QED
    BY <1>2, <2>2, <2>3, <2>4, <2>5 DEF AbortsOnce
<1>6. Owned'
  <2>1. \A t \in Turns : pc'[t] \in Live /\ ~cancelled[t] => t = u
    BY <1>0, <1>3 DEF Owned, Live
  <2>. QED
    BY <1>0, <1>2, <1>3, <2>1 DEF Owned, Live
<1>7. StatesApart'
  <2>1. \A q \in Processes : (Held(q)' <=> Held(q)) /\ (Held(q) => job'[q] = job[q])
    BY <1>0, <1>1 DEF Held
  <2>2. ~InUse(s)
    BY <1>0 DEF StatesApart
  <2>3. \A r \in States : InUse(r)' => InUse(r) \/ r = s
    BY <1>2, <2>1 DEF InUse
  <2>4. \A q \in Processes : Held(q)' => job'[q].state # slot'
    BY <1>2, <2>1, <2>2 DEF StatesApart, InUse
  <2>5. u <= turns
    BY <1>0 DEF TurnsFresh
  <2>6. \A v \in Turns, m \in {"reserve", "prepare", "set"} : InUse(<<v, m>>)' => v <= turns
    BY <2>3, <2>5, Basics DEF StatesApart
  <2>7. \A v \in Turns, q \in Processes :
          InUse(<<v, "prepare">>)' /\ job'[q].turn = v => job'[q].at = "setting"
    <3>1. \A v \in Turns : InUse(<<v, "prepare">>)' => InUse(<<v, "prepare">>)
      BY <2>3, Basics
    <3>2. \A q \in Processes, v \in Turns : job'[q].turn = v => q # p /\ job'[q] = job[q]
      BY <1>1, Basics
    <3>. QED
      BY <3>1, <3>2 DEF StatesApart
  <2>8. \A v \in Turns : InUse(<<v, "set">>)' => pc'[v] # "none"
    <3>1. \A v \in Turns : InUse(<<v, "set">>)' => InUse(<<v, "set">>) \/ v = u
      BY <2>3, Basics
    <3>. QED
      BY <1>3, <3>1 DEF StatesApart
  <2>9. \A q, r \in Processes : q # r /\ Held(q)' /\ Held(r)' => job'[q].state # job'[r].state
    BY <2>1 DEF StatesApart
  <2>. QED
    BY <1>2, <2>4, <2>6, <2>7, <2>8, <2>9 DEF StatesApart
<1>8. Answerable' /\ SendersHeld'
  <2>1. \A t \in Turns : pc'[t] = "asking" => t # u /\ t # task /\ pc[t] = "asking"
    BY <1>3
  <2>2. \A t \in Turns : pc'[t] = "asking" => cancelled[t] /\ sender'[t] = sender[t]
    BY <1>3, <2>1 DEF Owned, Live
  <2>3. \A q \in Processes : job[q].at = "waiting" => job'[q] = job[q]
    BY <1>0, <1>1
  <2>. QED
    BY <1>2, <2>1, <2>2, <2>3 DEF Answerable, SendersHeld
<1>. QED
  BY <1>4, <1>5, <1>6, <1>7, <1>8

LEMMA TaskInvStep == Prompt /\ TypeInv /\ TaskInv /\ [Next]_vars => TaskInv'
<1>. SUFFICES ASSUME Prompt, TypeInv, TaskInv, [Next]_vars
              PROVE  TaskInv'
  OBVIOUS
<1>1. CASE UNCHANGED vars
  BY <1>1, StillTasks DEF vars
<1>2. CASE Submit \/ TryIdle
  BY <1>2, NewTurns, Basics
<1>3. CASE Interrupt \/ SendMail \/ OfIdle
  BY <1>3, MovesTasks, Basics DEF OfIdle
<1>4. CASE Intervene
  BY <1>4, CancelTasks, Basics DEF Intervene
<1>5. ASSUME NEW p \in Processes, OfProcess(p)
      PROVE  TaskInv'
  <2>1. CASE TakeActive(p) /\ task # None
    BY <2>1, CancelTasks DEF TakeActive
  <2>2. CASE (TakeActive(p) /\ task = None) \/ ClearPending(p) \/ CheckMail(p) \/ DoNotReserve(p)
    BY <2>2, MovesTasks
  <2>3. CASE EndAbort(p) \/ Prepare(p) \/ SetTask(p)
    BY <2>3, EndAbortTasks, PrepareTasks, SetTasks
  <2>4. CASE Reserve(p)
    BY <2>4, NewTurns
  <2>. QED
    BY <1>5, <2>1, <2>2, <2>3, <2>4 DEF OfProcess
<1>6. ASSUME NEW t \in Turns, Answer(t) \/ Ask(t) \/ RunEnds(t) \/ OfFinished(t)
      PROVE  TaskInv'
  BY <1>6, AskTasks, RunTasks, FinishTasks, LeaveTasks DEF OfFinished
<1>7. ASSUME NEW t \in Turns, Drain(t)
      PROVE  TaskInv'
  BY <1>7, StillTasks DEF Drain
<1>. QED
  BY <1>1, <1>2, <1>3, <1>4, <1>5, <1>6, <1>7 DEF Next

\* A step tells a task its verdict only if it is an answer of the client.
LEMMA VerdictStep ==
  ASSUME TypeInv, TaskInv, [Next]_vars, NEW t \in Turns, pc[t] = "asking", pc'[t] = "running"
  PROVE  ~cancelled[t] /\ sender[t] = slot /\ slot' = slot
<1>1. CASE UNCHANGED <<slot, task, mail, turns, pc>>
  BY <1>1
<1>2. pc' # pc
  OBVIOUS
<1>3. ~(Submit \/ Interrupt \/ SendMail \/ Intervene \/ TryIdle \/ OfIdle)
  BY <1>2 DEF Submit, Interrupt, SendMail, Intervene, TryIdle, ReserveFor, OfIdle, GiveUp,
              Confirm, tasks
<1>4. ASSUME NEW p \in Processes
      PROVE  ~OfProcess(p)
  <2>1. ~(TakeActive(p) \/ CheckMail(p) \/ Reserve(p) \/ DoNotReserve(p) \/ Prepare(p))
    BY <1>2 DEF TakeActive, CheckMail, Reserve, ReserveFor, DoNotReserve, Prepare, tasks
  <2>2. ~ClearPending(p)
    BY <1>2, NobodyTold
  <2>3. ~EndAbort(p)
    <3>1. TypeOK
      BY DEF TypeInv
    <3>. QED
      BY <3>1 DEF EndAbort, Stopped, Live, TypeOK
  <2>4. ~SetTask(p)
    <3>1. \A q \in Processes : job[q].turn # None => pc[job[q].turn] = "none"
      BY DEF TaskInv, TurnsFresh
    <3>2. job[p].at = "setting" => job[p].turn # t
      BY <3>1, Basics
    <3>. QED
      BY <3>2 DEF SetTask, Stopped, Live
  <2>. QED
    BY <2>1, <2>2, <2>3, <2>4 DEF OfProcess
<1>5. ASSUME NEW u \in Turns
      PROVE  ~(Ask(u) \/ Drain(u) \/ RunEnds(u) \/ OfFinished(u))
  BY DEF TypeInv, TypeOK, Ask, Drain, RunEnds, OfFinished, Finish, Late, Complete, Leave, tasks
<1>6. ASSUME NEW u \in Turns, Answer(u)
      PROVE  ~cancelled[t] /\ sender[t] = slot /\ slot' = slot
  <2>1. u = t /\ sender[t] = slot /\ slot # None /\ slot' = slot
    BY <1>6 DEF Answer, TypeInv, TypeOK
  <2>2. ~cancelled[t]
    <3>. SUFFICES ASSUME cancelled[t]
                  PROVE  FALSE
      OBVIOUS
    <3>1. PICK p \in Processes : job[p].at = "waiting" /\ job[p].state = sender[t]
      BY DEF TaskInv, SendersHeld
    <3>. QED
      BY <2>1, <3>1 DEF TaskInv, StatesApart, Held
  <2>. QED
    BY <2>1, <2>2
<1>. QED
  BY <1>2, <1>3, <1>4, <1>5, <1>6 DEF Next, vars, tasks

\* If a task that has checked its token is quicker than a start, a live task
\* that is not cancelled always has the slot, its approval can be answered,
\* and no turn gets two terminal events or one too early.
THEOREM LiveTaskIsOwned ==
  ASSUME Prompt
  PROVE  Spec => [](Owned /\ EndsOnce /\ Answerable)
<1>1. TypeInv /\ TaskInv => Owned /\ EndsOnce /\ Answerable
  BY DEF TypeInv, TypeOK, TaskInv, EndsOnce, AbortsOnce
<1>2. TypeInv /\ TaskInv /\ [Next]_vars => TaskInv'
  BY TaskInvStep
<1>. QED
  BY <1>1, <1>2, InitType, TypeStep, InitTasks, PTL DEF Spec

\* In particular a turn gets one terminal event, when its task is gone.
THEOREM TurnEndsOnce ==
  ASSUME Prompt
  PROVE  Spec => []EndsOnce
BY LiveTaskIsOwned, PTL

\* And what a live task waits for can be answered.
THEOREM ApprovalAnswerable ==
  ASSUME Prompt
  PROVE  Spec => []Answerable
BY LiveTaskIsOwned, PTL

\* Under the same assumption no abort makes up a verdict.
THEOREM VerdictsAreGiven ==
  ASSUME Prompt
  PROVE  Spec => NoMadeUpVerdict
<1>1. TypeInv /\ TaskInv /\ [Next]_vars =>
        [\A t \in Turns : pc[t] = "asking" /\ pc'[t] = "running" =>
           ~cancelled[t] /\ sender[t] = slot /\ slot' = slot]_vars
  BY VerdictStep
<1>2. TypeInv /\ TaskInv /\ [Next]_vars => TaskInv'
  BY TaskInvStep
<1>. QED
  BY <1>1, <1>2, InitType, TypeStep, InitTasks, PTL DEF Spec, NoMadeUpVerdict

-----------------------------------------------------------------------------
(* An abort is not forgotten                                               *)

\* Who cancelled a task still waits for it, or has sent its event.
AbortOwed ==
  \A t \in Turns : cancelled[t] =>
    ended[t] > 0 \/ \E p \in Processes : job[p].at = "waiting" /\ job[p].task = t

LEMMA OwedKept ==
  ASSUME AbortOwed, cancelled' = cancelled,
         \A t \in Turns : ended[t] > 0 => ended'[t] > 0,
         \A p \in Processes : job[p].at = "waiting" => job'[p] = job[p]
  PROVE  AbortOwed'
BY DEF AbortOwed

LEMMA OwedCancel ==
  ASSUME TypeInv, AbortOwed, NEW p \in Processes, Cancel(p), job[p].at # "waiting",
         ended' = ended
  PROVE  AbortOwed'
<1>1. /\ job'[p].at = "waiting" /\ job'[p].task = task
      /\ \A q \in Processes : q # p => job'[q] = job[q]
  BY JobAt DEF Cancel, TypeInv, TypeOK, Jobs
<1>2. \A t \in Turns : cancelled'[t] => t = task \/ cancelled[t]
  BY DEF Cancel, TypeInv, TypeOK
<1>3. \A q \in Processes : job[q].at = "waiting" => q # p
  OBVIOUS
<1>. QED
  BY <1>1, <1>2, <1>3 DEF AbortOwed

LEMMA OwedEnd ==
  ASSUME TypeInv, AbortOwed, NEW p \in Processes, EndAbort(p)
  PROVE  AbortOwed'
<1>1. /\ job[p].at = "waiting" /\ job[p].task \in Turns /\ cancelled' = cancelled
      /\ ended' = [ended EXCEPT ![job[p].task] = @ + 1]
  BY DEF EndAbort, TypeInv, JobsHold, Holds
<1>2. \A q \in Processes : q # p => job'[q] = job[q]
  BY JobAt DEF EndAbort, TypeInv, TypeOK
<1>3. ended'[job[p].task] > 0 /\ \A t \in Turns : ended[t] > 0 => ended'[t] > 0
  BY <1>1 DEF TypeInv, TypeOK
<1>. QED
  BY <1>1, <1>2, <1>3 DEF AbortOwed

LEMMA StepOwed == TypeInv /\ AbortOwed /\ [Next]_vars => AbortOwed'
<1>. SUFFICES ASSUME TypeInv, AbortOwed, [Next]_vars
              PROVE  AbortOwed'
  OBVIOUS
<1>0. job \in [Processes -> Jobs]
  BY DEF TypeInv, TypeOK
<1>1. CASE UNCHANGED vars
  BY <1>1, OwedKept DEF vars, tasks
<1>2. CASE Submit \/ Interrupt \/ SendMail \/ TryIdle \/ OfIdle
  <2>1. UNCHANGED <<cancelled, ended>>
    BY <1>2 DEF Submit, Interrupt, SendMail, TryIdle, ReserveFor, OfIdle, GiveUp, Confirm, tasks
  <2>2. \A q \in Processes : job[q].at = "waiting" => job'[q] = job[q]
    BY <1>0, <1>2, JobAt, Basics
       DEF Submit, Interrupt, SendMail, TryIdle, ReserveFor, OfIdle, GiveUp, Confirm
  <2>. QED
    BY <2>1, <2>2, OwedKept
<1>3. CASE Intervene
  BY <1>3, OwedCancel, Basics DEF Intervene
<1>4. ASSUME NEW p \in Processes, OfProcess(p)
      PROVE  AbortOwed'
  <2>1. CASE TakeActive(p) /\ task # None
    BY <2>1, OwedCancel DEF TakeActive
  <2>2. CASE EndAbort(p)
    BY <2>2, OwedEnd
  <2>3. CASE \/ TakeActive(p) /\ task = None
             \/ ClearPending(p) \/ CheckMail(p) \/ Reserve(p) \/ DoNotReserve(p)
             \/ Prepare(p) \/ SetTask(p)
    <3>1. UNCHANGED <<cancelled, ended>> /\ job[p].at # "waiting"
      BY <2>3 DEF TakeActive, ClearPending, CheckMail, Reserve, ReserveFor, DoNotReserve,
                  Prepare, SetTask, tasks
    <3>2. \A q \in Processes : q # p => job'[q] = job[q]
      BY <1>0, <2>3, JobAt DEF TakeActive, ClearPending, CheckMail, Reserve, ReserveFor,
                  DoNotReserve, Prepare, SetTask
    <3>3. \A q \in Processes : job[q].at = "waiting" => job'[q] = job[q]
      BY <3>1, <3>2
    <3>. QED
      BY <3>1, <3>3, OwedKept
  <2>. QED
    BY <1>4, <2>1, <2>2, <2>3 DEF OfProcess
<1>5. ASSUME NEW t \in Turns, Answer(t) \/ Ask(t) \/ Drain(t) \/ RunEnds(t) \/ OfFinished(t)
      PROVE  AbortOwed'
  <2>1. UNCHANGED <<job, cancelled>>
    BY <1>5 DEF Answer, Ask, Drain, RunEnds, OfFinished, Finish, Late, Complete, Leave, tasks
  <2>2. \A u \in Turns : ended[u] > 0 => ended'[u] > 0
    BY <1>5 DEF Answer, Ask, Drain, RunEnds, OfFinished, Finish, Late, Complete, Leave, tasks,
                TypeInv, TypeOK
  <2>. QED
    BY <2>1, <2>2, OwedKept
<1>. QED
  BY <1>1, <1>2, <1>3, <1>4, <1>5 DEF Next

\* The safety half of AbortEnds, with or without Prompt: while the event of an
\* aborted turn is to come, handle_task_abort is still there to send it.
THEOREM AbortIsOwed == Spec => []AbortOwed
<1>1. Init => AbortOwed
  BY DEF Init, AbortOwed
<1>. QED
  BY <1>1, StepOwed, InitType, TypeStep, PTL DEF Spec

-----------------------------------------------------------------------------
(* One turn at a time                                                      *)

\* A task that took itself out of the slot was not aborted, and its event is
\* sent before it looks at the slot again.
FinishedOnce ==
  \A t \in Turns :
    /\ pc[t] \in {"finishing", "completed"} => ~cancelled[t]
    /\ pc[t] = "completed" => ended[t] > 0

\* What a stage says of the variables.
LEMMA Staged ==
  ASSUME TypeInv, TaskInv, NEW t \in Turns
  PROVE  /\ pc[t] = "none" => Stage(t) = "new"
         /\ pc[t] # "none" /\ task = t =>
              Stage(t) = IF pc[t] = "asking" THEN "asking" ELSE "running"
         /\ pc[t] # "none" /\ task # t /\ cancelled[t] => Stage(t) = "aborted"
         /\ pc[t] # "none" /\ task # t /\ ~cancelled[t] =>
              Stage(t) = IF pc[t] = "finishing" \/ ended[t] > 0 THEN "finished" ELSE "dropped"
BY DEF Stage

LEMMA SameStage ==
  ASSUME NEW t \in Turns, pc'[t] = pc[t], task' = t <=> task = t,
         cancelled'[t] = cancelled[t], ended'[t] = ended[t]
  PROVE  Stage(t)' = Stage(t)
BY DEF Stage

\* One turn moves.
LEMMA ToStage ==
  ASSUME NEW t \in Turns, NEW w, Stage(t)' = w, ended' = ended,
         \A s \in Turns : s # t => Stage(s)' = Stage(s)
  PROVE  Lifecycle!To(t, w)
BY DEF Lifecycle!To

LEMMA NoMove ==
  ASSUME ended' = ended, \A t \in Turns : Stage(t)' = Stage(t)
  PROVE  UNCHANGED Lifecycle!lifecycleVars
BY DEF Lifecycle!lifecycleVars

LEMMA StillStages ==
  ASSUME UNCHANGED <<pc, task, cancelled, ended>>
  PROVE  UNCHANGED Lifecycle!lifecycleVars
BY SameStage, NoMove

\* The slot is emptied: its turn is aborted.
LEMMA CancelAborts ==
  ASSUME TypeInv, TaskInv, NEW p \in Processes, Cancel(p), task # None, UNCHANGED <<pc, ended>>
  PROVE  Lifecycle!LifecycleNext
<1>0. PICK t \in Turns : t = task
  BY DEF TypeInv, TypeOK
<1>1. pc[t] # "none" /\ task' # t
  BY <1>0, Basics DEF Cancel, TaskInv, Owned, Live
<1>2. \A s \in Turns : s # t => Stage(s)' = Stage(s)
  BY <1>0, Basics, SameStage DEF Cancel, TypeInv, TypeOK
<1>3. Stage(t) \in {"running", "asking"} /\ Stage(t)' = "aborted"
  <2>1. cancelled'[t] /\ pc'[t] = pc[t]
    BY <1>0 DEF Cancel, TypeInv, TypeOK
  <2>. QED
    BY <1>0, <1>1, <2>1 DEF Stage
<1>4. Lifecycle!To(t, "aborted")
  BY <1>1, <1>2, <1>3, ToStage
<1>. QED
  BY <1>1, <1>3, <1>4 DEF Lifecycle!LifecycleNext, Lifecycle!Move, Lifecycle!Abort, Lifecycle!Active

LEMMA EndAbortReports ==
  ASSUME TypeInv, TaskInv, NEW p \in Processes, EndAbort(p)
  PROVE  Lifecycle!LifecycleNext
<1>0. PICK t \in Turns : t = job[p].task
  BY DEF EndAbort, TypeInv, JobsHold, Holds
<1>1. /\ cancelled[t] /\ ended[t] = 0 /\ pc[t] \in Live \cup {"over"}
      /\ task # t
  BY <1>0, Basics DEF EndAbort, TaskInv, AbortsOnce, Owned
<1>2. /\ ended' = [ended EXCEPT ![t] = 1] /\ UNCHANGED <<task, cancelled>>
      /\ pc'[t] = "over" /\ \A s \in Turns : s # t => pc'[s] = pc[s] /\ ended'[s] = ended[s]
  BY <1>0, <1>1 DEF EndAbort, Stopped, Live, TypeInv, TypeOK
<1>3. Stage(t) = "aborted" /\ Stage(t)' = "aborted"
  BY <1>1, <1>2 DEF Stage, Live
<1>4. \A s \in Turns : Stage(s)' = Stage(s)
  BY <1>2, <1>3, SameStage
<1>. QED
  BY <1>1, <1>2, <1>3, <1>4 DEF Lifecycle!LifecycleNext, Lifecycle!Report

\* The task found in the slot is dropped for the new one.
LEMMA SetTaskBegins ==
  ASSUME TypeInv, TaskInv, NEW p \in Processes, SetTask(p)
  PROVE  Lifecycle!LifecycleNext
<1>0. PICK u \in Turns : u = job[p].turn
  BY DEF SetTask, TypeInv, JobsHold, Holds
<1>1. /\ pc[u] = "none" /\ task # u /\ ended' = ended /\ task' = u
      /\ pc'[u] = "running" /\ cancelled' = cancelled
  BY <1>0, Basics DEF SetTask, TaskInv, TurnsFresh, Owned, Live
<1>2. Stage(u) = "new" /\ Stage(u)' = "running"
  BY <1>1 DEF Stage
<1>3. ASSUME NEW s \in Turns, s # u
      PROVE  Stage(s)' = IF Stage(s) \in {"running", "asking"} THEN "dropped" ELSE Stage(s)
  <2>1. CASE s = task
    <3>1. pc[s] \in Live /\ ~cancelled[s] /\ ended[s] = 0
      BY <2>1, Basics DEF TaskInv, Owned, AbortsOnce
    <3>2. pc'[s] = "over" /\ cancelled'[s] = cancelled[s] /\ ended'[s] = ended[s]
      BY <1>0, <1>1, <1>3, <2>1, <3>1 DEF SetTask, Stopped
    <3>3. Stage(s) \in {"running", "asking"}
      BY <2>1, <3>1 DEF Stage, Live
    <3>4. Stage(s)' = "dropped"
      BY <1>1, <1>3, <3>1, <3>2 DEF Stage
    <3>. QED
      BY <3>3, <3>4
  <2>2. CASE s # task
    <3>1. pc'[s] = pc[s] /\ cancelled'[s] = cancelled[s] /\ ended'[s] = ended[s]
      BY <1>0, <1>1, <1>3, <2>2 DEF SetTask
    <3>2. Stage(s)' = Stage(s)
      BY <1>1, <1>3, <2>2, <3>1 DEF Stage
    <3>3. Stage(s) \notin {"running", "asking"}
      BY <2>2 DEF Stage
    <3>. QED
      BY <3>2, <3>3
  <2>. QED
    BY <2>1, <2>2
<1>4. Lifecycle!Begin(u)
  BY <1>1, <1>2, <1>3 DEF Lifecycle!Begin, Lifecycle!Active
<1>. QED
  BY <1>1, <1>2, <1>4 DEF Lifecycle!LifecycleNext, Lifecycle!Move

\* What the task of a turn does, or an answer to it.
LEMMA TaskMoves ==
  ASSUME TypeInv, TaskInv, FinishedOnce, [Next]_vars, NEW t \in Turns,
         Answer(t) \/ Ask(t) \/ Drain(t) \/ RunEnds(t) \/ OfFinished(t)
  PROVE  Lifecycle!LifecycleNext \/ UNCHANGED Lifecycle!lifecycleVars
<1>. USE DEF TypeInv, TypeOK, Lifecycle!LifecycleNext, Lifecycle!Move
<1>1. pc[t] \in Live /\ ~cancelled[t] => task = t
  BY DEF TaskInv, Owned
<1>2. task = t => pc[t] \in Live /\ ~cancelled[t]
  BY Basics DEF TaskInv, Owned
<1>3. CASE Drain(t)
  BY <1>3, StillStages DEF Drain, tasks
<1>4. CASE Answer(t)
  <2>1. pc[t] = "asking" /\ pc'[t] = "running" /\ UNCHANGED <<task, cancelled, ended>>
        /\ \A s \in Turns : s # t => pc'[s] = pc[s]
    BY <1>4 DEF Answer
  <2>2. ~cancelled[t] /\ task = t
    BY <1>1, <2>1, VerdictStep DEF Live
  <2>3. Stage(t) = "asking" /\ Stage(t)' = "running"
    BY <2>1, <2>2 DEF Stage
  <2>4. Lifecycle!To(t, "running")
    BY <2>1, <2>3, SameStage, ToStage
  <2>. QED
    BY <2>3, <2>4 DEF Lifecycle!Answer
<1>5. CASE Ask(t)
  <2>1. pc[t] = "running" /\ ~cancelled[t] /\ pc'[t] = "asking"
        /\ UNCHANGED <<task, cancelled, ended>>
        /\ \A s \in Turns : s # t => pc'[s] = pc[s]
    BY <1>5 DEF Ask
  <2>2. task = t
    BY <1>1, <2>1 DEF Live
  <2>3. Stage(t) = "running" /\ Stage(t)' = "asking"
    BY <2>1, <2>2 DEF Stage
  <2>4. Lifecycle!To(t, "asking")
    BY <2>1, <2>3, SameStage, ToStage
  <2>. QED
    BY <2>3, <2>4 DEF Lifecycle!Ask
<1>6. CASE RunEnds(t) \/ Late(t)
  <2>1. /\ pc[t] \in Live /\ UNCHANGED <<task, cancelled, ended>>
        /\ \A s \in Turns : s # t => pc'[s] = pc[s]
    BY <1>6 DEF RunEnds, Late, Live
  <2>2. CASE cancelled[t]
    <3>1. task # t /\ pc[t] # "none" /\ pc'[t] # "none"
      BY <1>2, <1>6, <2>1, <2>2 DEF RunEnds, Late, Live
    <3>2. Stage(t)' = Stage(t)
      BY <2>1, <2>2, <3>1 DEF Stage
    <3>. QED
      BY <2>1, <3>2, SameStage, NoMove
  <2>3. CASE ~cancelled[t]
    <3>1. task = t
      BY <1>1, <2>1, <2>3
    <3>2. RunEnds(t)
      BY <1>6, <3>1, Basics DEF Late
    <3>3. pc[t] = "running" /\ pc'[t] = "checked"
      BY <2>3, <3>2 DEF RunEnds
    <3>4. Stage(t)' = Stage(t)
      BY <2>1, <3>1, <3>3 DEF Stage
    <3>. QED
      BY <2>1, <3>4, SameStage, NoMove
  <2>. QED
    BY <2>2, <2>3
<1>7. CASE Finish(t)
  <2>1. /\ task = t /\ task' = None /\ pc[t] = "checked" /\ pc'[t] = "finishing"
        /\ UNCHANGED <<cancelled, ended>>
        /\ \A s \in Turns : s # t => pc'[s] = pc[s]
    BY <1>7, FinishTasks DEF Finish
  <2>2. \A s \in Turns : s # t => Stage(s)' = Stage(s)
    BY <2>1, Basics, SameStage
  <2>3. Stage(t) = "running" /\ Stage(t)' = "finished"
    BY <1>2, <2>1, Basics DEF Stage
  <2>4. Lifecycle!To(t, "finished")
    BY <2>1, <2>2, <2>3, ToStage
  <2>. QED
    BY <2>3, <2>4 DEF Lifecycle!Finish
<1>8. CASE Complete(t)
  <2>1. /\ pc[t] = "finishing" /\ pc'[t] = "completed" /\ ~cancelled[t] /\ ended[t] = 0
        /\ task # t /\ UNCHANGED <<task, cancelled>>
    BY <1>2, <1>8 DEF Complete, FinishedOnce, TaskInv, AbortsOnce, Live
  <2>2. /\ ended' = [ended EXCEPT ![t] = 1]
        /\ \A s \in Turns : s # t => pc'[s] = pc[s] /\ ended'[s] = ended[s]
    BY <1>8, <2>1 DEF Complete
  <2>3. Stage(t) = "finished" /\ Stage(t)' = "finished"
    BY <2>1, <2>2 DEF Stage
  <2>4. \A s \in Turns : Stage(s)' = Stage(s)
    BY <2>1, <2>2, <2>3, SameStage
  <2>. QED
    BY <2>1, <2>2, <2>3, <2>4 DEF Lifecycle!Report
<1>9. CASE Leave(t)
  <2>1. /\ pc[t] = "completed" /\ pc'[t] = "over" /\ ~cancelled[t] /\ ended[t] > 0
        /\ task # t /\ UNCHANGED <<task, cancelled, ended>>
        /\ \A s \in Turns : s # t => pc'[s] = pc[s]
    BY <1>2, <1>9 DEF Leave, Reserved, FinishedOnce, Live
  <2>2. Stage(t)' = Stage(t)
    BY <2>1 DEF Stage
  <2>. QED
    BY <2>1, <2>2, SameStage, NoMove
<1>. QED
  BY <1>3, <1>4, <1>5, <1>6, <1>7, <1>8, <1>9 DEF OfFinished

LEMMA StepLifecycle ==
  TypeInv /\ TaskInv /\ FinishedOnce /\ [Next]_vars =>
    [Lifecycle!LifecycleNext]_(Lifecycle!lifecycleVars)
<1>. SUFFICES ASSUME TypeInv, TaskInv, FinishedOnce, [Next]_vars
              PROVE  Lifecycle!LifecycleNext \/ UNCHANGED Lifecycle!lifecycleVars
  OBVIOUS
<1>1. CASE UNCHANGED vars
  BY <1>1, StillStages DEF vars, tasks
<1>2. CASE Submit \/ Interrupt \/ SendMail \/ TryIdle \/ OfIdle
  <2>1. UNCHANGED <<pc, task, cancelled, ended>>
    BY <1>2 DEF Submit, Interrupt, SendMail, TryIdle, ReserveFor, OfIdle, GiveUp, Confirm,
                Reserved, tasks
  <2>. QED
    BY <2>1, StillStages
<1>3. CASE Intervene
  BY <1>3, CancelAborts, Basics DEF Intervene
<1>4. ASSUME NEW p \in Processes, OfProcess(p)
      PROVE  Lifecycle!LifecycleNext \/ UNCHANGED Lifecycle!lifecycleVars
  <2>1. CASE TakeActive(p) /\ task # None
    BY <2>1, CancelAborts DEF TakeActive
  <2>2. CASE \/ TakeActive(p) /\ task = None
             \/ CheckMail(p) \/ Reserve(p) \/ DoNotReserve(p) \/ Prepare(p)
    <3>1. UNCHANGED <<pc, task, cancelled, ended>>
      BY <2>2 DEF TakeActive, CheckMail, Reserve, ReserveFor, DoNotReserve, Prepare, tasks
    <3>. QED
      BY <3>1, StillStages
  <2>3. CASE ClearPending(p)
    <3>1. UNCHANGED <<pc, task, cancelled, ended>>
      BY <2>3, NobodyTold DEF ClearPending
    <3>. QED
      BY <3>1, StillStages
  <2>4. CASE EndAbort(p) \/ SetTask(p)
    BY <2>4, EndAbortReports, SetTaskBegins
  <2>. QED
    BY <1>4, <2>1, <2>2, <2>3, <2>4 DEF OfProcess
<1>5. ASSUME NEW t \in Turns, Answer(t) \/ Ask(t) \/ Drain(t) \/ RunEnds(t) \/ OfFinished(t)
      PROVE  Lifecycle!LifecycleNext \/ UNCHANGED Lifecycle!lifecycleVars
  BY <1>5, TaskMoves
<1>. QED
  BY <1>1, <1>2, <1>3, <1>4, <1>5 DEF Next

LEMMA StepFinished == TypeInv /\ TaskInv /\ FinishedOnce /\ [Next]_vars => FinishedOnce'
<1>. SUFFICES ASSUME TypeInv, TaskInv, FinishedOnce, [Next]_vars
              PROVE  FinishedOnce'
  OBVIOUS
<1>. USE DEF FinishedOnce, TypeInv, TypeOK
<1>1. CASE UNCHANGED <<pc, cancelled, ended>>
  BY <1>1
<1>2. CASE Submit \/ Interrupt \/ SendMail \/ TryIdle \/ OfIdle
  BY <1>1, <1>2 DEF Submit, Interrupt, SendMail, TryIdle, ReserveFor, OfIdle, GiveUp, Confirm, tasks
<1>3. ASSUME NEW p \in Processes, Cancel(p), task # None, UNCHANGED <<pc, ended>>
      PROVE  FinishedOnce'
  <2>1. task \in Turns /\ pc[task] \in Live
    BY <1>3 DEF TaskInv, Owned
  <2>. QED
    BY <1>3, <2>1 DEF Cancel, Live
<1>4. CASE Intervene
  BY <1>3, <1>4, Basics DEF Intervene
<1>5. ASSUME NEW p \in Processes, OfProcess(p)
      PROVE  FinishedOnce'
  <2>1. CASE TakeActive(p) /\ task # None
    BY <1>3, <2>1 DEF TakeActive
  <2>2. CASE \/ TakeActive(p) /\ task = None
             \/ CheckMail(p) \/ Reserve(p) \/ DoNotReserve(p) \/ Prepare(p)
    BY <1>1, <2>2 DEF TakeActive, CheckMail, Reserve, ReserveFor, DoNotReserve, Prepare, tasks
  <2>3. CASE ClearPending(p)
    BY <1>1, <2>3, NobodyTold DEF ClearPending
  <2>4. CASE EndAbort(p)
    <3>1. job[p].task \in Turns
      BY <2>4 DEF EndAbort, JobsHold, Holds
    <3>2. \A t \in Turns : pc'[t] \in {"finishing", "completed"} => pc'[t] = pc[t]
      BY <2>4, <3>1 DEF EndAbort, Stopped
    <3>3. \A t \in Turns : ended[t] > 0 => ended'[t] > 0
      BY <2>4, <3>1 DEF EndAbort
    <3>. QED
      BY <2>4, <3>2, <3>3 DEF EndAbort
  <2>5. CASE SetTask(p)
    <3>1. \A t \in Turns : pc'[t] \in {"finishing", "completed"} => pc'[t] = pc[t]
      BY <2>5 DEF SetTask, Stopped
    <3>. QED
      BY <2>5, <3>1 DEF SetTask
  <2>. QED
    BY <1>5, <2>1, <2>2, <2>3, <2>4, <2>5 DEF OfProcess
<1>6. ASSUME NEW t \in Turns, Answer(t) \/ Ask(t) \/ Drain(t) \/ RunEnds(t) \/ OfFinished(t)
      PROVE  FinishedOnce'
  <2>1. Finish(t) => ~cancelled[t]
    BY FinishTasks, Basics DEF Finish, TaskInv, Owned
  <2>. QED
    BY <1>6, <2>1 DEF Answer, Ask, Drain, RunEnds, OfFinished, Finish, Late, Complete, Leave,
                      tasks, TaskInv
<1>7. CASE UNCHANGED vars
  BY <1>1, <1>7 DEF vars, tasks
<1>. QED
  BY <1>2, <1>4, <1>5, <1>6, <1>7 DEF Next

LEMMA InitLifecycle == Init => FinishedOnce /\ Lifecycle!LifecycleInit
BY DEF Init, FinishedOnce, Stage, Lifecycle!LifecycleInit

\* When finishing tasks are prompt, the slot, its three processes and the tasks
\* are an implementation of one turn at a time (Session.active_turn): it alone
\* runs, asks and is answered; what is taken from it, by an abort or by its own
\* end, is told once, and a task that was aborted changes nothing any more.
THEOREM Implements ==
  ASSUME Prompt
  PROVE  Spec => TurnLifecycleSpec
<1>1. Init => FinishedOnce /\ Lifecycle!LifecycleInit
  BY InitLifecycle
<1>2. TypeInv /\ TaskInv /\ [Next]_vars => TaskInv'
  BY TaskInvStep
<1>3. TypeInv /\ TaskInv /\ FinishedOnce /\ [Next]_vars => FinishedOnce'
  BY StepFinished
<1>4. TypeInv /\ TaskInv /\ FinishedOnce /\ [Next]_vars
        => [Lifecycle!LifecycleNext]_(Lifecycle!lifecycleVars)
  BY StepLifecycle
<1>. QED
  BY <1>1, <1>2, <1>3, <1>4, InitType, TypeStep, InitTasks, PTL
     DEF Spec, TurnLifecycleSpec, Lifecycle!LifecycleSpec

=============================================================================
