----------------------------- MODULE DurableLog -----------------------------
(***************************************************************************)
(* What a session store promises about the messages of a session: one      *)
(* append-only log per session id.  The beginning of a log is durable.     *)
(* What was appended later becomes durable in the order it was appended,   *)
(* or is lost in one piece at either end; it is never repeated, reordered  *)
(* or invented, and what is durable stays until the session is deleted,    *)
(* except a last message that came loose when it was written.              *)
(***************************************************************************)
EXTENDS Integers, Sequences

CONSTANT Ids

VARIABLES
  log,      \* session id -> the messages a reader of the log would find
  durable,  \* session id -> those of them that survive a crash
  loose,    \* ids whose last durable message the next write spoils
  sent      \* how many messages have been appended; the n-th is named n

logVars == <<log, durable, loose, sent>>

LogInit ==
  /\ log \in [Ids -> {<<>>, <<0>>}]
  /\ durable = log
  /\ loose = {}
  /\ sent = 0

AppendTo(id) ==
  /\ sent' = sent + 1
  /\ log' = [log EXCEPT ![id] = Append(@, sent')]
  /\ UNCHANGED <<durable, loose>>

Volatile(id) == SubSeq(log[id], Len(durable[id]) + 1, Len(log[id]))

Firm(id) ==
  LET d == durable[id] IN
  IF id \in loose THEN SubSeq(d, 1, Len(d) - 1) ELSE d

\* Nothing is written of the volatile part of one log, or some of it is; then the
\* message written last may be loose.
Settled(id) ==
  \/ durable'[id] = durable[id] /\ (id \in loose' <=> id \in loose)
  \/ LET v == Volatile(id) IN
     \E i \in 1 .. Len(v) + 1, j \in 0 .. Len(v) :
       /\ durable'[id] = Firm(id) \o SubSeq(v, i, j)
       /\ id \in loose' => i <= j

Settle ==
  /\ durable' \in [Ids -> Seq(Nat)]
  /\ loose' \subseteq Ids
  /\ \A id \in Ids : Settled(id)
  /\ log' = durable'
  /\ UNCHANGED sent

DeleteLog(id) ==
  /\ log' = [log EXCEPT ![id] = <<>>]
  /\ durable' = [durable EXCEPT ![id] = <<>>]
  /\ loose' = loose \ {id}
  /\ UNCHANGED sent

LogNext == (\E id \in Ids : AppendTo(id) \/ DeleteLog(id)) \/ Settle

LogSpec == LogInit /\ [][LogNext]_logVars
=============================================================================
