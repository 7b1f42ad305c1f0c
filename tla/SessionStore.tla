---------------------------- MODULE SessionStore ----------------------------
(***************************************************************************)
(* The session store of the SGA backend (server/session-store.ts): the     *)
(* sessions in memory, the queue of lines to append to <id>.jsonl, the set *)
(* of sessions whose <id>.meta.json must be rewritten, and the files; the  *)
(* timers that flush, the start and the graceful stop of the process, and  *)
(* crashes.                                                                *)
(*                                                                         *)
(* The n-th message the backend ever stores is named n, and 0 stands for   *)
(* the conversation of a file in the legacy format.  Lines of usage and of *)
(* status are never read back, so the queues and logs hold the messages    *)
(* only; such a line matters when it is the one that is written after a    *)
(* line without end, and is spoilt with it in the place of a message.  Of  *)
(* the metadata the model keeps whether they can be read and which updates *)
(* of usage or status nothing will save.                                   *)
(***************************************************************************)
EXTENDS Integers, Sequences, FiniteSets

CONSTANTS
  Ids,          \* session ids
  MaxMessages,  \* bound: messages stored in a behaviour
  MaxFaults,    \* bound: crashes, and flushes of which a write fails
  None          \* no session

ASSUME BoundsAssumption == MaxMessages \in Nat /\ MaxFaults \in Nat

Messages == 0 .. MaxMessages

\* Sequences of messages: TypeOK says of what, not how long.
Log == Seq(Messages)

\* The conversation of a legacy file.
Old == <<0>>

ASSUME NoneAssumption == None \notin Log

VARIABLES
  up,        \* the process serves requests
  sessions,  \* SessionStore.sessions: id -> Session.messages
  stale,     \* sessions whose usage or status changed when they were not dirty
  dirty,     \* SessionStore.dirty
  queue,     \* SessionStore.appendQueues: id -> messages to append
  noted,     \* ids with a line of usage or status in their queue
  meta,      \* files <id>.meta.json; "torn": a write of it was interrupted
  jsonl,     \* files <id>.jsonl: the messages of the readable lines, and how
             \* the file ends
  legacy,    \* ids with a file <id>.json, a conversation in the old format
  sent,      \* history: messages stored so far
  faults,    \* history: crashes and failing flushes so far
  damaged,   \* history: sessions whose last writes were not complete
  cut        \* history: sessions whose migration a crash cut short

memory == <<sessions, stale, dirty, queue, noted>>
disk   == <<meta, jsonl, legacy>>
vars   == <<up, memory, disk, sent, faults, damaged, cut>>

\* A file is missing ("none"), or its last line has its newline ("ended"), or
\* has none: then it holds a message that can be read ("bare"), or something
\* that yields no message ("unread").
Endings == {"none", "ended", "bare", "unread"}

TypeOK ==
  /\ up \in BOOLEAN
  /\ sessions \in [Ids -> Log \cup {None}]
  /\ stale \subseteq Ids
  /\ dirty \subseteq Ids
  /\ queue \in [Ids -> Log]
  /\ noted \subseteq Ids
  /\ meta \in [Ids -> {"none", "saved", "torn"}]
  /\ jsonl \in [Ids -> [lines : Log, end : Endings]]
  /\ legacy \subseteq Ids
  /\ sent \in Messages
  /\ faults \in 0 .. MaxFaults
  /\ damaged \subseteq Ids
  /\ cut \subseteq Ids

NoSessions == [id \in Ids |-> None]
NoQueues   == [id \in Ids |-> <<>>]
NoFile     == [lines |-> <<>>, end |-> "none"]

Init ==
  /\ up = FALSE
  /\ sessions = NoSessions
  /\ stale = {}
  /\ dirty = {}
  /\ queue = NoQueues
  /\ noted = {}
  /\ meta = [id \in Ids |-> "none"]
  /\ jsonl = [id \in Ids |-> NoFile]
  /\ legacy \in SUBSET Ids
  /\ sent = 0
  /\ faults = 0
  /\ damaged = {}
  /\ cut = {}

-----------------------------------------------------------------------------
(* Requests.  A store operation on an id that is not in memory does        *)
(* nothing.                                                                *)

InMemory(id) == up /\ sessions[id] # None

\* store.set, by POST /sessions, the chat stream and the agent switch.
Create(id) ==
  /\ up
  /\ sessions[id] = None
  /\ sessions' = [sessions EXCEPT ![id] = <<>>]
  /\ dirty' = dirty \cup {id}
  /\ UNCHANGED <<up, stale, queue, noted, disk, sent, faults, damaged, cut>>

MarkDirty(id) ==
  /\ InMemory(id)
  /\ dirty' = dirty \cup {id}
  /\ stale' = stale \ {id}
  /\ UNCHANGED <<up, sessions, queue, noted, disk, sent, faults, damaged, cut>>

EnqueuedBug(id, m) == [queue EXCEPT ![id] = <<m>> \o @]
Enqueued(id, m) == [queue EXCEPT ![id] = Append(@, m)]

AppendMessage(id) ==
  /\ InMemory(id)
  /\ sent < MaxMessages
  /\ sent' = sent + 1
  /\ sessions' = [sessions EXCEPT ![id] = Append(@, sent')]
  /\ queue' = Enqueued(id, sent')
  /\ UNCHANGED <<up, stale, dirty, noted, disk, faults, damaged, cut>>

\* appendUsage and updateStatus change the session in memory and queue a line
\* that no one reads; neither marks the session dirty.
Update(id) ==
  /\ InMemory(id)
  /\ stale' = stale \cup ({id} \ dirty)
  /\ noted' = noted \cup {id}
  /\ UNCHANGED <<up, sessions, dirty, queue, disk, sent, faults, damaged, cut>>

\* SessionStore.delete forgets what was still to be written.
DropQueueBug(id) == queue
DropQueue(id) == [queue EXCEPT ![id] = <<>>]

Delete(id) ==
  /\ InMemory(id)
  /\ sessions' = [sessions EXCEPT ![id] = None]
  /\ stale' = stale \ {id}
  /\ dirty' = dirty \ {id}
  /\ queue' = DropQueue(id)
  /\ noted' = noted \ {id}
  /\ meta' = [meta EXCEPT ![id] = "none"]
  /\ jsonl' = [jsonl EXCEPT ![id] = NoFile]
  /\ damaged' = damaged \ {id}
  /\ UNCHANGED <<up, legacy, sent, faults, cut>>

-----------------------------------------------------------------------------
(* Flushing                                                                *)

\* Counts a step in which something fails.
Fault(fails) ==
  /\ faults' = IF fails THEN faults + 1 ELSE faults
  /\ faults' <= MaxFaults

\* What can be read of the log of an id once more bytes are appended to it: they
\* run on in a last line that has no newline, and spoil it.
Firm(id) ==
  LET lines == jsonl[id].lines IN
  IF jsonl[id].end = "bare" THEN SubSeq(lines, 1, Len(lines) - 1) ELSE lines

EndsWell(id) == jsonl[id].end \in {"none", "ended"}

\* The line that runs on in another is spoilt as well: the first message of the
\* queue, or a line of usage or status before it.
FirstReadable(id) ==
  IF EndsWell(id) THEN {1}
  ELSE IF id \in noted THEN {1, 2} ELSE {2}

\* How the log may end when its queue is written as far as message j.
EndsWith(id, i, j) ==
  {e \in Endings :
     \/ e = "ended" /\ (j > 0 \/ id \in noted \/ EndsWell(id))
     \/ e = "bare" /\ i <= j
     \/ e = "unread" /\ (j < Len(queue[id]) \/ id \in noted \/ j < i)}

\* What appendFileSync leaves of the log of an id: all of its queue, or, when the
\* write may fail or the process die in it, any beginning of its bytes.
Longer(id, i, j, e) == [lines |-> Firm(id) \o SubSeq(queue[id], i, j), end |-> e]

Whole(id) == {Longer(id, i, Len(queue[id]), "ended") : i \in FirstReadable(id)}
Part(id, i, j) == {Longer(id, i, j, e) : e \in EndsWith(id, i, j)}
Parts(id) ==
  UNION {Part(id, i, j) : i \in FirstReadable(id), j \in 0 .. Len(queue[id])}

Appended(id, fails) ==
  IF queue[id] = <<>> /\ id \notin noted THEN {jsonl[id]}
  ELSE IF fails THEN Parts(id) \cup {jsonl[id]} ELSE Whole(id)

\* flushAppendQueues: the queues are dropped whether or not the writes worked.
KeptQueuesBug == queue
KeptQueues == NoQueues

FlushQueues(fails) ==
  /\ \E left \in {[id \in Ids |-> Appended(id, fails)]} :  \* evaluated once
       /\ jsonl' \in [Ids -> UNION {left[id] : id \in Ids}]
       /\ \A id \in Ids : jsonl'[id] \in left[id]
  /\ noted' = {}
  /\ damaged' = damaged \cup
       {id \in Ids : jsonl'[id].lines # jsonl[id].lines \o queue[id]}

\* The metadata of the dirty sessions is rewritten; a session whose write fails
\* stays dirty, and its file may be damaged.
StillDirtyBug(saved) == {}
StillDirty(saved) == dirty \ saved

FlushMeta(saved, torn) ==
  meta' = [id \in Ids |-> IF id \in saved THEN "saved"
                           ELSE IF id \in torn THEN "torn" ELSE meta[id]]

\* The 200 ms timer that the first queued line arms.
AppendTimer ==
  /\ up
  /\ \E fails \in BOOLEAN : Fault(fails) /\ FlushQueues(fails)
  /\ queue' = KeptQueues
  /\ UNCHANGED <<up, sessions, stale, dirty, meta, legacy, sent, cut>>

Flush(fails, saved, torn) ==
  /\ Fault(fails)
  /\ FlushQueues(fails)
  /\ fails \/ saved = dirty
  /\ FlushMeta(saved, torn)

\* The 5 s timer.
FlushTimer ==
  /\ up
  /\ \E fails \in BOOLEAN, saved \in SUBSET dirty :
     \E torn \in SUBSET (dirty \ saved) :
       Flush(fails, saved, torn) /\ dirty' = StillDirty(saved)
  /\ queue' = KeptQueues
  /\ UNCHANGED <<up, sessions, stale, legacy, sent, cut>>

-----------------------------------------------------------------------------
(* Start, stop, crash                                                      *)

\* SIGINT and SIGTERM: flush, then exit.
Stop ==
  /\ up
  /\ \E fails \in BOOLEAN, saved \in SUBSET dirty :
     \E torn \in SUBSET (dirty \ saved) :
       Flush(fails, saved, torn)
  /\ up' = FALSE
  /\ sessions' = NoSessions
  /\ stale' = {}
  /\ dirty' = {}
  /\ queue' = NoQueues
  /\ UNCHANGED <<legacy, sent, cut>>

Crash ==
  /\ up
  /\ Fault(TRUE)
  /\ up' = FALSE
  /\ sessions' = NoSessions
  /\ stale' = {}
  /\ dirty' = {}
  /\ queue' = NoQueues
  /\ noted' = {}
  /\ UNCHANGED <<disk, sent, damaged, cut>>

\* Metadata that does not parse is skipped with a warning.
Loadable(id) == meta[id] = "saved"
Migratable(id) == ~Loadable(id) /\ id \in legacy

\* The log a migration writes, unless there already is one.
MigratedLogBug(id) ==
  IF jsonl[id].end # "none" THEN jsonl[id] ELSE [lines |-> None, end |-> "ended"]
MigratedLog(id) ==
  IF jsonl[id].end # "none" THEN jsonl[id] ELSE [lines |-> Old, end |-> "ended"]

\* loadAllFromDisk: the sessions with readable metadata, then the legacy files
\* of the others, which are rewritten in the new format and removed.
Load ==
  /\ ~up
  /\ up' = TRUE
  /\ sessions' = [id \in Ids |-> IF Loadable(id) THEN jsonl[id].lines
                                ELSE IF Migratable(id) THEN Old ELSE None]
  /\ meta' = [id \in Ids |-> IF Migratable(id) THEN "saved" ELSE meta[id]]
  /\ jsonl' = [id \in Ids |-> IF Migratable(id) THEN MigratedLog(id) ELSE jsonl[id]]
  /\ legacy' = {id \in legacy : ~Migratable(id)}
  /\ damaged' = {}
  /\ UNCHANGED <<stale, dirty, queue, noted, sent, faults, cut>>

\* A crash while the legacy file of an id is migrated: after its metadata, or
\* after its log, was written.
CrashInMigration(id) ==
  /\ ~up
  /\ Migratable(id)
  /\ Fault(TRUE)
  /\ cut' = cut \cup {id}
  /\ meta' = [meta EXCEPT ![id] = "saved"]
  /\ jsonl' \in {jsonl, [jsonl EXCEPT ![id] = MigratedLog(id)]}
  /\ UNCHANGED <<up, memory, legacy, sent, damaged>>

-----------------------------------------------------------------------------
Request(id) ==
  \/ Create(id) \/ MarkDirty(id) \/ Delete(id)
  \/ AppendMessage(id) \/ Update(id)

Next ==
  \/ \E id \in Ids : Request(id) \/ CrashInMigration(id)
  \/ AppendTimer \/ FlushTimer
  \/ Stop \/ Crash \/ Load

Spec == Init /\ [][Next]_vars

-----------------------------------------------------------------------------
(* What must hold                                                          *)

\* What a start would find of the messages of an id, and with it what is still
\* queued.
Readable(id) == IF Migratable(id) THEN Old ELSE jsonl[id].lines
LogOf(id) == Readable(id) \o queue[id]

\* The store implements one append-only log per session id: whatever is
\* written, fails and restarts, messages are never repeated, reordered
\* or invented, and those on disk stay until the session is deleted, but for one
\* in a line that was cut just before its newline: the next write spoils it.  It
\* does so until a crash cuts the migration of a legacy file (see ReadableStays).
Durable == INSTANCE DurableLog WITH
  log <- [id \in Ids |-> LogOf(id)],
  durable <- [id \in Ids |-> Readable(id)],
  loose <- {id \in Ids : jsonl[id].end = "bare"}

DurableLogSpec ==
  Durable!LogInit /\ [][Durable!LogNext \/ cut' # {}]_(Durable!logVars)

\* As long as no write of a session failed since the start, and its migration
\* was not cut short, what is on disk and in the queue ends with the
\* conversation the server works on, so that a stop and a start bring it back.
\* (It may begin with more: the log of a session that crashed before its
\* metadata was written.)
MemoryIsLogged ==
  \A id \in Ids : sessions[id] # None /\ id \notin damaged \cup cut =>
    \E n \in 0 .. Len(LogOf(id)) :
      sessions[id] = SubSeq(LogOf(id), n + 1, Len(LogOf(id)))

\* Every session the server knows will be found by the next start, now or after
\* the next flush: its metadata is on disk or the session is still dirty.
SessionIsSaved ==
  \A id \in Ids : sessions[id] # None => Loadable(id) \/ id \in dirty

\* Only a session in memory has something to write: no timer brings back the
\* files of a session that was deleted.
NothingToWrite ==
  \A id \in Ids : sessions[id] = None => id \notin dirty /\ queue[id] = <<>>

\* A graceful stop keeps the usage and the status of every session, those
\* apart whose metadata is still to be written and perhaps cannot be.
StopSavesUpdates == [][Stop => stale = {}]_vars

\* What a start could read of a conversation, the next one can read too, unless
\* the session was deleted.
ReadableStays ==
  [][\A id \in Ids : \/ Delete(id)
                     \/ \E n \in 0 .. Len(Readable(id)') :
                          Readable(id) = SubSeq(Readable(id)', 1, n)]_vars
=============================================================================
