------------------------- MODULE SessionStoreProofs -------------------------
(***************************************************************************)
(* Proofs about SessionStore, for any set of session ids and any bounds.   *)
(*                                                                         *)
(* The invariants are not inductive: while the process is down nothing may *)
(* be left of its memory (NothingInMemory).  That the store implements     *)
(* DurableLog also takes that a running process has no legacy file left to *)
(* migrate (NoMigrationPending), until a crash cuts a migration short.     *)
(* MemoryIsLogged is proved as: the log is something followed by the       *)
(* conversation in memory (Ends), which every step that is not a failed    *)
(* write keeps.                                                            *)
(***************************************************************************)
EXTENDS SessionStore, SequenceTheorems, TLAPS

NothingInMemory == ~up => sessions = NoSessions

IInv == TypeOK /\ NothingInMemory /\ SessionIsSaved /\ NothingToWrite

-----------------------------------------------------------------------------
(* Sequences of messages                                                   *)

LEMMA Piece ==
  ASSUME NEW q \in Log, NEW i \in {1, 2}, NEW j \in 0 .. Len(q)
  PROVE  SubSeq(q, i, j) \in Log
<1>1. \A k \in i .. j : q[k] \in Messages
  BY ElementOfSeq DEF Log
<1>. QED
  BY <1>1, SubSeqProperties DEF Log

LEMMA FirmLog ==
  ASSUME TypeOK, NEW id \in Ids
  PROVE  Firm(id) \in Log
<1>. DEFINE s == jsonl[id].lines
<1>1. s \in Log /\ Len(s) \in Nat
  BY LenProperties DEF TypeOK, Log
<1>2. \A k \in 1 .. Len(s) - 1 : s[k] \in Messages
  BY <1>1, ElementOfSeq DEF Log
<1>3. SubSeq(s, 1, Len(s) - 1) \in Log
  BY <1>1, <1>2, SubSeqProperties DEF Log
<1>. QED
  BY <1>1, <1>3 DEF Firm

\* What a flush makes of a log, unless nothing: what is firm of it and a piece of
\* the queue.  What it leaves without newline is a message it wrote.
Made(id, f) ==
  \E i \in {1, 2}, j \in 0 .. Len(queue[id]) :
    /\ f.lines = Firm(id) \o SubSeq(queue[id], i, j)
    /\ f.end = "bare" => i <= j

LEMMA WrittenPiece ==
  ASSUME TypeOK, NEW id \in Ids, NEW f \in Whole(id) \cup Parts(id)
  PROVE  Made(id, f) /\ f = [lines |-> f.lines, end |-> f.end] /\ f.end \in Endings
<1>1. Len(queue[id]) \in 0 .. Len(queue[id])
  BY LenProperties DEF TypeOK, Log
<1>2. FirstReadable(id) \subseteq {1, 2}
  BY DEF FirstReadable
<1>3. ASSUME NEW i \in {1, 2}, NEW j \in 0 .. Len(queue[id]), NEW e \in Endings,
             f = Longer(id, i, j, e), e = "bare" => i <= j
      PROVE  Made(id, f) /\ f = [lines |-> f.lines, end |-> f.end] /\ f.end \in Endings
  BY <1>3 DEF Longer, Made
<1>4. CASE f \in Whole(id)
  BY <1>1, <1>2, <1>3, <1>4 DEF Whole, Endings
<1>5. CASE f \in Parts(id)
  <2>1. PICK i \in FirstReadable(id), j \in 0 .. Len(queue[id]) : f \in Part(id, i, j)
    BY <1>5 DEF Parts
  <2>2. PICK e \in EndsWith(id, i, j) : f = Longer(id, i, j, e)
    BY <2>1 DEF Part
  <2>3. e \in Endings /\ (e = "bare" => i <= j)
    BY <2>2 DEF EndsWith
  <2>. QED
    BY <1>2, <1>3, <2>2, <2>3
<1>. QED
  BY <1>4, <1>5

LEMMA AppendedPiece ==
  ASSUME TypeOK, NEW id \in Ids, NEW fails \in BOOLEAN, NEW f \in Appended(id, fails)
  PROVE  f = jsonl[id] \/ (Made(id, f) /\ (queue[id] # <<>> \/ id \in noted))
  BY WrittenPiece DEF Appended

LEMMA AppendedType ==
  ASSUME TypeOK, NEW id \in Ids, NEW fails \in BOOLEAN, NEW f \in Appended(id, fails)
  PROVE  f \in [lines : Log, end : Endings]
<1>1. CASE f = jsonl[id]
  BY <1>1 DEF TypeOK
<1>2. CASE f \in Whole(id) \cup Parts(id)
  <2>1. /\ Made(id, f) /\ f = [lines |-> f.lines, end |-> f.end]
        /\ f.end \in Endings
    BY <1>2, WrittenPiece
  <2>2. PICK i \in {1, 2}, j \in 0 .. Len(queue[id]) :
          f.lines = Firm(id) \o SubSeq(queue[id], i, j)
    BY <2>1 DEF Made
  <2>3. Firm(id) \in Log /\ SubSeq(queue[id], i, j) \in Log
    BY FirmLog, Piece DEF TypeOK
  <2>4. f.lines \in Log
    BY <2>2, <2>3, ConcatProperties DEF Log
  <2>. QED
    BY <2>1, <2>4
<1>. QED
  BY <1>1, <1>2 DEF Appended

LEMMA FlushType ==
  ASSUME TypeOK, NEW fails \in BOOLEAN, FlushQueues(fails)
  PROVE  /\ jsonl' \in [Ids -> [lines : Log, end : Endings]]
         /\ \A id \in Ids : jsonl'[id] \in Appended(id, fails)
         /\ noted' = {}
         /\ damaged' \subseteq Ids
<1>1. \A id \in Ids : jsonl'[id] \in Appended(id, fails)
  BY DEF FlushQueues
<1>2. \A id \in Ids : jsonl'[id] \in [lines : Log, end : Endings]
  BY <1>1, AppendedType
<1>3. jsonl' = [id \in Ids |-> jsonl'[id]]
  BY DEF FlushQueues
<1>4. noted' = {} /\ damaged' \subseteq Ids
  BY DEF FlushQueues, TypeOK
<1>. QED
  BY <1>1, <1>2, <1>3, <1>4

LEMMA FaultType ==
  ASSUME TypeOK, NEW fails \in BOOLEAN, Fault(fails)
  PROVE  faults' \in 0 .. MaxFaults
  BY BoundsAssumption DEF TypeOK, Fault

-----------------------------------------------------------------------------
(* The inductive invariant                                                 *)

LEMMA InitInv == Init => IInv
<1> SUFFICES ASSUME Init PROVE IInv
  OBVIOUS
<1>1. <<>> \in Log /\ 0 \in Messages /\ 0 \in 0 .. MaxFaults
  BY BoundsAssumption DEF Log, Messages
<1>2. TypeOK
  BY <1>1 DEF Init, TypeOK, NoSessions, NoQueues, NoFile, Endings
<1>3. NothingInMemory /\ SessionIsSaved /\ NothingToWrite
  BY DEF Init, NothingInMemory, SessionIsSaved, NothingToWrite, NoSessions, NoQueues
<1>. QED
  BY <1>2, <1>3 DEF IInv

LEMMA LongerSession ==
  ASSUME TypeOK, NEW id \in Ids, AppendMessage(id)
  PROVE  /\ sent' \in Messages
         /\ Append(sessions[id], sent') \in Log
<1>1. sent' \in Messages /\ sessions[id] \in Log
  BY BoundsAssumption DEF TypeOK, AppendMessage, InMemory, Messages
<1>. QED
  BY <1>1, AppendProperties DEF Log

LEMMA TypeStep ==
  ASSUME IInv, [Next]_vars
  PROVE  TypeOK'
<1>. USE DEF IInv, TypeOK
<1>n. <<>> \in Log /\ Old \in Log
  BY BoundsAssumption DEF Log, Messages, Old
<1>1. ASSUME NEW id \in Ids, Create(id)
      PROVE  TypeOK'
  BY <1>1, <1>n DEF Create, disk
<1>2. ASSUME NEW id \in Ids, MarkDirty(id)
      PROVE  TypeOK'
  BY <1>2 DEF MarkDirty, disk
<1>3. ASSUME NEW id \in Ids, Delete(id)
      PROVE  TypeOK'
  BY <1>3, <1>n DEF Delete, DropQueue, NoFile, Endings
<1>4. ASSUME NEW id \in Ids, AppendMessage(id)
      PROVE  TypeOK'
  <2>1. sent' \in Messages /\ Append(sessions[id], sent') \in Log
    BY <1>4, LongerSession
  <2>2. Append(queue[id], sent') \in Log
    BY <2>1, AppendProperties DEF Log
  <2>3. queue' \in [Ids -> Log] /\ sessions' \in [Ids -> Log \cup {None}]
    BY <1>4, <2>1, <2>2 DEF AppendMessage, Enqueued
  <2>. QED
    BY <1>4, <2>1, <2>3 DEF AppendMessage, disk
<1>5. ASSUME NEW id \in Ids, Update(id)
      PROVE  TypeOK'
  BY <1>5 DEF Update, disk
<1>m. ASSUME NEW saved, NEW torn, FlushMeta(saved, torn)
      PROVE  meta' \in [Ids -> {"none", "saved", "torn"}]
  BY <1>m DEF FlushMeta
<1>f. ASSUME NEW fails \in BOOLEAN, Fault(fails), FlushQueues(fails)
      PROVE  /\ jsonl' \in [Ids -> [lines : Log, end : Endings]]
             /\ noted' \subseteq Ids /\ damaged' \subseteq Ids
             /\ faults' \in 0 .. MaxFaults
  BY <1>f, FlushType, FaultType
<1>6. CASE AppendTimer
  <2>1. PICK fails \in BOOLEAN : Fault(fails) /\ FlushQueues(fails)
    BY <1>6 DEF AppendTimer
  <2>2. queue' \in [Ids -> Log]
    BY <1>6, <1>n DEF AppendTimer, KeptQueues, NoQueues
  <2>. QED
    BY <1>6, <2>1, <2>2, <1>f DEF AppendTimer
<1>7. CASE FlushTimer
  <2>1. PICK fails \in BOOLEAN, saved \in SUBSET dirty : \E torn \in SUBSET (dirty \ saved) :
          Flush(fails, saved, torn) /\ dirty' = StillDirty(saved)
    BY <1>7 DEF FlushTimer
  <2>2. Fault(fails) /\ FlushQueues(fails) /\ \E torn : FlushMeta(saved, torn)
    BY <2>1 DEF Flush
  <2>3. meta' \in [Ids -> {"none", "saved", "torn"}] /\ dirty' \subseteq Ids
    BY <2>1, <2>2, <1>m DEF StillDirty
  <2>4. queue' \in [Ids -> Log]
    BY <1>7, <1>n DEF FlushTimer, KeptQueues, NoQueues
  <2>. QED
    BY <1>7, <2>2, <2>3, <2>4, <1>f DEF FlushTimer
<1>8. CASE Stop
  <2>1. PICK fails \in BOOLEAN, saved \in SUBSET dirty, torn \in SUBSET dirty :
               Flush(fails, saved, torn)
    BY <1>8 DEF Stop
  <2>2. Fault(fails) /\ FlushQueues(fails) /\ FlushMeta(saved, torn)
    BY <2>1 DEF Flush
  <2>3. meta' \in [Ids -> {"none", "saved", "torn"}]
    BY <2>2, <1>m
  <2>4. /\ sessions' \in [Ids -> Log \cup {None}]
        /\ queue' \in [Ids -> Log]
    BY <1>8, <1>n DEF Stop, NoQueues, NoSessions
  <2>. QED
    BY <1>8, <2>2, <2>3, <2>4, <1>f DEF Stop
<1>9. CASE Crash
  <2>1. /\ sessions' \in [Ids -> Log \cup {None}]
        /\ queue' \in [Ids -> Log]
    BY <1>9, <1>n DEF Crash, NoQueues, NoSessions
  <2>2. faults' \in 0 .. MaxFaults
    BY <1>9, FaultType DEF Crash
  <2>. QED
    BY <1>9, <2>1, <2>2 DEF Crash, disk
<1>l. \A id \in Ids : MigratedLog(id) \in [lines : Log, end : Endings]
  BY <1>n DEF MigratedLog, Endings
<1>10. CASE Load
  <2>1. sessions' \in [Ids -> Log \cup {None}]
    BY <1>10, <1>n DEF Load
  <2>2. meta' \in [Ids -> {"none", "saved", "torn"}] /\ legacy' \subseteq Ids
    BY <1>10 DEF Load
  <2>3. jsonl' \in [Ids -> [lines : Log, end : Endings]]
    BY <1>10, <1>l DEF Load
  <2>. QED
    BY <1>10, <2>1, <2>2, <2>3 DEF Load
<1>11. ASSUME NEW id \in Ids, CrashInMigration(id)
       PROVE  TypeOK'
  <2>1. jsonl' \in [Ids -> [lines : Log, end : Endings]]
    BY <1>11, <1>l DEF CrashInMigration
  <2>2. meta' \in [Ids -> {"none", "saved", "torn"}] /\ faults' \in 0 .. MaxFaults
    BY <1>11, FaultType DEF CrashInMigration
  <2>. QED
    BY <1>11, <2>1, <2>2 DEF CrashInMigration, memory
<1>12. CASE UNCHANGED vars
  BY <1>12 DEF vars, memory, disk
<1>. QED
  BY <1>1, <1>2, <1>3, <1>4, <1>5, <1>6, <1>7, <1>8, <1>9, <1>10, <1>11, <1>12
     DEF Next, Request

LEMMA NothingInMemoryStep ==
  ASSUME IInv, [Next]_vars
  PROVE  NothingInMemory'
<1>1. ASSUME NEW id \in Ids, Request(id)
      PROVE  NothingInMemory'
  BY <1>1 DEF NothingInMemory, Request, Create, MarkDirty, Delete, AppendMessage,
              Update, InMemory
<1>5. ASSUME NEW id \in Ids, CrashInMigration(id)
      PROVE  NothingInMemory'
  BY <1>5 DEF IInv, NothingInMemory, CrashInMigration, NoSessions, memory
<1>2. CASE AppendTimer \/ FlushTimer \/ Load
  BY <1>2 DEF NothingInMemory, AppendTimer, FlushTimer, Load
<1>3. CASE Stop \/ Crash
  BY <1>3 DEF NothingInMemory, Stop, Crash, NoSessions
<1>4. CASE UNCHANGED vars
  BY <1>4 DEF IInv, NothingInMemory, NoSessions, vars, memory
<1>. QED
  BY <1>1, <1>2, <1>3, <1>4, <1>5 DEF Next

LEMMA NothingToWriteStep ==
  ASSUME IInv, [Next]_vars, NEW q \in Ids, sessions'[q] = None
  PROVE  q \notin dirty' /\ queue'[q] = <<>>
<1>t. /\ sessions \in [Ids -> Log \cup {None}]
      /\ queue \in [Ids -> Log]
  BY DEF IInv, TypeOK
<1>q. sessions[q] = None => q \notin dirty /\ queue[q] = <<>>
  BY DEF IInv, NothingToWrite
<1>n. None \notin Log
  BY NoneAssumption
<1>1. ASSUME NEW id \in Ids, Create(id)
      PROVE  q \notin dirty' /\ queue'[q] = <<>>
  <2>1. <<>> \in Log
    BY DEF Log
  <2>. QED
    BY <1>1, <2>1, <1>t, <1>q, <1>n DEF Create
<1>2. ASSUME NEW id \in Ids, MarkDirty(id)
      PROVE  q \notin dirty' /\ queue'[q] = <<>>
  BY <1>2, <1>t, <1>q DEF MarkDirty, InMemory
<1>3. ASSUME NEW id \in Ids, Delete(id)
      PROVE  q \notin dirty' /\ queue'[q] = <<>>
  BY <1>3, <1>t, <1>q DEF Delete, DropQueue
<1>4. ASSUME NEW id \in Ids, AppendMessage(id) \/ Update(id)
      PROVE  q \notin dirty' /\ queue'[q] = <<>>
  <2>1. sessions'[id] # None
    <3>1. CASE AppendMessage(id)
      BY <1>t, <1>n, <3>1, LongerSession DEF IInv, AppendMessage
    <3>2. CASE Update(id)
      BY <3>2 DEF Update, InMemory
    <3>. QED
      BY <1>4, <3>1, <3>2
  <2>2. id # q /\ sessions'[q] = sessions[q] /\ queue'[q] = queue[q] /\ dirty' = dirty
    BY <1>4, <2>1, <1>t DEF AppendMessage, Update, Enqueued
  <2>. QED
    BY <2>2, <1>q
<1>5. CASE AppendTimer \/ FlushTimer
  BY <1>5, <1>q DEF AppendTimer, FlushTimer, KeptQueues, NoQueues, StillDirty
<1>6. CASE Stop \/ Crash
  BY <1>6 DEF Stop, Crash, NoQueues
<1>7. CASE Load
  BY <1>7, <1>q DEF Load, IInv, NothingInMemory, NoSessions
<1>8. ASSUME NEW id \in Ids, CrashInMigration(id)
      PROVE  q \notin dirty' /\ queue'[q] = <<>>
  BY <1>8, <1>q DEF CrashInMigration, memory
<1>9. CASE UNCHANGED vars
  BY <1>9, <1>q DEF vars, memory
<1>. QED
  BY <1>1, <1>2, <1>3, <1>4, <1>5, <1>6, <1>7, <1>8, <1>9 DEF Next, Request

LEMMA SessionIsSavedStep ==
  ASSUME IInv, [Next]_vars, NEW q \in Ids, sessions'[q] # None
  PROVE  Loadable(q)' \/ q \in dirty'
<1>t. /\ sessions \in [Ids -> Log \cup {None}]
      /\ meta \in [Ids -> {"none", "saved", "torn"}]
      /\ dirty \subseteq Ids
  BY DEF IInv, TypeOK
<1>q. sessions[q] # None => Loadable(q) \/ q \in dirty
  BY DEF IInv, SessionIsSaved
<1>1. ASSUME NEW id \in Ids, Create(id)
      PROVE  Loadable(q)' \/ q \in dirty'
  BY <1>1, <1>t, <1>q DEF Create, Loadable, disk
<1>2. ASSUME NEW id \in Ids, MarkDirty(id) \/ AppendMessage(id) \/ Update(id)
      PROVE  Loadable(q)' \/ q \in dirty'
  <2>1. sessions[q] # None
    BY <1>2, <1>t DEF MarkDirty, AppendMessage, Update, InMemory
  <2>. QED
    BY <1>2, <2>1, <1>q DEF MarkDirty, AppendMessage, Update, Loadable, disk
<1>3. ASSUME NEW id \in Ids, Delete(id)
      PROVE  Loadable(q)' \/ q \in dirty'
  BY <1>3, <1>t, <1>q DEF Delete, Loadable
<1>4. CASE AppendTimer
  BY <1>4, <1>q DEF AppendTimer, Loadable
<1>5. CASE FlushTimer
  <2>1. PICK saved \in SUBSET dirty : \E torn \in SUBSET (dirty \ saved) :
          FlushMeta(saved, torn) /\ dirty' = StillDirty(saved)
    BY <1>5 DEF FlushTimer, Flush
  <2>2. sessions[q] # None
    BY <1>5 DEF FlushTimer
  <2>3. CASE q \in saved
    BY <2>1, <2>3 DEF FlushMeta, Loadable
  <2>4. CASE q \notin saved
    BY <2>1, <2>2, <2>4, <1>q DEF FlushMeta, StillDirty, Loadable
  <2>. QED
    BY <2>3, <2>4
<1>6. CASE Stop \/ Crash
  BY <1>6 DEF Stop, Crash, NoSessions
<1>7. CASE Load
  BY <1>7, <1>t DEF Load, Loadable, Migratable
<1>8. ASSUME NEW id \in Ids, CrashInMigration(id)
      PROVE  Loadable(q)' \/ q \in dirty'
  BY <1>8 DEF CrashInMigration, memory, IInv, NothingInMemory, NoSessions
<1>9. CASE UNCHANGED vars
  BY <1>9, <1>q DEF vars, memory, disk, Loadable
<1>. QED
  BY <1>1, <1>2, <1>3, <1>4, <1>5, <1>6, <1>7, <1>8, <1>9 DEF Next, Request

LEMMA IInvStep == IInv /\ [Next]_vars => IInv'
<1> SUFFICES ASSUME IInv, [Next]_vars PROVE IInv'
  OBVIOUS
<1>1. TypeOK' /\ NothingInMemory'
  BY TypeStep, NothingInMemoryStep
<1>2. NothingToWrite'
  BY NothingToWriteStep DEF NothingToWrite
<1>3. SessionIsSaved'
  BY SessionIsSavedStep DEF SessionIsSaved
<1>. QED
  BY <1>1, <1>2, <1>3 DEF IInv

-----------------------------------------------------------------------------
(* The theorems                                                            *)

THEOREM Invariance == Spec => []IInv
  BY InitInv, IInvStep, PTL DEF Spec

\* The store, its queues and its files keep their types.
THEOREM TypeCorrect == Spec => []TypeOK
<1>1. IInv => TypeOK
  BY DEF IInv
<1>. QED
  BY Invariance, <1>1, PTL

\* Every session in memory has readable metadata on disk or is still dirty,
\* whichever writes of a flush fail and wherever the program crashes.
THEOREM SessionsSaved == Spec => []SessionIsSaved
<1>1. IInv => SessionIsSaved
  BY DEF IInv
<1>. QED
  BY Invariance, <1>1, PTL

\* Nothing is left to write for a session that is not in memory: a deleted
\* session's files are not brought back by a timer.
THEOREM NothingWrittenForDeleted == Spec => []NothingToWrite
<1>1. IInv => NothingToWrite
  BY DEF IInv
<1>. QED
  BY Invariance, <1>1, PTL

-----------------------------------------------------------------------------
(* The store implements an append-only log                                 *)

\* Unless a crash has cut its migration, a legacy file is untouched until the
\* first start, which migrates it.
NoMigrationPending ==
  \A id \in legacy \ cut : ~up /\ meta[id] = "none" /\ jsonl[id] = NoFile

LEMMA MigrationInit == Init => NoMigrationPending
  BY DEF Init, NoMigrationPending

LEMMA MigrationStep ==
  ASSUME IInv, NoMigrationPending, [Next]_vars
  PROVE  NoMigrationPending'
<1>1. CASE Load
  BY <1>1 DEF IInv, TypeOK, NoMigrationPending, Load, Migratable, Loadable
<1>2. CASE Stop \/ Crash
  BY <1>2 DEF NoMigrationPending, Stop, Crash, disk
<1>3. CASE \E id \in Ids : Request(id)
  BY <1>3 DEF NoMigrationPending, Request, Create, MarkDirty, Delete,
              AppendMessage, Update, InMemory, disk
<1>4. CASE AppendTimer \/ FlushTimer
  BY <1>4 DEF NoMigrationPending, AppendTimer, FlushTimer
<1>5. CASE UNCHANGED vars
  BY <1>5 DEF NoMigrationPending, vars, disk
<1>6. ASSUME NEW id \in Ids, CrashInMigration(id)
      PROVE  NoMigrationPending'
  <2>1. \A k \in Ids \ {id} : meta'[k] = meta[k] /\ jsonl'[k] = jsonl[k]
    BY <1>6 DEF CrashInMigration, IInv, TypeOK
  <2>2. up' = up /\ legacy' = legacy /\ cut' = cut \cup {id} /\ legacy \subseteq Ids
    BY <1>6 DEF CrashInMigration, IInv, TypeOK
  <2>. QED
    BY <2>1, <2>2 DEF NoMigrationPending, NoFile
<1>. QED
  BY <1>1, <1>2, <1>3, <1>4, <1>5, <1>6 DEF Next

LEMMA VolatileIsQueue ==
  ASSUME NEW s \in Log, NEW q \in Log
  PROVE  SubSeq(s \o q, Len(s) + 1, Len(s \o q)) = q
<1>1. Len(s) \in Nat /\ Len(q) \in Nat /\ Len(s \o q) = Len(s) + Len(q)
  BY LenProperties, ConcatProperties DEF Log
<1>2. CASE q = <<>>
  <2>1. Len(q) = 0
    BY <1>2
  <2>. QED
    BY <1>1, <1>2, <2>1, SubSeqEmpty
<1>3. CASE q # <<>>
  <2>1. Len(q) # 0
    BY <1>3, EmptySeq DEF Log
  <2>2. SubSeq(s \o q, Len(s) + 1, Len(s) + Len(q)) = SubSeq(q, 1, Len(q))
    BY <1>1, <2>1, SubSeqOfConcat2 DEF Log
  <2>. QED
    BY <1>1, <2>2, SubSeqFull DEF Log
<1>. QED
  BY <1>2, <1>3

LEMMA SettledPiece ==
  ASSUME TypeOK, NEW id \in Ids, Readable(id) = jsonl[id].lines,
         NEW i \in {1, 2}, NEW j \in 0 .. Len(queue[id]),
         i = 2 => queue[id] # <<>>,
         Readable(id)' = Firm(id) \o SubSeq(queue[id], i, j),
         jsonl'[id].end = "bare" => i <= j
  PROVE  Durable!Settled(id)
<1>1. queue[id] \in Log /\ jsonl[id].lines \in Log
  BY DEF TypeOK
<1>2. Durable!Volatile(id) = queue[id]
  BY <1>1, VolatileIsQueue DEF Durable!Volatile, LogOf
<1>3. i \in 1 .. Len(queue[id]) + 1
  BY <1>1, EmptySeq, LenProperties DEF Log
<1>4. [k \in Ids |-> Readable(k)]'[id] = Readable(id)'
  OBVIOUS
<1>5. Durable!Firm(id) = Firm(id)
  BY DEF Durable!Firm, Firm
<1>. QED
  BY <1>2, <1>3, <1>4, <1>5 DEF Durable!Settled

LEMMA SettledSame ==
  ASSUME NEW id \in Ids, Readable(id)' = Readable(id), jsonl'[id].end = jsonl[id].end
  PROVE  Durable!Settled(id)
  BY DEF Durable!Settled

\* The log after a step that empties the queues.
LEMMA NothingVolatile ==
  ASSUME TypeOK', NEW id \in Ids, queue' = NoQueues
  PROVE  LogOf(id)' = Readable(id)' /\ Readable(id)' \in Seq(Nat)
<1>1. Messages \subseteq Nat /\ Messages' = Messages /\ 0 \in Messages
  BY BoundsAssumption DEF Messages
<1>2. Readable(id)' \in Seq(Messages)
  BY <1>1 DEF TypeOK, Readable, Old, Log
<1>3. Readable(id)' \in Seq(Nat)
  BY <1>1, <1>2, SeqMonotonic
<1>4. Readable(id)' \o <<>> = Readable(id)'
  BY <1>2, ConcatEmptySeq
<1>. QED
  BY <1>3, <1>4 DEF LogOf, NoQueues

LEMMA FlushSettles ==
  ASSUME IInv, TypeOK', NoMigrationPending, cut = {}, up,
         NEW fails \in BOOLEAN, FlushQueues(fails), queue' = NoQueues,
         UNCHANGED <<legacy, sent>>
  PROVE  Durable!Settle
<1>t. TypeOK
  BY DEF IInv
<1>r. \A id \in Ids : Readable(id) = jsonl[id].lines /\ Readable(id)' = jsonl'[id].lines
  BY DEF NoMigrationPending, Readable, Migratable
<1>1. \A id \in Ids : LogOf(id)' = Readable(id)' /\ Readable(id)' \in Seq(Nat)
  BY NothingVolatile
<1>2. \A id \in Ids : Durable!Settled(id)
  <2> SUFFICES ASSUME NEW id \in Ids
               PROVE  Durable!Settled(id)
    OBVIOUS
  <2>1. jsonl'[id] \in Appended(id, fails)
    BY <1>t, FlushType
  <2>2. CASE jsonl'[id] = jsonl[id]
    BY <1>r, <2>2, SettledSame
  <2>3. ASSUME Made(id, jsonl'[id])
        PROVE  Durable!Settled(id)
    <3>1. PICK i \in {1, 2}, j \in 0 .. Len(queue[id]) :
            /\ Readable(id)' = Firm(id) \o SubSeq(queue[id], i, j)
            /\ jsonl'[id].end = "bare" => i <= j
      BY <1>r, <2>3 DEF Made
    <3>2. CASE i = 2 => queue[id] # <<>>
      BY <1>t, <1>r, <3>1, <3>2, SettledPiece
    <3>3. CASE i = 2 /\ queue[id] = <<>>
      <4>1. j = 0 /\ 0 \in 0 .. Len(queue[id])
        BY <3>3
      <4>2. SubSeq(queue[id], i, j) = SubSeq(queue[id], 1, 0)
        BY <3>3, <4>1, SubSeqEmpty
      <4>3. Readable(id)' = Firm(id) \o SubSeq(queue[id], 1, 0) /\ jsonl'[id].end # "bare"
        BY <3>1, <3>3, <4>1, <4>2
      <4>. QED
        BY <1>t, <1>r, <4>1, <4>3, SettledPiece, 1 \in {1, 2}
    <3>. QED
      BY <3>2, <3>3
  <2>. QED
    BY <1>t, <2>1, <2>2, <2>3, AppendedPiece
<1>. QED
  BY <1>1, <1>2 DEF Durable!Settle

LEMMA CrashSettles ==
  ASSUME IInv, TypeOK', NoMigrationPending, cut = {}, Crash
  PROVE  Durable!Settle
<1>1. \A id \in Ids : LogOf(id)' = Readable(id)' /\ Readable(id)' \in Seq(Nat)
  BY NothingVolatile DEF Crash
<1>2. \A id \in Ids : Readable(id)' = Readable(id) /\ jsonl' = jsonl
  BY DEF Crash, disk, Readable, Migratable, Loadable
<1>3. \A id \in Ids : Durable!Settled(id)
  BY <1>2, SettledSame
<1>. QED
  BY <1>1, <1>3 DEF Durable!Settle, Crash

\* An action that changes neither the files nor the queues is no step of the
\* log, nor is a start: what it migrates reads as before.
LEMMA SameFilesStutter ==
  ASSUME UNCHANGED <<queue, disk, sent>>
  PROVE  UNCHANGED Durable!logVars
<1>1. \A id \in Ids : LogOf(id)' = LogOf(id) /\ Readable(id)' = Readable(id)
  BY DEF disk, LogOf, Readable, Migratable, Loadable
<1>. QED
  BY <1>1 DEF disk, Durable!logVars

LEMMA LoadStutters ==
  ASSUME IInv, NoMigrationPending, cut = {}, Load
  PROVE  UNCHANGED Durable!logVars
<1>1. \A id \in Ids : Readable(id)' = Readable(id)
  <2> SUFFICES ASSUME NEW id \in Ids
               PROVE  Readable(id)' = Readable(id)
    OBVIOUS
  <2>1. CASE Migratable(id)
    <3>1. jsonl[id] = NoFile
      BY <2>1 DEF Migratable, NoMigrationPending
    <3>2. jsonl'[id].lines = Old /\ id \notin legacy'
      BY <2>1, <3>1 DEF Load, MigratedLog, NoFile
    <3>. QED
      BY <2>1, <3>2 DEF Readable, Migratable
  <2>2. CASE ~Migratable(id)
    <3>1. jsonl'[id] = jsonl[id] /\ (id \in legacy' <=> id \in legacy) /\ meta'[id] = meta[id]
      BY <2>2 DEF Load
    <3>. QED
      BY <3>1 DEF Readable, Migratable, Loadable
  <2>. QED
    BY <2>1, <2>2
<1>2. \A id \in Ids : LogOf(id)' = LogOf(id)
  BY <1>1 DEF Load, LogOf
<1>3. \A id \in Ids : jsonl'[id].end = "bare" <=> jsonl[id].end = "bare"
  BY DEF Load, MigratedLog, Migratable, NoMigrationPending, NoFile
<1>. QED
  BY <1>1, <1>2, <1>3 DEF Load, Durable!logVars

LEMMA AppendToConcat ==
  ASSUME NEW s \in Log, NEW q \in Log, NEW m \in Messages
  PROVE  s \o Append(q, m) = Append(s \o q, m)
<1>1. <<m>> \in Log /\ s \o q \in Log
  BY ConcatProperties DEF Log
<1>2. Append(q, m) = q \o <<m>> /\ Append(s \o q, m) = (s \o q) \o <<m>>
  BY <1>1, AppendIsConcat DEF Log
<1>3. (s \o q) \o <<m>> = s \o (q \o <<m>>)
  <2>1. \A S : \A a, b, c \in Seq(S) : (a \o b) \o c = a \o (b \o c)
    BY ConcatAssociative
  <2>2. \A a, b, c \in Seq(Messages) : (a \o b) \o c = a \o (b \o c)
    BY <2>1
  <2>. QED
    BY <1>1, <2>2, Zenon DEF Log
<1>. QED
  BY <1>2, <1>3

LEMMA AppendAppends ==
  ASSUME IInv, NoMigrationPending, cut = {}, NEW id \in Ids, AppendMessage(id)
  PROVE  Durable!AppendTo(id)
<1>1. TypeOK /\ sent' = sent + 1 /\ sent' \in Messages
  BY BoundsAssumption DEF IInv, AppendMessage, TypeOK, Messages
<1>2. \A k \in Ids : Readable(k) = jsonl[k].lines /\ Readable(k)' = Readable(k)
  BY DEF AppendMessage, InMemory, disk, NoMigrationPending, Readable, Migratable,
         Loadable
<1>3. \A k \in Ids : k # id => LogOf(k)' = LogOf(k)
  BY <1>1, <1>2 DEF AppendMessage, Enqueued, LogOf, TypeOK
<1>4. LogOf(id)' = Append(LogOf(id), sent')
  <2>1. jsonl[id].lines \in Log /\ queue[id] \in Log
    BY <1>1 DEF TypeOK
  <2>2. queue'[id] = Append(queue[id], sent')
    BY <1>1 DEF AppendMessage, Enqueued, TypeOK
  <2>3. jsonl[id].lines \o Append(queue[id], sent')
          = Append(jsonl[id].lines \o queue[id], sent')
    BY <1>1, <2>1, AppendToConcat
  <2>4. Readable(id)' = jsonl[id].lines /\ Readable(id) = jsonl[id].lines
    BY <1>2
  <2>. QED
    BY <2>2, <2>3, <2>4 DEF LogOf
<1>5. UNCHANGED jsonl
  BY DEF AppendMessage, disk
<1>. QED
  BY <1>1, <1>2, <1>3, <1>4, <1>5 DEF Durable!AppendTo

LEMMA DeleteDeletes ==
  ASSUME IInv, NoMigrationPending, cut = {}, NEW id \in Ids, Delete(id)
  PROVE  Durable!DeleteLog(id)
<1>1. TypeOK
  BY DEF IInv
<1>2. \A k \in Ids : k # id => LogOf(k)' = LogOf(k) /\ Readable(k)' = Readable(k)
  BY <1>1 DEF Delete, DropQueue, LogOf, Readable, Migratable, Loadable, TypeOK
<1>3. Readable(id)' = <<>>
  BY <1>1 DEF Delete, InMemory, NoMigrationPending, Readable, Migratable,
              NoFile, TypeOK
<1>4. LogOf(id)' = <<>>
  <2>1. queue'[id] = <<>> /\ <<>> \o <<>> = <<>>
    BY <1>1, ConcatEmptySeq DEF Delete, DropQueue, TypeOK
  <2>. QED
    BY <1>3, <2>1 DEF LogOf
<1>5. /\ jsonl'[id].end # "bare"
      /\ \A k \in Ids : k # id => jsonl'[k] = jsonl[k]
  BY <1>1 DEF Delete, NoFile, TypeOK
<1>. QED
  BY <1>2, <1>3, <1>4, <1>5 DEF Durable!DeleteLog, Delete

LEMMA InitLogs == Init => Durable!LogInit
<1> SUFFICES ASSUME Init PROVE Durable!LogInit
  OBVIOUS
<1>1. \A id \in Ids : Readable(id) \in {<<>>, <<0>>} /\ LogOf(id) = Readable(id)
  <2> SUFFICES ASSUME NEW id \in Ids
               PROVE  Readable(id) \in {<<>>, <<0>>} /\ LogOf(id) = Readable(id)
    OBVIOUS
  <2>1. Readable(id) \in {<<>>, <<0>>}
    BY DEF Init, Readable, Migratable, Loadable, NoFile, Old
  <2>2. queue[id] = <<>>
    BY DEF Init, NoQueues
  <2>3. <<>> \in Seq(Nat) /\ <<0>> \in Seq(Nat)
    OBVIOUS
  <2>4. Readable(id) \o <<>> = Readable(id)
    BY <2>1, <2>3, ConcatEmptySeq
  <2>. QED
    BY <2>1, <2>2, <2>4 DEF LogOf
<1>2. \A id \in Ids : jsonl[id].end # "bare"
  BY DEF Init, NoFile
<1>. QED
  BY <1>1, <1>2 DEF Durable!LogInit, Init

LEMMA StepSettles ==
  ASSUME IInv, NoMigrationPending, [Next]_vars
  PROVE  [Durable!LogNext \/ cut' # {}]_(Durable!logVars)
<1> SUFFICES ASSUME cut' = {}
             PROVE  [Durable!LogNext]_(Durable!logVars)
  OBVIOUS
<1>c. cut = {} /\ ~\E id \in Ids : CrashInMigration(id)
  BY DEF Next, Request, Create, MarkDirty, Delete, AppendMessage, Update,
         AppendTimer, FlushTimer, Stop, Crash, Load, CrashInMigration, vars
<1>t. TypeOK'
  BY TypeStep
<1>1. ASSUME NEW id \in Ids, Create(id) \/ MarkDirty(id) \/ Update(id)
      PROVE  UNCHANGED Durable!logVars
  BY <1>1, SameFilesStutter DEF Create, MarkDirty, Update
<1>2. ASSUME NEW id \in Ids, AppendMessage(id)
      PROVE  Durable!LogNext
  BY <1>2, <1>c, AppendAppends DEF Durable!LogNext
<1>3. ASSUME NEW id \in Ids, Delete(id)
      PROVE  Durable!LogNext
  BY <1>3, <1>c, DeleteDeletes DEF Durable!LogNext
<1>4. CASE AppendTimer \/ FlushTimer
  <2>1. /\ up /\ queue' = NoQueues /\ UNCHANGED <<legacy, sent>>
        /\ \E fails \in BOOLEAN : FlushQueues(fails)
    BY <1>4 DEF AppendTimer, FlushTimer, Flush, KeptQueues
  <2>. QED
    BY <2>1, <1>c, <1>t, FlushSettles DEF Durable!LogNext
<1>5. CASE Stop
  <2>1. /\ up /\ queue' = NoQueues /\ UNCHANGED <<legacy, sent>>
        /\ \E fails \in BOOLEAN : FlushQueues(fails)
    BY <1>5 DEF Stop, Flush
  <2>. QED
    BY <2>1, <1>c, <1>t, FlushSettles DEF Durable!LogNext
<1>6. CASE Crash
  BY <1>6, <1>c, <1>t, CrashSettles DEF Durable!LogNext
<1>7. CASE Load
  BY <1>7, <1>c, LoadStutters
<1>8. CASE UNCHANGED vars
  BY <1>8, SameFilesStutter DEF vars, memory
<1>. QED
  BY <1>c, <1>1, <1>2, <1>3, <1>4, <1>5, <1>6, <1>7, <1>8 DEF Next, Request

\* The store implements one append-only log per session, until a crash cuts the
\* migration of a legacy file: lines are appended in order, a crash or a failed
\* write loses a piece of what was queued, what was written stays until the
\* session is deleted, but for a message whose line was cut just before its
\* newline, which the next write spoils.
THEOREM Implements == Spec => DurableLogSpec
<1>1. Init => NoMigrationPending /\ Durable!LogInit
  BY MigrationInit, InitLogs
<1>2. IInv /\ NoMigrationPending /\ [Next]_vars => NoMigrationPending'
  BY MigrationStep
<1>3. IInv /\ NoMigrationPending /\ [Next]_vars
        => [Durable!LogNext \/ cut' # {}]_(Durable!logVars)
  BY StepSettles
<1>. QED
  BY <1>1, <1>2, <1>3, Invariance, PTL DEF Spec, DurableLogSpec

\* Where no crash ever hits a migration, the store is an implementation of the
\* log specification itself.
THEOREM ImplementsLog == Spec /\ [](cut = {}) => Durable!LogSpec
<1>1. cut = {} /\ (cut = {})' /\ [Durable!LogNext \/ cut' # {}]_(Durable!logVars)
        => [Durable!LogNext]_(Durable!logVars)
  OBVIOUS
<1>. QED
  BY <1>1, Implements, PTL DEF DurableLogSpec, Durable!LogSpec

-----------------------------------------------------------------------------
(* What is logged is what is in memory                                     *)

Ends(id) == \E p \in Log : LogOf(id) = p \o sessions[id]

MemoryEndsLog ==
  \A id \in Ids : sessions[id] # None /\ id \notin damaged \cup cut => Ends(id)

LEMMA OldLog == <<>> \in Log /\ Old \in Log
  BY BoundsAssumption DEF Log, Messages, Old

LEMMA LogType ==
  ASSUME TypeOK, NEW id \in Ids
  PROVE  LogOf(id) \in Log
<1>1. Readable(id) \in Log /\ queue[id] \in Log
  BY OldLog DEF TypeOK, Readable
<1>. QED
  BY <1>1, ConcatProperties DEF LogOf, Log

LEMMA EmptyConcat ==
  ASSUME NEW s \in Log
  PROVE  s \o <<>> = s /\ <<>> \o s = s
  BY ConcatEmptySeq DEF Log

LEMMA EndsIsSuffix ==
  ASSUME TypeOK, NEW id \in Ids, sessions[id] # None, Ends(id)
  PROVE  \E n \in 0 .. Len(LogOf(id)) :
           sessions[id] = SubSeq(LogOf(id), n + 1, Len(LogOf(id)))
<1>1. sessions[id] \in Log
  BY DEF TypeOK
<1>2. PICK p \in Log : LogOf(id) = p \o sessions[id]
  BY DEF Ends
<1>3. sessions[id] = SubSeq(LogOf(id), Len(p) + 1, Len(LogOf(id)))
  BY <1>1, <1>2, VolatileIsQueue
<1>4. Len(p) \in 0 .. Len(LogOf(id))
  BY <1>1, <1>2, LenProperties, ConcatProperties DEF Log
<1>. QED
  BY <1>3, <1>4

LEMMA EndsKept ==
  ASSUME NEW id \in Ids, Ends(id), LogOf(id)' = LogOf(id), sessions'[id] = sessions[id]
  PROVE  Ends(id)'
<1>1. PICK p \in Log : LogOf(id) = p \o sessions[id]
  BY DEF Ends
<1>2. LogOf(id)' = p \o sessions'[id]
  BY <1>1
<1>. QED
  BY <1>2 DEF Ends, Log, Messages

LEMMA ReadableUp ==
  ASSUME NoMigrationPending, up, NEW id \in Ids \ cut
  PROVE  Readable(id) = jsonl[id].lines
  BY DEF NoMigrationPending, Readable, Migratable

LEMMA MemoryEndsLogStep ==
  ASSUME IInv, NoMigrationPending, MemoryEndsLog, [Next]_vars,
         NEW q \in Ids, sessions'[q] # None, q \notin damaged' \cup cut'
  PROVE  Ends(q)'
<1>t. TypeOK /\ TypeOK' /\ NoMigrationPending'
  BY TypeStep, MigrationStep DEF IInv
<1>c. q \notin cut
  BY DEF Next, Request, Create, MarkDirty, Delete, AppendMessage, Update,
         AppendTimer, FlushTimer, Stop, Crash, Load, CrashInMigration, vars
<1>m. sessions[q] # None /\ q \notin damaged => Ends(q)
  BY <1>c DEF MemoryEndsLog
<1>s. ASSUME UNCHANGED <<queue, disk>>
      PROVE  LogOf(q)' = LogOf(q)
  BY <1>s DEF disk, LogOf, Readable, Migratable, Loadable
<1>1. ASSUME NEW id \in Ids, Create(id)
      PROVE  Ends(q)'
  <2>1. LogOf(q)' = LogOf(q) /\ damaged' = damaged
    BY <1>1, <1>s DEF Create
  <2>2. CASE q = id
    <3>1. sessions'[q] = <<>>
      BY <1>1, <1>t, <2>2 DEF Create, TypeOK
    <3>2. LogOf(q)' \in Log /\ LogOf(q)' = LogOf(q)' \o <<>>
      BY <1>t, <2>1, LogType, EmptyConcat
    <3>. QED
      BY <3>1, <3>2 DEF Ends, Log, Messages
  <2>3. CASE q # id
    <3>1. sessions'[q] = sessions[q]
      BY <1>1, <1>t, <2>3 DEF Create, TypeOK
    <3>. QED
      BY <1>m, <2>1, <3>1, EndsKept
  <2>. QED
    BY <2>2, <2>3
<1>2. ASSUME NEW id \in Ids, MarkDirty(id) \/ Update(id)
      PROVE  Ends(q)'
  <2>1. sessions' = sessions /\ damaged' = damaged /\ LogOf(q)' = LogOf(q)
    BY <1>2, <1>s DEF MarkDirty, Update
  <2>. QED
    BY <1>m, <2>1, EndsKept
<1>3. ASSUME NEW id \in Ids, Delete(id)
      PROVE  Ends(q)'
  <2>1. q # id
    BY <1>3, <1>t DEF Delete, TypeOK
  <2>2. sessions'[q] = sessions[q] /\ q \notin damaged
    BY <1>3, <1>t, <2>1 DEF Delete, TypeOK
  <2>3. LogOf(q)' = LogOf(q)
    BY <1>3, <1>t, <2>1 DEF Delete, DropQueue, LogOf, Readable, Migratable,
                           Loadable, TypeOK
  <2>. QED
    BY <1>m, <2>2, <2>3, EndsKept
<1>4. ASSUME NEW id \in Ids, AppendMessage(id)
      PROVE  Ends(q)'
  <2>1. damaged' = damaged
    BY <1>4 DEF AppendMessage
  <2>2. CASE q # id
    <3>1. sessions'[q] = sessions[q] /\ LogOf(q)' = LogOf(q)
      BY <1>4, <1>t, <2>2 DEF AppendMessage, Enqueued, disk, LogOf, Readable,
                             Migratable, Loadable, TypeOK
    <3>. QED
      BY <1>m, <2>1, <3>1, EndsKept
  <2>3. CASE q = id
    <3>1. sent' \in Messages /\ sessions[q] \in Log /\ queue[q] \in Log
      BY <1>4, <1>t, <2>3, LongerSession DEF AppendMessage, InMemory, TypeOK
    <3>2. Readable(q) \in Log /\ Readable(q)' = Readable(q)
      BY <1>4, <1>t, OldLog DEF AppendMessage, disk, Readable, Migratable,
                               Loadable, TypeOK
    <3>3. /\ sessions'[q] = Append(sessions[q], sent')
          /\ queue'[q] = Append(queue[q], sent')
      BY <1>4, <1>t, <2>3 DEF AppendMessage, Enqueued, TypeOK
    <3>4. LogOf(q)' = Append(LogOf(q), sent')
      <4>1. Readable(q) \o Append(queue[q], sent')
              = Append(Readable(q) \o queue[q], sent')
        BY <3>1, <3>2, AppendToConcat
      <4>. QED
        BY <3>2, <3>3, <4>1 DEF LogOf
    <3>5. PICK p \in Log : LogOf(q) = p \o sessions[q]
      BY <1>4, <1>m, <2>1, <2>3 DEF AppendMessage, InMemory, Ends
    <3>6. p \o Append(sessions[q], sent') = Append(p \o sessions[q], sent')
      BY <3>1, AppendToConcat
    <3>7. LogOf(q)' = p \o sessions'[q]
      BY <3>3, <3>4, <3>5, <3>6
    <3>. QED
      BY <3>7 DEF Ends, Log, Messages
  <2>. QED
    BY <2>2, <2>3
<1>5. CASE AppendTimer \/ FlushTimer
  <2>1. /\ up /\ up' /\ \E fails \in BOOLEAN : FlushQueues(fails)
        /\ sessions' = sessions /\ queue' = NoQueues /\ cut' = cut
    BY <1>5 DEF AppendTimer, FlushTimer, Flush, KeptQueues
  <2>2. q \notin damaged /\ jsonl'[q].lines = jsonl[q].lines \o queue[q]
    BY <2>1 DEF FlushQueues
  <2>3. Readable(q) = jsonl[q].lines
    BY <1>c, <2>1, ReadableUp
  <2>4. Readable(q)' = jsonl'[q].lines
    BY <1>c, <1>t, <2>1 DEF NoMigrationPending, Readable, Migratable
  <2>5. LogOf(q)' = jsonl'[q].lines \o <<>>
    BY <2>1, <2>4 DEF LogOf, NoQueues
  <2>6. jsonl'[q].lines \in Log
    BY <1>t DEF TypeOK
  <2>7. LogOf(q)' = LogOf(q)
    BY <2>2, <2>3, <2>5, <2>6, EmptyConcat DEF LogOf
  <2>. QED
    BY <1>m, <2>1, <2>2, <2>7, EndsKept
<1>6. CASE Stop \/ Crash
  BY <1>6 DEF Stop, Crash, NoSessions
<1>7. CASE Load
  <2>1. queue'[q] = <<>>
    BY <1>7 DEF Load, IInv, NothingInMemory, NothingToWrite, NoSessions
  <2>2. jsonl'[q].lines \in Log
    BY <1>t DEF TypeOK
  <2>3. Readable(q)' = jsonl'[q].lines
    BY <1>7, <1>c, <1>t DEF Load, NoMigrationPending, Readable, Migratable
  <2>4. sessions'[q] = jsonl'[q].lines
    <3>1. CASE Migratable(q)
      <4>1. jsonl[q] = NoFile
        BY <1>c, <3>1 DEF NoMigrationPending, Migratable
      <4>2. jsonl'[q].lines = Old
        BY <1>7, <3>1, <4>1 DEF Load, MigratedLog, NoFile
      <4>. QED
        BY <1>7, <3>1, <4>2 DEF Load, Migratable
    <3>2. CASE ~Migratable(q)
      BY <1>7, <3>2 DEF Load
    <3>. QED
      BY <3>1, <3>2
  <2>5. LogOf(q)' = <<>> \o sessions'[q]
    BY <2>1, <2>2, <2>3, <2>4, EmptyConcat DEF LogOf
  <2>. QED
    BY <2>5, OldLog DEF Ends, Log, Messages
<1>8. ASSUME NEW id \in Ids, CrashInMigration(id)
      PROVE  Ends(q)'
  BY <1>8 DEF CrashInMigration, memory, IInv, NothingInMemory, NoSessions
<1>9. CASE UNCHANGED vars
  <2>1. sessions' = sessions /\ damaged' = damaged /\ LogOf(q)' = LogOf(q)
    BY <1>9, <1>s DEF vars, memory
  <2>. QED
    BY <1>m, <2>1, EndsKept
<1>. QED
  BY <1>1, <1>2, <1>3, <1>4, <1>5, <1>6, <1>7, <1>8, <1>9 DEF Next, Request

\* While no write of a session failed since the start and no crash cut its
\* migration, its files and its queue end with the conversation in memory,
\* whatever crashed, was deleted or failed for other sessions before.
THEOREM MemoryLogged == Spec => []MemoryIsLogged
<1>1. Init => NoMigrationPending /\ MemoryEndsLog
  BY MigrationInit DEF Init, NoSessions, MemoryEndsLog
<1>2. IInv /\ NoMigrationPending /\ [Next]_vars => NoMigrationPending'
  BY MigrationStep
<1>3. IInv /\ NoMigrationPending /\ MemoryEndsLog /\ [Next]_vars => MemoryEndsLog'
  BY MemoryEndsLogStep DEF MemoryEndsLog
<1>4. IInv /\ MemoryEndsLog => MemoryIsLogged
  BY EndsIsSuffix DEF IInv, MemoryEndsLog, MemoryIsLogged
<1>. QED
  BY <1>1, <1>2, <1>3, <1>4, Invariance, PTL DEF Spec

-----------------------------------------------------------------------------
(* What a start could read                                                 *)

Grows(id) == \E p \in Log : Readable(id)' = Readable(id) \o p

\* Something is written after a message whose line was cut just before its
\* newline.
RunsOn(id) ==
  /\ jsonl[id].end = "bare"
  /\ queue[id] # <<>> \/ id \in noted
  /\ \E p \in Log : Readable(id)' = Firm(id) \o p

\* What was readable of a conversation stays and is added to, unless the session
\* is deleted, its migration was cut or its last line had no newline; then all
\* but the last message stay.
ReadableGrows == \A id \in Ids \ cut' : Delete(id) \/ Grows(id) \/ RunsOn(id)

LEMMA SameGrows ==
  ASSUME IInv, NEW id \in Ids, Readable(id)' = Readable(id)
  PROVE  Grows(id)
<1>1. Readable(id) \in Seq(Messages) /\ <<>> \in Log
  BY OldLog DEF IInv, TypeOK, Readable, Log
<1>2. Readable(id) \o <<>> = Readable(id)
  BY <1>1, ConcatEmptySeq
<1>. QED
  BY <1>1, <1>2 DEF Grows

LEMMA FlushGrows ==
  ASSUME IInv, NoMigrationPending, up, NEW fails \in BOOLEAN, FlushQueues(fails),
         UNCHANGED legacy, NEW id \in Ids \ cut
  PROVE  Grows(id) \/ RunsOn(id)
<1>t. TypeOK /\ id \in Ids
  BY DEF IInv
<1>1. Readable(id) = jsonl[id].lines /\ Readable(id)' = jsonl'[id].lines
  BY DEF NoMigrationPending, Readable, Migratable
<1>2. jsonl'[id] \in Appended(id, fails)
  BY <1>t, FlushType
<1>3. CASE jsonl'[id] = jsonl[id]
  BY <1>1, <1>3, SameGrows
<1>4. ASSUME Made(id, jsonl'[id]), queue[id] # <<>> \/ id \in noted
      PROVE  Grows(id) \/ RunsOn(id)
  <2>1. PICK i \in {1, 2}, j \in 0 .. Len(queue[id]) :
          jsonl'[id].lines = Firm(id) \o SubSeq(queue[id], i, j)
    BY <1>4 DEF Made
  <2>2. SubSeq(queue[id], i, j) \in Log
    BY <1>t, Piece DEF TypeOK
  <2>3. CASE jsonl[id].end = "bare"
    BY <1>1, <1>4, <2>1, <2>2, <2>3 DEF RunsOn
  <2>4. CASE jsonl[id].end # "bare"
    BY <1>1, <2>1, <2>2, <2>4 DEF Grows, Firm
  <2>. QED
    BY <2>3, <2>4
<1>. QED
  BY <1>t, <1>2, <1>3, <1>4, AppendedPiece

LEMMA StepGrows == IInv /\ NoMigrationPending /\ [Next]_vars => [ReadableGrows]_vars
<1> SUFFICES ASSUME IInv, NoMigrationPending, Next, NEW id \in Ids \ cut', ~Delete(id)
             PROVE  Grows(id) \/ RunsOn(id)
  BY DEF ReadableGrows
<1>0. /\ id \in Ids /\ TypeOK
      /\ UNCHANGED <<meta[id], jsonl[id]>> /\ (id \in legacy' <=> id \in legacy)
           => Readable(id)' = Readable(id)
  BY DEF IInv, Readable, Migratable, Loadable
<1>1. ASSUME NEW k \in Ids, Create(k) \/ MarkDirty(k) \/ AppendMessage(k) \/ Update(k)
      PROVE  Grows(id)
  BY <1>0, <1>1, SameGrows DEF Create, MarkDirty, AppendMessage, Update, disk
<1>2. ASSUME NEW k \in Ids, Delete(k) \/ CrashInMigration(k)
      PROVE  Grows(id)
  <2>1. k # id /\ legacy' = legacy
    BY <1>2 DEF Delete, CrashInMigration
  <2>2. meta'[id] = meta[id] /\ jsonl'[id] = jsonl[id]
    BY <1>0, <1>2, <2>1 DEF Delete, CrashInMigration, TypeOK
  <2>. QED
    BY <1>0, <2>1, <2>2, SameGrows
<1>3. CASE AppendTimer \/ FlushTimer \/ Stop
  <2>1. up /\ (\E fails \in BOOLEAN : FlushQueues(fails)) /\ UNCHANGED <<legacy, cut>>
    BY <1>3 DEF AppendTimer, FlushTimer, Stop, Flush
  <2>. QED
    BY <2>1, FlushGrows
<1>4. CASE Crash
  BY <1>0, <1>4, SameGrows DEF Crash, disk
<1>5. CASE Load
  <2>1. cut' = cut
    BY <1>5 DEF Load
  <2>2. CASE Migratable(id)
    <3>1. jsonl[id] = NoFile
      BY <2>1, <2>2 DEF Migratable, NoMigrationPending
    <3>2. jsonl'[id].lines = Old /\ id \notin legacy'
      BY <1>5, <2>2, <3>1 DEF Load, MigratedLog, NoFile
    <3>3. Readable(id)' = Readable(id)
      BY <2>2, <3>2 DEF Readable, Migratable
    <3>. QED
      BY <3>3, SameGrows
  <2>3. CASE ~Migratable(id)
    <3>1. jsonl'[id] = jsonl[id] /\ (id \in legacy' <=> id \in legacy) /\ meta'[id] = meta[id]
      BY <1>5, <2>3 DEF Load
    <3>. QED
      BY <1>0, <3>1, SameGrows
  <2>. QED
    BY <2>2, <2>3
<1>. QED
  BY <1>1, <1>2, <1>3, <1>4, <1>5 DEF Next, Request

\* Besides a deletion there are two ways to lose what a start could have read: a
\* crash between the two writes of a migration (ReadableStays shows that it
\* does), and a write after a line that was cut just before its newline, which
\* takes that one message.  Every other crash, failing write, stop and start of
\* any session keeps it.
THEOREM OnlyCutsHide == Spec => [][ReadableGrows]_vars
<1>1. IInv /\ NoMigrationPending /\ [Next]_vars => NoMigrationPending'
  BY MigrationStep
<1>. QED
  BY <1>1, Invariance, MigrationInit, StepGrows, PTL DEF Spec
=============================================================================
