# TLA+ models of the ComfyUI Workflow Agent

The repository is a ComfyUI custom node with an agent server behind it. This
directory holds TLA+ specifications of the parts of the server, and of the Codex
agent it drives, that run concurrently or survive a crash, TLC configurations
that check them on small instances, and TLAPS proofs for any instance. Paths below
are relative to `src/sga_template/src/` unless they start with `src/`, and to
`src/sga_template/codex-rs/` where a paragraph is about Codex.

## 1. The system

| Part | State | Operations | Interacts with | What makes it hard | What makes it correct |
|---|---|---|---|---|---|
| **Chat streams and approvals** (`server/routes.ts`, `interaction.ts`, `session.ts`) | `activeSSEConnections`, `activeAbortControllers` (per session id), `pendingResolvers` (per action), status and pending action of a session object | start a stream, send a message, ask, answer, abort, close, delete | session store, agent loop, UI | handlers interleave at every `await`; close callbacks fire late; two runs on one session | an answer reaches exactly the run that waits for it; abort finds the run; nothing stays registered for ever |
| **Session store** (`server/session-store.ts`, `main.ts`) | sessions in memory, dirty set, append queues, `meta.json`, `jsonl`, legacy files | set, delete, append, mark dirty, flush timers, start, migration, stop | chat streams, file system | crash at any point, failing and cut writes, two kinds of file per session | an append-only log per session; what is in memory is found again |
| **Codex backend** (`agents/codex-backend.ts`, `codex/process.ts`, `codex/jsonrpc.ts`) | current process, provider key, restart counter, `stopping`, pending requests, proxies | start, stop, message, exit handler, kill | subprocess, provider proxy, agent switch | start and stop run through many awaits without a lock; exits at any moment | one process and one proxy; a crash is noticed; a message ends |
| Backend registry, SGA backend (`agents/registry.ts`, `sga-backend.ts`) | active backend | switch, start, stop, export and import of a handoff | Codex backend, handoff store | switch against a running message | the active backend is started |
| Codex bridge, proxy, config (`agents/codex/*`) | turn state of the bridge | translate events and requests | Codex backend | events of another thread or turn | a turn ends once |
| Handoff and switch (`agents/handoff/*`, `routes.ts`) | bundle file per session, blackboard file, audit | export, start target, consume, import | both backends | one-shot file, read-modify-write with awaits | a bundle reaches its target once; no update is lost |
| Agent loop, circuit breaker (`agents/runner.ts`, `utils/circuit-breaker.ts`) | turn, messages, breaker state | call provider, call tool, ask, compact | providers, tools, chat streams | signal checks between awaits; half-open breaker | stops when aborted; breaker opens after its threshold |
| Tools and permissions (`tools/execution.ts`, `permissions/*`) | rules | check, classify, execute | agent loop | order of the checks | a denied tool is not called |
| Background tasks, agent tool (`tasks/manager.ts`, `tools/built-in/agent.ts`) | task table, notifications | create, complete, fail, kill | agent loop, coordinator | completion after kill | a task ends once |
| Coordinator, plans (`agents/coordinator*.ts`, `plan-manager.ts`) | process-wide flag, plan | begin, step, end | tasks | two runs, one flag | the flag is off when no coordinator runs |
| MCP servers (`mcp/*`, `server/skills-mcp-routes.ts`) | client and status per server | register, connect, disconnect, refresh | tools | operations on one server overlap | one client per server, closed in the end |
| Providers, UI provider configurations | registry, JSON files | register, call | agent loop | network errors | – |
| Memory, team mailbox, skills, hooks, gates, telemetry, cost | registries and files | – | agent loop | – | – |
| ComfyUI adapters, diagnostics | files, none | parse, report | UI | – | – |
| Python bootstrap (`src/__init__.py`) | restart times, install lock | install, supervise | the server | two installers; crash loops | at most three restarts in five minutes |
| UI (`src/ui`) | – | sends requests, polls `isActive` | all of the above | goes away at any time | it is the environment here |
| **Codex memory pipeline** (`state/src/runtime/memories.rs`, `memories/write`) | tables `jobs`, `stage1_outputs`, `threads`; a workspace under git | scan, claim, extract, succeed, fail, consolidate, heartbeat; delete a thread, reset | state database, consolidation agent | startups of several processes share only the tables; leases run out; a crash leaves rows and files | a memory is of the version that is done; a deleted thread has none; one consolidation at a time |
| **Codex app-server request layer** (`app-server/src`: loop, queues, gates, contexts) | queue per key, gate per connection, context per request | open, receive, queue, drain, run, close, clean up, stop | clients, the handlers | tasks race on a queue that empties, connections close under their requests | requests of a key in order; nothing runs or is kept after the cleanup; no request is forgotten |
| **Codex core turn lifecycle** (`core/src/tasks`, `core/src/session`) | the slot `active_turn`, the tasks of turns, mailbox flag | start, interrupt, replace, approve, finish, continue when idle, wake by mail | clients, guardian, goals | several starters and a finishing task share a slot across awaits | a live task is the one in the slot; a turn ends once; nothing makes up a verdict |
| Codex app-server thread lifecycle (`app-server/src/request_processors`, `thread_state.rs`) | listeners and subscriptions per thread | start, resume, subscribe, unload | the three above | unload against resume and against a new listener | a subscribed thread has a listener |
| Codex, the other crates (`src/sga_template/codex-rs`) | – | TUI, CLI, protocol, sandbox, exec, … | – | – | – |

The parts in bold are modelled; the others are listed in `PROJECT.json` with the
reason they are not, and section 7 says which come next.

Node runs one callback at a time and switches only at an `await`. In the modules of
the server an action is one such segment: from one await to the next, with everything
the code does on the way. The parts of Codex are tasks of tokio on several threads,
and processes beside each other. There an action is a transaction of SQLite
(`MemoryJobs`), what is done under one lock (`RequestQueues`), or the work up to the
next place where another task can take the lock (`TurnTasks`).

## 2. Modules

| Module | What it is |
|---|---|
| `ChatStream` | handlers of `routes.ts` that start, answer, stop and delete agent runs |
| `AgentRuns` | the abstract specification `ChatStream` implements: one life per request |
| `ChatStreamProofs` | theorems about `ChatStream` |
| `SessionStore` | memory, queues, files, timers, start, stop, crash |
| `DurableLog` | the abstract specification `SessionStore` implements: a log per session whose beginning is durable |
| `SessionStoreProofs` | theorems about `SessionStore`, the refinement among them |
| `CodexBackend`, `CodexBackendProofs` | start, stop, crash and restart of the Codex subprocess, and messages sent to it; theorems about them |
| `OneProcess` | what `CodexBackend` implements while starts do not overlap: one process after the other |
| `MemoryJobs`, `MemoryJobsProofs` | claims, leases and the consolidation of the memory pipeline of Codex; theorems about them |
| `MemoryVersions` | what `MemoryJobs` implements: each version of a thread extracted once, in order |
| `RequestQueues`, `RequestQueuesProofs` | queues, gates and cleanup of the app-server; theorems about them |
| `OrderedExecution` | what `RequestQueues` implements: one schedule of the requests |
| `TurnTasks`, `TurnTasksProofs` | starting, aborting and finishing turns in a Codex session; theorems about them |
| `TurnLifecycle` | what `TurnTasks` implements when finishing tasks are prompt: one turn at a time |
| `MC...` | instances for TLC (symmetry sets); one `.cfg` per run |

An operator whose name ends in `Bug` is a mutation of the operator below it, a
plausible mistake that the checks must notice (`PatientBug` of `EndAbort`: an
abort that waits for a task without its 100 ms limit). No action uses one.

The modules do not share variables: they meet at the boundary of a process. The
server starts and kills the process in whose app-server `RequestQueues` and
`TurnTasks` live (`CodexBackend`), and the handler of `turn/start` submits an
operation to the loop of `TurnTasks` and starts a worker of `MemoryJobs`.

### ChatStream

`sse` and `ctrl` are the two maps of `routes.ts:59`. `store`, `status` and
`pendingAction` are the sessions: an object is named after what made it, since a run
keeps its object when the session is deleted and another takes its id.
`pendingResolvers` is the table of `interaction.ts`. Per request, `pc` says which
await its handler is at:

| `pc` | await |
|---|---|
| `preparing` | `ensureSgaProvider` in `handleComfyUIChatStream` |
| `opened` | the rest of the preparation, the session being in the store |
| `running` | inside `runAgent`: a provider call or a tool that needs no approval |
| `waiting` | the promise of `requestApproval` or `requestHumanInput` |
| `tool` | a tool call that was approved |
| `ended` | the handler returned |

`route` is the branch: `direct` and `auto` of `handleStreamResponse`, `coordinator` of
the chat stream, `json` of `handleSendMessage` without `stream`. (The branch of a
session whose agent definition is missing has the effects of `auto`.) `closers` are
the close events still to come; `ConnectionClosed` is `onConnectionClose`, which acts
on the map entries of the session id, whoever owns them by then. `userAllowed` and
`granted` are history, and so is `restored`: a session that is there at the start was
loaded from disk, with any status of `Loaded` (a session is saved with whatever status
it has) and without pending action or resolver; `restored` are those that report
`waiting_input` since then.

`AgentRuns` keeps of this one `stage` per request, the runs that were told to stop and
the requests whose response was ended. The refinement mapping reads the stage from `pc`,
"stopped" from the controller a run holds, and "told" from `ended`. It does not say whom
an abort reaches: the map may name another controller than the one that runs, which is
what `chat_inactive` shows. It does say that a run which was stopped before it began
does not begin, that none asks for an approval afterwards (a tool may still ask for
input), and that one which is over is not stopped.

### SessionStore and DurableLog

One action per method (`Create` is `set`), one per timer, and `Stop`, `Crash`, `Load`
and `CrashInMigration`. `FlushQueues` is `flushAppendQueues`: for each session all of
the queue is written, or, in a flush that fails, any beginning of its bytes, and the
queue is dropped either way. `jsonl[id]` has the messages that can be read and how the
file ends: with a newline (`ended`), with a line that has none but is complete and can
be read (`bare`), or with anything else that yields no message (`unread`). What is
appended to a file without a final newline runs on in its last line: what is first in
the queue is lost, and the message of a `bare` line with it. `FlushMeta` rewrites the
metadata of the dirty sessions; a write that fails leaves the session dirty and perhaps
a file that cannot be parsed. `Load` is `loadAllFromDisk` with the migration of legacy
files. Of the metadata the model keeps whether they can be read, and in `stale` the
sessions whose usage or status changed while they were not dirty. Nothing reads the
lines of usage and status in the log; the model only knows that there are some in a
queue (`noted`), since such a line may be the one that runs on in an unfinished line, in
the place of a message. `faults` counts crashes and failing flushes, up to `MaxFaults`.
`damaged` and `cut` are history: the sessions with an incomplete write since the start,
and those whose migration a crash cut short.

`DurableLog` knows of none of this. A log is extended at its end; its volatile part
becomes durable in order, or loses a piece at one of its ends (`Settle`); a deleted log
is empty. What is durable stays, except a last message that is `loose`: the next
settlement that writes to the log takes it. The refinement mapping takes for the durable
log what a start would read, for the log that and the queue, and for the loose ones the
files that end `bare`. The implementation ends where a crash cuts a migration
(`store_migration` shows what happens then). The other modules are mapped without such
an end.

### CodexBackend

A thread is whatever runs `start()`: a request, or the exit handler of a process.
`launch[t]` is the process that thread is starting (its local `proc` and `proxy`),
`on[t]` the one it waits for or talks to.

| `pc` | await |
|---|---|
| `killing`, `closing` | `stop()`: `kill()`, `proxy.close()` |
| `proxying` | start of the provider proxy and its configuration |
| `handshake` | the answer to `initialize` |
| `cleaning` | `kill()` after a failed handshake |
| `dropping` | the exit handler: `proxy.close()` |
| `opening`, `turn`, `running` | `sendMessage`: `thread/start`, `turn/start` sent, accepted |
| `lost` | `sendMessage` polls, its `turn/start` having gone to a dead process |
| `hung` | a promise nobody settles: a request to a dead process, or `kill()` of a process that a signal has ended |

`Exit` may happen to any process at any moment, with code 0, another code or a signal.
`Overlap` says whether a request may begin while a start is under way. The code does
not prevent it; without it the module shows what start, stop and the exit handler
guarantee among themselves.

In that case it implements `OneProcess`, which knows the processes that run, those that
ran and the one messages go to: one is launched only when none runs and the one before
was given up. `ended` is mapped to the processes with an exit code or a signal.

### MemoryJobs

A worker is one run of `start_memories_startup_task`. It claims a thread, and the
global job, at most once, so the worker stands for the `ownership_token` of its
claim. `job`, `output` and `global` are rows of SQLite, `None` where there is none;
`inputs`, `edited` and `baseline` are the workspace: the memories written into it,
whether anything else in it changed, and the last commit of its git repository. `agents`
are the workers whose consolidation agent runs. It is a session of its own: when a
heartbeat fails, the worker gives up and releases the lock, and only then a task of its
own shuts the agent down (`memories/write/src/phase2.rs`, 434 to 448 and 505 to 511). The
agent goes on until then.

| Actions | Code |
|---|---|
| `Prune`, `Scan`, `Claim` | `phase1::prune`, the query and the claim transaction of `claim_stage1_jobs_for_startup` |
| `ReadRollout`, `Succeed`, `SucceedNoOutput`, `Fail` | `phase1::sample` and the transaction of its result |
| `ClaimGlobal` to `FailGlobal` | `phase2::run` and its agent, with the heartbeats |
| `AgentStops` | `shutdown_consolidation_agent`, or an agent that is done before |
| `Crash` | the process ends between any two of these |
| `Touch`, `Pollute`, `DeleteFile`, `DeleteMemory`, `DeleteRow`, `ResetRows`, `ResetFiles` | turns, pollution, `thread/delete` and `memory/reset` |

`Calm` says that no `memory/reset` comes during a consolidation and that no lease
runs out under one (heartbeats are 90 seconds apart, a lease lasts an hour).
`OneConsolidation` and `SelectedInBaseline` are meant for that case.

`MemoryVersions` has no jobs, leases or workers: of each thread the version that is
there, the one extracted last (`success` of the job's row), the one there is a memory of
(`source` of the output's row), and whether it is forgotten. A step that extracts needs
a version later than the last. The consolidation changes nothing of this.

### RequestQueues

`phase` is where a request is: `queued` under its key, `taken` by the task that
drains it or by a task of its own, `running` behind the gate of its connection,
`done`, or `dropped` at the gate. A drain task has the name of the request that
spawned it; `batch` is what it took last. `conn` is what the loop knows of a
connection: after `closed` its cleanup task waits for the handlers, at most
`CONNECTION_RPC_DRAIN_TIMEOUT`, and makes it `gone`. `late` records the timeout.

`OrderedExecution` has neither queues nor drain tasks, only the requests in the order of
their arrival and the connections whose gate is closed. A request begins when every
earlier one of its key is over, or together with shared reads in a row, and then with
all of them. `request` and `phase` are the implementation's own variables; `closed` is
mapped to the gates that accept no more.

### TurnTasks

`slot` is the `turn_state` in `active_turn` and `task` the turn of the `RunningTask`
in it. The loop of submissions, the guardian and the goal extension are the processes;
`job[p].at` is the place in the code where one of them is:

| `at` | place |
|---|---|
| `taking` | `abort_all_tasks`, before the slot is taken |
| `waiting`, `aborted` | `handle_task_abort`, the 100 ms; `clear_pending` after it |
| `waking`, `reserving` | `maybe_start_turn_for_pending_work` |
| `reserved` | `try_start_turn_if_idle`, after its reservation |
| `starting`, `setting` | the two parts of `start_task` that lock the slot |

`pc` is where the task of a turn is; between `checked` and `finishing` it has looked
at its token and not yet taken the slot. `Prompt` is an assumption on timing: no
other turn sets its task in that window. Section 4 says what happens without it.

A fourth starter is not modelled: `route_realtime_text_input`
(`core/src/session/mod.rs:1169`, called by the fan-out task of a realtime conversation
in `core/src/realtime_conversation.rs:1051`) does the steps of the loop
(`user_input_or_turn_inner`) in a task beside it, as the idle process and the guardian
do theirs.

`TurnLifecycle` has a stage per turn and the number of its terminal events. The stage is
read from where its task is: active while it is the task in the slot, `aborted` when it
left the slot cancelled, `finished` when it took itself out, `dropped` when another was
set in its place. A turn that left is answered no more and gets at most one event.

## 3. Runs

| Run | Instance | Result |
|---|---|---|
| `chat_stream` | 1 session id, absent, loaded as active or loaded as waiting; 2 requests, 1 approval each, 1 human input after it | passes; 3.8 million states |
| `chat_inactive` | the same | `InactiveMeansNoRun` is violated |
| `chat_abort_waiting` | 1 request, fairness | `AbortedRunEnds` is violated |
| `session_store` | 2 ids, 2 messages, 2 faults (crashes or failing flushes) | passes, refinement included; 630 thousand states |
| `store_stop` | 1 id, 1 message | `StopSavesUpdates` is violated |
| `store_migration` | 1 id, 1 message, crash inside a migration | `ReadableStays` is violated |
| `codex_backend` | 3 processes, 2 requests, 2 providers, restart limits 0 and 1, no overlap | passes; 1.1 million states |
| `codex_overlap` | 2 processes, overlap | `NoOrphan` is violated |
| `codex_crash` | 2 processes, 1 request, fairness | `CrashEndsMessage` is violated |
| `memory_jobs` | 2 threads (one may be deleted), 2 startups, 1 claim each, leases of 2, clock to 2, calm | passes; 2.2 million states |
| `request_queues` | 2 connections, 1 key, 3 requests, fairness | passes; 1.3 million states |
| `turn_tasks` | 3 turns, prompt, fairness | passes; 590 thousand states |

**chat_stream.** Two requests on one id are what the shared maps and the session object
can confuse: replace, close, abort and delete happen between any two segments. A third
would meet them in the same way, a second session id shares nothing with the first but
the resolver table, whose keys carry the request; the proofs cover any number of both.
One approval per run suffices for an answer to arrive when the run waits, waits for
something else, or has ended. The run shows that the resolver table and the waiting
runs agree (`ResolverIffAwaited`); that a session which reports `waiting_input` can be
answered, unless it was loaded so (`WaitingIsAnswerable`; section 4 says what becomes of
those); that no tool is called without the user's `allow`
for that action, although the kind of an answer is taken from the session and not from
the action (`GrantedOnlyByAllow`); that no registered controller is aborted
(`RegisteredIsLive`); that a registered response will be dropped
(`RegisteredResponseIsDropped`); that every way out ends the response
(`FinishedMeansEnded`); and that all of it implements `AgentRuns` (`AgentRunsSpec`).

**session_store.** Two ids are needed because one flush writes several logs and may
fail for some; two messages show order and loss at both ends of a queue, and a readable
line without its newline with a second message that spoils it; two faults are the cut
write and a crash or another failing flush after it, and the stops and starts around them
are not bounded. Besides
the refinement (`DurableLogSpec`), what the server works on is the end of what it will
find (`MemoryIsLogged`), each session is saved or dirty (`SessionIsSaved`), and nothing
is left to write for a deleted one (`NothingToWrite`).

**codex_backend.** Three processes are a first one, its successor and one more start
after that; two requests and two providers give every change of provider while a message
runs. With one start at a time no process is left behind (`NoOrphan`), no proxy
(`ProxyOwned`), and a process that crashed does not stay the current one
(`CrashIsNoticed`), in every order of exits, failed handshakes and failed spawns (a start
that hangs in `kill()` counts as the holder of its proxy for ever); and
the whole implements `OneProcess` (`OneProcessSpec`).

**memory_jobs.** Two startups are what a claim and its takeover need: one loses its
lease, the other claims the same thread with a newer version and either finishes first.
With one claim per startup `RunningCap` is at its limit all the time. A lease of 2 and a
clock that goes to 2 let it run out once, which is when a token, a retry and a heartbeat
decide something; a second round would start from rows of the same kinds. No more than
the cap hold a lease (`RunningCap`); a memory is of the version that the job calls done,
so a late worker neither stores an old memory nor marks a newer version as done
(`OutputIsDone`); the row of a deleted thread's memory stays forgotten, although scans,
claims and extractions under way outlive it (`DeletedStaysForgotten`; the files of the
workspace keep the memory until the next consolidation); one consolidation works in the
workspace at a time, and beside it no agent but that of a consolidation that gave up
(`OneConsolidation`, where those agents are `Dismissed`); and what is marked as
consolidated is in the git baseline, so that forgetting it shows in the next diff
(`SelectedInBaseline`). The rows implement `MemoryVersions` (`MemoryVersionsSpec`).

**request_queues.** Three requests are a task that drains, one that arrives as the
queue empties, and one behind it; they suffice for a batch of shared reads with an
exclusive request before or after it. Two connections share the key, and one closes
under the other's requests. A second key would share nothing with the first; the proofs
cover it. Requests of a key run in order and alone, but for shared reads in a row
(`InOrder`); after the cleanup of a connection nothing of it runs
(`QuietAfterCleanup`) and no context of it is left (`NoContextLeak`); no request waits
for ever in a queue whose task is gone (`EveryRequestEnds`, if handlers end); a
cleanup comes even when they hang (`CleanupComes`); and queues and gates implement
`OrderedExecution` (`OrderedExecutionSpec`).

**turn_tasks.** Three turns are one that is aborted or finishing, one that replaces it,
and one that another process starts meanwhile; each of the three processes can be
in the middle of its work then. A task that is not cancelled is the one in the slot
(`Owned`); a turn has one terminal event (`EndsOnce`); an approval that a task waits for
can be answered (`Answerable`); the slot is never left without a task and without
anybody who will fill or empty it (`NoStuckSlot`); an abort makes up no verdict
(`NoMadeUpVerdict`); an aborted turn ends, whatever its task does (`AbortEnds`); and
slot and tasks implement `TurnLifecycle` (`TurnLifecycleSpec`).

Deadlock is not checked where the system may stop: when all requests of the instance
are over or hang, when all processes of the bound are used up, when the app-server has
stopped, and when all turns are over and nobody submits. `SessionStore` and
`MemoryJobs` never stop: a store can always be started or flushed, and a thread
deleted, polluted or reset.

## 4. Where the code differs from what is said of it

- `chat_inactive` (`server/routes.ts:3281`). `onConnectionClose` drops the entry of the
  session id whoever registered it. A second request replaces the first one and
  registers its controller; then the close event of the first arrives and removes it.
  The run goes on, `isActive` is false, and the abort handler answers "No active agent
  running for this session".
- `chat_abort_waiting` (`server/routes.ts:869`). The promise of an approval has no
  abort listener. An aborted run that awaits one stays there, with its resolver and the
  session's `waiting_input`, until somebody answers.
- `store_stop` (`server/session-store.ts:109`). `sga_template/docs/backend-service.md`
  says that changes of the status go to the metadata and that a shutdown leaves the data
  complete. `appendUsage` and `updateStatus` queue a log line that is never read and do
  not mark the session dirty.
- `store_migration` (`server/session-store.ts:300`). The same document promises crash
  safety. A migration writes the metadata before the log, and a start does not look at
  the legacy file of a session whose metadata it found: a crash in between hides the
  conversation.
- `codex_overlap` (`agents/codex-backend.ts:126`). The header says `start() ->
  subprocess + initialize (once)`. The fields that would prevent a second start are set
  when the handshake is over.
- `codex_crash` (`agents/codex/process.ts:173`). The header says that a crash ends
  `sendMessage`. It does when a request is pending. It does not when a signal ends the
  process before `kill()` is called, which waits for an exit event that has been; and,
  were that repaired, it would not once `turn/start` was accepted
  (`agents/codex-backend.ts:447`), which is the next trace the run finds.

Other differences are not reported by a run of their own: a property is stated with the
exception they make, or they lie just outside the module. In the server:

- A session that was saved while it waited for an answer comes back as `waiting_input`
  (`server/session-store.ts`, 253 to 262) without pending action and resolver. Messages
  to it are refused (`server/routes.ts:296`) and so is every answer
  (`server/routes.ts:3838`, 3843), although `backend-service.md` says that a restart
  restores all sessions; only a chat stream of the session that asks again, and is
  answered, or deleting it ends this. `WaitingIsAnswerable` excepts such sessions
  (`restored`), and TLC violates it as soon as it does not.
- A write that is cut between the end of a line and its newline leaves a message that
  the next start reads and shows. The line appended after it runs on in the same line
  (`server/session-store.ts:189`) and the start after that can parse neither (325 to
  345): a message that survived one crash is lost without another, although
  `backend-service.md` promises that appending to JSONL is safe against crashes.
  `DurableLog` calls such messages `loose`; no other durable message is lost.

In Codex:

- `memories/README.md` says that the pipeline runs when a session starts. The app-server
  starts it at every turn (`app-server/src/request_processors/turn_processor.rs`, near
  line 488); the claims make that harmless, which is what `memory_jobs` shows.
- The same document says that one consolidation at a time inspects or mutates the
  workspace, thanks to the lock. After a heartbeat that could not be written
  (`memories/write/src/phase2.rs`, 505 to 511) the lock is released first (434) and the
  agent shut down afterwards, by a task that takes up to ten seconds (438 to 448). When
  something enqueues a consolidation meanwhile, which clears the retry delay, another
  startup claims it and works beside that agent. `OneConsolidation` excepts these agents
  (`Dismissed`), and TLC violates it as soon as it does not.
- With `Calm` false TLC finds two consolidations at a time: `memory/reset` deletes the
  row of the global job under a consolidation, and the next startup claims it anew.
- `start_task` asserts in debug builds that it finds no task in the slot
  (`core/src/tasks/mod.rs`, 357 and 370). A turn started by the idle path or for pending
  mail can set its task in between; in a release build that task is dropped and
  its turn has no terminal event. `EndsOnce` says at most one for this reason.
- With `Prompt` false TLC finds `Owned` and `EndsOnce` violated: `on_task_finished`
  takes the task it finds in the slot (`core/src/tasks/mod.rs:582`), which may be that of
  the turn that replaced it. It takes an abort that waits its 100 ms, and a start, to
  fit between two statements of the finishing task.
- Mail that comes while the slot is taken, after the running turn looked for mail for the
  last time and before it empties the slot, is not waked for
  (`core/src/tasks/mod.rs:479`); the next operation finds it.
- `inject_if_running` takes input for an active turn that has no task yet
  (`core/src/session/inject.rs`, 19 to 36). If that turn is given up, the input is lost.

## 5. Fairness

Safety is checked without fairness. `ChatStream!FairSpec` has weak fairness on the
handler of each request: Node resumes a handler when what it awaits has settled, and
provider calls and tools do settle, with an answer, an error or a timeout. No user owes
an answer, no client owes a request, so these actions have none.
`CodexBackend!FairSpec` has weak fairness on the continuations of `start()` and of the
exit handler and on rejected requests; it assumes nothing of codex, of the user or of
exits. A temporal property is refuted under these assumptions only.

`RequestQueues!Spec` has weak fairness on what a task of the runtime does by itself
(take a batch, retire, pass the gate) and on the cleanup with its timer. That a
handler ends is not assumed: it is the hypothesis `HandlersEnd` of `EveryRequestEnds`,
and `CleanupComes` holds without. `TurnTasks!Spec` has weak fairness on each process in
the middle of its work and on a task that has finished: tokio resumes both. Clients,
models and tools owe nothing. `MemoryJobs` has safety properties only: whether a startup
ever comes is up to the user.

## 6. Proofs

`tlapm` checks all proofs with SMT, Zenon and LS4. Each of the six modules has, besides
its invariants, a theorem that it implements its abstract specification (`Implements`):
an invariant holds of the initial states, every step keeps it, and under it every step is
a step of the abstract specification or leaves its variables alone.

**ChatStreamProofs**, from `SeparateNames`, `AsksAssumption`, `LoadedAssumption` (sessions
are loaded with statuses there are) and `NoneAssumption` (names of things of different
kinds differ). The inductive invariant `IInv` is
`TypeOK`, `ResolverIffAwaited`, `WaitingIsAnswerable` and `RegisteredIsLive` with three
additions that none of them is inductive without:

- `RunState` ties `pc` to what a handler holds: a running handler has an object and a
  branch, a waiting one awaits an action of its own with its current number.
- `OwnRegistration`: what is registered under an id was registered by a request for that
  id, a second controller only by one whose run has begun, and a response only by a
  request whose run goes on or whose response is still to close.
- `FreshControllers`: the controllers a request has not made yet are neither
  registered nor aborted. Without it a new stream could register a dead controller.

`GrantedOnlyByAllow`, `RegisteredResponseIsDropped` and `FinishedMeansEnded` follow by a
step argument of their own on top of `IInv`. The theorems hold for any number of
sessions, requests and approvals. `Implements` needs `Lives` in addition: only a run that
goes on holds a controller (so none that is over can be stopped), and only a request
that came has its response ended.

**SessionStoreProofs**, from `BoundsAssumption` and `NoneAssumption`. `IInv` is
`TypeOK`, `NothingInMemory` (a process that is down has no sessions, no dirty ids and
empty queues), `SessionIsSaved` and `NothingToWrite`. The refinement `Implements` needs
`NoMigrationPending` in addition (a legacy file whose migration no crash has cut exists
only before the first start, and neither metadata nor a log beside it). From both
follows `MemoryEndsLog`, of which `MemoryIsLogged` is a consequence: what is logged is
something followed by the conversation in memory. `ImplementsLog` concludes that the
store implements `DurableLog` itself where no migration is ever cut. Each step of the
store is an append, a delete, a settlement or a stutter of `DurableLog`; a flush is a
settlement because each file gets a contiguous piece of its queue, after what is firm in
the file. `OnlyCutsHide` says where `ReadableStays` can fail: what a start would read of
a session is only extended, unless the session is deleted, a crash has cut its
migration, or a write runs on in a line that was cut just before its newline and takes
the last message, no more. Every other crash, failing write, stop and start keeps it. It
is stated with the set `cut`, so that a cut migration of one session excuses nothing
about another.

**MemoryJobsProofs**, from `ConstAssumption` and `NoneAssumption`, for any number of
threads and workers and any length of leases. `TypeInv` is `TypeOK` with
`RunningIsNeeded`: a job that runs has a retry left, without which a failure could count
below zero, and is for a newer version than the one that is done. `DataInv` carries
`OutputIsDone` and `DeletedStaysForgotten` by `ClaimIsOfRow`: a worker that owns a job
holds a claim of the version the row names, and has not read the file of a thread that
is forgotten. `RunningCap` is a counting argument of its own: a claim adds one to fewer
than `MaxRunning`, time only removes. Under `Calm`, `CalmInv` adds `LockIsHeld` (who
consolidates owns the lock with a lease that lasts), `ResetIsAlone` and
`WorkspaceIsChosen` (from the sync on the workspace holds what the worker chose, from
the commit on so does the baseline) and `AgentInv` (an agent that runs is that of a
worker who consolidates, or was dismissed); `OneConsolidation` and `SelectedInBaseline`
follow. `Implements` needs no calm. It takes `SeenVersions` besides `TypeInv` and
`DataInv`: no claim and no job is of a version that is still to come. That an extraction
is of a later version than the last then follows from `RunningIsNeeded` and from the
token: who lost its lease writes nothing.

**RequestQueuesProofs**, from `ConstAssumption` and `NoneAssumption`, for any number of
connections, keys and requests. `GateInv` is `QuietAfterCleanup` and `NoContextLeak`
with `GatesClose` (the gate of a closed connection is closed). `SerialInv` says why the
order is kept: a key has at most one drain task, and none when it is not in the map
(`TasksOwnKeys`), what is queued is in the queue of its key (`QueuedInQueue`) in the
order of arrival (`QueuesOrdered`), and what was taken and is not over is in the batch
of the task (`ActiveInBatch`). `ExclusiveIsAlone` follows from the order. `Implements`
adds `OpenGates` (a connection from which requests come has an open gate); from
`QueuesOrdered` and the batch it concludes that what a task takes is what may begin.
`WaitingIsServed` is the safety half of `EveryRequestEnds`: by `Served` a key in the map
has its task and what was taken does not wait, so a queued request has a task of its key
that looks at the queue next or waits for requests that are on their way.

**TurnTasksProofs**, from `ConstAssumption` and `NoneAssumption`, for any number of
turns. `TypeInv` and `SlotIsNotStuck` need no timing. Under `Prompt`, `TaskInv` is
`Owned` and `Answerable` with `TurnsFresh` (a number not given out yet is
nowhere), `AbortsOnce` (a task to be aborted is cancelled, has no event yet and is
aborted by one process), `StatesApart` (a state that a process holds for clearing is
neither in the slot nor held by another) and `SendersHeld` (who waits in a cancelled
task has its sender in the state its abort will clear); `EndsOnce` follows.
`VerdictsAreGiven` is an action property proved from it. `Implements` holds under `Prompt`
too and adds `FinishedOnce` (a task that took itself out of the slot was not
cancelled, and its event is sent before it goes on). `AbortIsOwed` is the safety half of
`AbortEnds` and needs no timing: a cancelled turn that has no event yet is in the hands
of a process that will send it.

**CodexBackendProofs**, from `ConstAssumption`, for any number of calls, keys,
processes and limits. `TypeCorrect` holds with and without overlap; it needs
`LaunchKnown`, that who starts has a process to start. When starts do not overlap,
`OneAtATime` is `NoOrphan` and `ProxyOwned` with three additions:

- `Alone`: one thread at most starts, stops or restarts. A handler may act on a crash in
  the middle of anything, so this needs the other two: while somebody starts, nothing is
  current; while somebody stops, `stopping` is set; and only the current process is
  both alive and watched.
- `ThreadsHold` says for each await what its thread holds and what is current then: a
  process not yet spawned has never run, `kill()` is awaited for the current one.
- `Lives`: a process goes through its life once, and its handler runs after its exit.

`CrashNoticed` adds `Settled`: the restart counter is zero whenever a process is current
and no restart is under way (so that the first crash finds a restart left), and
`stopping` is some thread's unless no restart is allowed. `Implements` adds `Apart` to
`OneAtATime`: no two threads start the same process, a thread that waits for ever holds
none that runs, and what is current has run.

Only model-checked: liveness (`EveryRequestEnds`, `CleanupComes`, `AbortEnds`), which
is out of reach for the prover (`WaitingIsServed` and `AbortIsOwed` are what can be proved
of two of them), and the violations. `Overlap` and `Prompt` are assumptions of single
theorems and not of the modules: with the one true or the other false the refinement
fails, for the reasons section 4 gives. Fairness is in no refinement; the abstract
specifications promise safety only.

## 7. What is left out, and what comes next

Left out of the modelled parts: reading handlers, `fork` and the stand-alone coordinator
route, workflow and configuration routes; texts, events and their order within a
response; failing `unlink` in `delete` (ignored by the code); a failing write inside a
migration without a crash; `turn/interrupt`, and the handoff of the Codex backend; a
spawn that fails after the `Codex` process was made and leaves it without a pid
(`codex/process.ts:102`). Of Codex: a handler that panics, which ends its drain task and
leaves the key in the map (`app-server/src/request_serialization.rs:199`), the forced
restart, and requests of the server to its clients; pending input, Plan mode and the
mailbox phase of a turn; usage counts and memory modes of the memories, which choose
among the threads (any choice is allowed in the model).

Not modelled at all: `unregister` during a connect (`mcp/manager.ts:50`), the breaker's
second recording of a failure (`agents/runner.ts:556`), the window of the supervisor
(`src/__init__.py:1374`), the coordinator's flag (`server/routes.ts:957`), the TUI and
the command line of Codex, its protocol types, sandboxes and execution. Codex is by far
the largest part of the repository (some 650,000 lines of Rust, vendored from upstream);
only the three parts above, where its concurrency and its recovery are, are modelled.

Planned, in this order:

1. `ThreadListeners`, the thread lifecycle of the app-server: unloading a thread against
   a resume and a new listener (`app-server/src/request_processors/thread_lifecycle.rs`,
   276–283, 354–380, 390–394, 406–456; `thread_state.rs`, 394–408), with what
   `app-server/README.md` (162, 462) promises of subscriptions as its specification.
2. `Handoff`: bundle file, audit and the switch handler with a backend whose start fails;
   the blackboard's read-modify-write. Abstract specification: a mailbox that delivers
   a bundle at most once and to its target.
3. `AgentLoop`: turns, signal checks, approvals and the circuit breaker, with the decision
   table of the permission checks as an operator; proof that nothing is called after a
   denial and that the loop is bounded.
4. `Tasks` (kill against completion, notifications, coordinator flag) and `McpManager`
   (connect, disconnect, unregister, refresh): one run for both.
5. `ServerRestart`, composing `ChatStream` and `SessionStore`: which statuses a stop and a
   crash leave on disk, where `ChatStream` now starts with any.
6. `Supervisor`: the sliding window of `src/__init__.py`.

Worth proving next for what there is: that a cleanup that is due has its task
(the safety half of `CleanupComes`); that with overlapping starts no more processes
run than starts were begun; and, once `ThreadListeners` exists, that a connection's
subscriptions end with its gate, which would join it to `OrderedExecution`.
