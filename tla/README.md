# A verification project for pieqi

pieqi is a Go server that lets a user start coding agents (Claude Code, Cursor
and others) from a phone or a chat, watch them, and approve what they want to
do. A *task* is a conversation with one agent in one work tree. The server runs
agents as child processes, keeps one session per task alive between turns, shows
the permission requests of the agent as decision cards, and keeps the tasks in
SQLite. Around that it plans requirements as graphs of tasks, serves previews,
opens a tunnel for the phone, runs chat bots, and replaces itself when a new
build is there.

This directory holds TLA+ models of that server, the configurations that check
them with TLC, and theorems about them whose proofs TLAPS checks. All paths
below are relative to `src/internal/` unless they begin with `src/`.

`PROJECT.json` lists the components, the runs, for each definition the source
lines it models, the hazards of the code with the properties that cover them,
the disagreements between code and comments that the runs exhibit, and a mutant
of the code for every property.

## 1. The system

### Components

| Component | State it keeps | Operations | Correct when |
|---|---|---|---|
| Turn queue (`core/turn_queue.go`) | per task: `busy`, `jobs` | push, drain, flush, submitTurn | one turn at a time, in order, none lost or stranded |
| Task lifecycle (`core/task_runner.go`, `soft_complete.go`, `api/tasks.go`) | the task: status, decision, events, session ids, work tree | start, resume, turns over a session or a process, complete, fail, cancel, delete | a live status has an owner; outcomes are final and earned; a cancel stops |
| Permission wire (`core/agent_perm.go`) | per session: pending, queue, displayed, settled, remembered approvals, timers | request, show, resolve, time out, advance, unwire | every request is answered once, as recorded; a card leads on |
| Agent manager (`agent/manager.go`) | sessions by task, a semaphore per project | Open, RunRich, Cancel, Close, CloseIdle, CloseAll | no slot and no process leaks; one prompt per session |
| ACP transport (`agent/acp*.go`, `session*.go`, `provider.go`, `model_catalog.go`) | process, pending permissions, prompt in flight; plans and modes; lists of models | start, prompt, retry, respond, die, close; decide a plan; list | requests end with the process, its death is told; nobody waits for ever |
| Print agent, Claude SDK bridge (`agent/print*.go`, `agent/claude/`, `src/services/claude-sdk-bridge/`) | a process per turn; or a Node service with sessions, streams and a timer | run; create, prompt, decide, cancel, close, reclaim | prompts return; what runs for Claude ends when the program has left it |
| Hook service (`core/hook.go`) | one pending decision per task | register, resolve, time out | a decision does not stay pending |
| Tool risk, recipes (`agent/*_kind.go`, `shell_*.go`, `toolkind_map.go`) | none | classify a command, a tool, an option | nothing risky passes as harmless |
| Streams of agent events (`core/agent_*.go`) | two buffers per session | append, flush, write, judge | what is said stands in the events, once |
| Self-restart (`core/selfrestart.go`, `restart_journal.go`) | binaries, journal, ready signal, the port | swap, spawn, hand over, roll back, resume | a runnable binary and a listener stay; live tasks are owned |
| Requirement plane (`core/dag_schedule.go`, `requirement_*.go`) | requirements, proposals, issues, planned tasks | confirm, expand, activate, open and verify issues, deliver | a task starts after its dependencies, and then does start |
| Event bus, websocket (`core/event_bus.go`, `api/ws.go`) | numbers, subscriptions, connections | publish, subscribe, snapshot, resync, ping | a connected client is told of every change |
| Feedback, checkpoints (`core/checkpoint.go`, `feedback.go`) | copies of files per turn | capture, rewind | a rewind restores what the agent changed, nothing else |
| Preview (`core/preview.go`) | one dev server per task | discover, start, probe, stop, restart, reap | a stopped server ends |
| Tunnel, access (`auth/`) | tunnel process, tokens, PID file; keys of the team, failures | start, stop, heal, renew; verify, count, block | a dead link is noticed; only those who guess are shut out |
| Bots and channels (`core/bots_store.go`, `bridge.go`, `larkchannel.go`, `larkreg/`) | records, credentials, running instances | create, scan, configure, delete, rebuild | what runs is what is recorded |
| Settings, persistence (`core/task_store.go`, `store/sqlite/`, `settings_store.go`) | an index in memory, rows, files of older versions | create, update, delete, load, migrate | what a call said is kept is kept |
| Titles, push, logging; web client (`src/web/`) | presentation | -- | -- |

### How they interact

A handler of `api/tasks.go` calls the task runner: `Start`, `ResumeRich`,
`Cancel`, and for a deletion `Cancel`, `CloseAgentSession` and
`TaskStore.Delete` one after the other. Start and ResumeRich do not run
anything: they push a closure on the task's turn queue, and the drain goroutine
of that queue runs it (`runACP`): make the work tree, find or open the session
through the agent manager, set its wires, set the task running, prompt, judge
the outcome, announce it. While the prompt runs, the agent calls back through
the wires: text and tool calls become events of the task, a permission request
becomes its decision. When a session closes, by anyone, the manager calls
`onAgentSessionClosed`, which removes the wires of the *task* and denies what
they still hold.

The other parts meet the task at few points: an agent is a process that speaks
ACP, a `claude -p` that calls back through the hook, or a session of the Node
bridge; what it sends goes through two buffers into the task's events; every
update of a task is published on the event bus, which feeds browsers, previews
and push messages; the outcome of a task feeds its requirement; and a
self-restart hands the running tasks, the port and the files to another process.

No lock spans two of these parts: the queue's mutex covers its two fields, the
manager's `mu` the table, a session's `runMu` its running flag, the wire's `mu`
its tables, the store's mutex one `Update`. The hard behaviours lie between:

* **interleavings** of the drainer, handlers, user cancels, deletion, the idle
  reaper, timers, agent callbacks, all on the same task;
* **check, then act**: a snapshot of the task, or a look at a session, that is
  used after the lock was let go;
* **crash and restart**: the store comes back, sessions and queues do not;
* **answers that race**: a user's decision, the timeout, the end of the session;
* **bounded slots** that sessions keep while they are idle;
* **liveness** that hangs on a prompt which no one but a cancel can end.

`PROJECT.json` lists each of them at its line, under "hazards".

## 2. Modules

| Module | Models | Uses |
|---|---|---|
| `SerialTurns` | what a turn queue promises: one line, one active turn | |
| `TurnQueue` | the queue at the grain of its mutex | refines `SerialTurns` |
| `TurnQueueProofs` | theorems about it | |
| `TaskLifecycle` | one task from creation to deletion, with everything that acts on it | `SerialTurns` as its queue |
| `TaskLifecycleProofs` | theorems about it | |
| `PermissionWire`, `MCPermissionWire` | the wire of one session; values for TLC | |
| `PermissionWireProofs` | theorems about it | |
| `AgentManager`, `MCAgentManager` | the sessions and slots of one project; values for TLC | |
| `AgentManagerProofs` | theorems about it | |
| `SelfRestart` | up to three processes that hand a service over, with failures | |
| `SelfRestartProofs` | theorems about it | |
| `Requirements`, `MCRequirements` | one requirement with proposals, tasks and issues; values for TLC | |
| `RequirementsProofs` | theorems about it | |
| `AcpSession` | the process of an ACP agent, its requests, and two layers above it | |
| `AcpPlan` | plans, modes and todos of the Cursor agent | |
| `ModelCatalog` | the list of models, one probe on behalf of all, two caches | |
| `PrintRun` | a task on the `claude -p` path, with the hook | |
| `ClaudeBridge` | a session through the Node bridge, on both sides of the wire | |
| `Streams` | what an agent says on its way into the task | |
| `ToolKinds`, `Commands` | the judgement of tools, options and shell commands | |
| `EventBus` | bus, websocket and the client's tracker of gaps | |
| `Preview` | the dev server or static page of one task | |
| `Checkpoints` | copies of files and rewinds | |
| `Tunnel`, `Access` | the tunnel process and its tokens; who is let in | |
| `Bots` | records, credentials and running instances of chat bots | |
| `TaskStore` | the store of the tasks, over its crashes and its older files | |
| `MCAgentServices` | one instance of each from `AcpSession` to `EventBus` | all of these |
| `MCHostServices` | one instance of each from `Preview` to `TaskStore` | all of these |
| `AgentServicesProofs`, `HostServicesProofs` | theorems about them | |

The composition is by abstraction where parts interact: `TurnQueue` is shown to
implement `SerialTurns`, and `TaskLifecycle` INSTANCEs `SerialTurns` rather than
the mutex and the goroutines. `TaskLifecycle` in turn knows a session by what it
is to its task (none, live, dead, with its wires) and a permission wire by
whether a request waits; `AgentManager`, `PermissionWire` and `AcpSession` hold
the detail. `SelfRestart` knows a task by its status and whether a turn runs for
it, and `Requirements` a task by its beginning and its outcome.

`MCAgentServices` and `MCHostServices` compose the others side by side. They share
no variable, so a behaviour in which two of them move is two behaviours; the
modules therefore let only one of them move, the one that `focus` names, and the rest stay in their
initial states (`Pinned` gives one to those that have several).
Each keeps its own fairness, on the left of what is claimed of it, so that no
assumption about one service helps another.

### TurnQueue

One step is one critical section of the mutex or what happens between two.

| Code | Model |
|---|---|
| `turnQueue.busy`, `.jobs` | `busy`, `jobs` (the turn each closure stands for) |
| a call of `push`, before and after its `go q.drain()` | `push[t]`; `Push`, `Launch` |
| the goroutine `drain` that push `t` launched | `drain[t]`, `job[t]`; `DrainTake`, `DrainExit` |
| the closure of `submitTurn` | `StartTurn`, `SkipTurn` (its task is gone), `EndTurn` |
| `flushTurns` | `Flush` |
| the value push returns | `ahead[t]`, beside the turns that really were in front, `front[t]` |

`fate` and `front` are history variables. One queue is modelled because queues
of different tasks share only the table they are found in.

### TaskLifecycle

The state of the task is in `task` (status; whether its events show a result,
or something a turn may not complete with; whether it has a work tree; which
session ids are stored). The drainer's place in the turn is `turn.pc`, whose
labels follow `runACP` and `runACPTurn`: look the task up, work tree, adapter,
open, wire, check, prompt, send, run, ended, judge, commit, tail, close,
unwire. `Close` is two steps, because the session leaves the table (`Detach`)
some time before the callback removes the wires (`Unwire`); the same two steps
serve the turn, a cancel, a deletion and the reaper. `wires = "past"` says that
the wires the task has were made for a session which is not the one registered.
`stop[c]` is the place of the handlers that cancel and that delete: they drop
the waiting turns, look whether there is a session (`isACPPath`), make the
transition, close. `resume[t]` is the place of the handler that submits turn
`t`: ResumeRich checks a snapshot and goes on with it.

What the agent says and asks is under way for a while. `said` is a report in the
buffers of the wires (`AgentReports`, later `Write`), `sent` a request whose
goroutine waits for the words of the tool call before it registers (`AgentAsks`,
later `Register`); the prompt may have returned in between, the turn been judged,
and the session closed. `turn.late` is history: what reached the task between the
verdict of the turn and its commit.

A `store.Update` is one step. `transition` is `Transition`, with its guard on
terminal statuses in `Guarded`; `forceFailTask` goes past it. `Crash` loses all
memory and applies to the status what `TaskStore.load` does (`Loaded`).

### PermissionWire

Three goroutines per request: the agent's callback (`<<"ask", r>>`), the handler
of a decision (`<<"solve", r>>`) and the timer (`<<"expire", r>>`). `show` is
two steps, the update of the task and the arming of the timer, and `advance`
runs in the goroutine that called it, up to `backToRunning` or to the `show` of
the next request. `answer` is what the agent was told, `settled` what the wire
recorded, `card` what the task shows. A kind stands for the fingerprint of a
request and for what an approval remembers. "Faults" are what the environment
may do: an adapter whose Approve or Deny fails, and a choice that was never
offered.

### AgentManager

A call opens a session for its task, prompts whatever session is registered,
and returns; a session bears the name of the call that opened it. `held` is the
number of values in the channel of the semaphore. `closing[s]` is the place of
`Close`: out of the table, interrupt, close the adapter, give the slot back.
The reaper looks (`ReaperPicks`) and closes (`ReaperCloses`) in two steps as
`CloseIdle` does. Calls of one task may be concurrent here: the manager is not
given the turn queue to lean on.

### SelfRestart

`disk` is the executable, the copy kept beside it and the staged build; `journal`
the handoff; `ready` the signal file; `port` who listens. `req[r].st` is the
place of the goroutine of a restart in the old process: `Backup`, `Install`,
`WriteHandoff`, `Spawn`, `Release`, `Await`, then `Exit`, or `GiveUp` with
`Rebind`. `proc[p].st` is the place of a start: `Boot` (journal, `load`),
`Resume` for each interrupted task, `Bind`, `Mark`. Operations on files and the
spawn may fail; every timeout may strike at any time. Turns begin and end in the
old process all the while, so that the snapshot in the journal grows stale. Nothing
in the code keeps a process from being asked again, after a restart of its own that
failed or while one is under way; `repeat` is history and says which has happened.

### Requirements

A thread is a request or the drainer of a task's turns; `thread[k].pc` is its
place, and each read and each `Update` is a step. `FixedBy`, `VerifiedBy`,
`Completed`, `Failed`, `Note`, `Spawn` are the feedback of an outcome;
`ReadyPlanned`, `StartReady`, `Activate`, `Pend` the schedule; `Confirm`,
`Expand`, `Replace` and their steps the three ways from a proposal to tasks.
`Create` is the loop that creates the tasks: the ids they get one after the other
are `FreshIds`, and a creation that fails leaves the tasks before it, some of
which may depend on one that never comes to be. Nodes name each other by their
place in the list; a name that is none is refused (`Valid`).

### AcpSession, AcpPlan, ModelCatalog

`process`, `done`, `exited` are the agent and what its two watchers have seen;
`layer`, `told`, `upDone` how far its death is known above; `ask[r]` the place of
the goroutine of a request, `pending` and `channel` the table it is in. `Close`
is five steps. A tool call may be asked about twice, which replaces the first
entry, as `RequestPermission` does.

In `AcpPlan` the `line` is the agent's standard output: one reading path takes
extension requests, answers and updates from it in order. A plan brings its own
list of todos, which replaces the remembered one. The agent may exit at any
time (`AgentExits`), which ends a card that is open (`AbandonPlan`); a switch of
mode may fail or run out of time (`ModeFails`), and its answer come later. In `ModelCatalog` a
caller answers from memory, from disk, joins a probe or leads one; days pass,
configurations change, the program restarts.

### PrintRun, ClaudeBridge

`PrintRun` follows `run` and `runClaude` through the process, its output and the
verdict, with the goroutines of `RegisterPending`, an answer, and a cancel.

`ClaudeBridge` has three parties: the Node service, one handler at a time
(`state`, `queue`, `pending`, `history`, the timer `Reclaim`); the SDK behind it
(`SdkPulls`, `SdkAsks`, `ResultArrives`, `SdkEnds`), which is external; and the Go
side (`opening`, `prompt`, `stop`, `fatal`, `gone`, the wait on the condition
variable with its look, sleep and broadcasts). A request, an answer or the
stream may be lost, and the bridge may die.

### Streams, EventBus

`Take` and `Persist` are the two halves of a flush, by the timer or by the end of
the turn; `turn` goes through the flush, the look at the task and the verdict.
In `EventBus` an update of the store, the number of its event and its delivery
are three steps of a publisher; `loop` is the place of the websocket's select.

### Preview, Tunnel, Access, Bots, Checkpoints

Goroutines that hold a lock only for a part of what they do are split there:
a spawn and its registration, `Stop` with its wait for the process, the steps of
`Start` of a tunnel (`Begin` to `StartWatch`), a request between the cache of
keys and their fetch, the record, the file of credentials and the rebuild of a
bot. Processes die by themselves at any time. `Checkpoints` keeps, for every
file, what it holds, what each copy holds and what each turn changed. A tool call is
reported before its tool works (`Call`, `Edit`, `CallFails`) and waits in the wire
(`pending`) until a timer writes it to the events (`Flush`), for the turn of the last
message there; the end of a turn copies what the events name and does not wait for
the wire. `late` is history: the files with a call in the wire when a turn ended.

### ToolKinds, Commands

Pure functions, one operator each, over tables of words; a segment of a command
is its words and what the text shows besides (redirection, quotes, substitution),
together with its true *effect*, which the code does not see and the properties
compare with its judgement. Some texts no table looks into: backticks between double
quotes are erased before the search for a substitution, quoted texts and script
blocks are taken out as data, of an interpreter's code only the unsafe words are
searched, and a flag counts only as a whole word. A segment that does something in
such a text `hides` it, and there are four in the list: a substitution between
quotes, a script block, `node -e`, `sed --in-place=x`. What is claimed of every
segment is that no command is milder than it (`NoMilderThanItsParts`); what is
claimed of its effect holds for those that hide nothing (`JudgedByItsWorst`).
`MCAgentServices` lists the segments: at least one for every table. `JudgedAlone` says
of one segment what `CommandsAreJudged` says of a command; `MCAgentServices` assumes it
of each in its list.

### TaskStore

`memory[p]` is the index of process `p`, `rows` the table, `files` the JSON files
of older versions. A call is two steps, since memory changes before the row is
written: the lock is what keeps them together. `Import`, `Archive`, `Load`,
`Correct` and `Serve` are a start; `End` may come between any two steps.
`promised` is, for each task, the number of the newest event a call said is kept,
and `deleted` the tasks a call said are gone. A process may start while the one
before it still serves, as a self-restart has it; `raced` is history, the tasks
written while another process had its own copy of the table, and so is `unread`, the
tasks whose file a start passed over because it could not read it.

## 3. Runs

| Run | Shows | Bounds |
|---|---|---|
| `TurnQueue` | `BusyIsExact`, `OneTurnAtATime`, `ReceiptNeverShort`; refinement `SerialLine`; `EveryTurnSettles` | 3 turns |
| `TaskLifecycle` | `LiveStatusIsOwned`, `OutcomeIsFinal`, `CompletedIsEarned` | a first turn and a resumption, cancel and delete, the reaper, 1 crash, a report and a request under way |
| `TaskLifecycleLive` | `CancelEndsThePrompt`, `AcceptedTurnsSettle` | two turns, any number of cancels, the print fallback |
| `TaskCancelled` | *violated*: a cancelled turn sends no prompt | one turn, a cancel |
| `PermissionWire` | `ApprovedIsTold`, `CardLeadsOn`, `SettledOnce` | 3 requests of a kind, approval for the turn, a failing adapter, 2 turns |
| `PermissionWireLive` | `EveryRequestIsAnswered` | 2 requests, all decisions, choices that are none, 1 turn |
| `AgentManager` | `SlotsAreOwed`, `NoAdapterIsForgotten`, `OnePromptPerSession`, `SlotsComeFree` | 2 calls of a task and 1 of another, 2 slots |
| `SelfRestart` | `ExecutableStays`, `LiveIsOwned`, `PortIsHeld` | 2 restarts, of two processes or of one, 3 processes, 2 builds, 1 task, 1 failure |
| `Requirements` | `DependenciesFirst`, `FeedbackOnce`, `DueIsMinded` | an implementation and its test, 4 tasks, 2 issues, 3 requests, 1 failing creation |
| `AgentServices` | `AgentsEndCleanly`, `AnswersArrive`, `NothingIsLost`, `CallsAreJudged` | of `MCAgentServices`, see below |
| `HostServices` | `ProcessesAreMinded`, `RewindIsExact`, `DoorIsKept`, `RecordsAreKept` | of `MCHostServices` |
| `BotScans` | *violated*: every scan makes a bot | one worker, 2 applications |

One passing run of each module also checks its `TypeOK`. What the properties of
these two runs consist of:

| Property | Of | Says |
|---|---|---|
| `AgentsEndCleanly` | `AcpSession` | the death of an agent is told upwards whenever it comes, and no request of a tool outlives its agent, also one that registers after `Close` has swept the table or that a repetition has replaced; who listens has heard of every death that was seen (`SeenDeathsAreTold`) |
| | `ClaudeBridge` | a session the program has left is closed, also when the request that says so was lost |
| `AnswersArrive` | `AcpPlan` | a plan that is decided, or whose agent has exited, is answered, and its mode switched or given up: the reply does not wait for an answer that the same path must read; until then the plan is on the line or being handled (`PlansAreInHand`) |
| | `ModelCatalog` | whoever waits for another's probe is answered, whatever becomes of the probe |
| | `PrintRun` | a decision does not stay pending when its process was killed; one that is pending has a handler that listens, and no answer yet (`PendingHasAHandler`) |
| | `ClaudeBridge` | a prompt returns, from its end, a stop, a cancel or the loss of its session; no broadcast passes between its look and its sleep (`WakeUpsReach`) |
| `NothingIsLost` | `Streams` | each chunk comes to stand in the events, once; until then it is in one place, a buffer or the hands of one flush (`EachInOnePlace`) |
| | `EventBus` | a client that stays connected is told of every change, by its event or a snapshot; the newest version is never out of its sight (`NewestIsOnTheWay`) |
| `CallsAreJudged` | `Commands` | a command is milder than none of its segments, and than nothing an open segment does; the card shows why; saved recipes can be saved again |
| | `ToolKinds` | a tool that changes something is no query; an answer takes an option that means it |
| `ProcessesAreMinded` | `Preview` | a server that is stopped ends; one that is being stopped bears the mark of it (`StoppedServersAreMarked`) |
| | `Tunnel` | a tunnel that leads nowhere is no longer shown; one that is shown is waited for (`ShownIsWatched`) |
| `RewindIsExact` | `Checkpoints` | the first rewind restores what the agent changed and leaves the rest, except for files whose call was in the wire when a turn ended |
| `DoorIsKept` | `Access` | inside is what comes from here; only guessers are shut out; a new key of the team is learnt |
| `RecordsAreKept` | `Bots` | between requests, what runs is what records and credentials say |
| | `TaskStore` | what a call said is kept is in the table, through crashes, failing writes and hand-overs; a deleted task stays away; both except for tasks written while two processes had a copy; events have rising numbers |

**Why the bounds are enough.** Three turns is the smallest number at which one
turn is in hand, one waits and one is being pushed; a fourth only lengthens the
line. In a task's life the interesting races are between one turn and one
stopper, or the end of one turn and the beginning of the next, hence two turns;
cancels are not bounded at all, and a handler that has cancelled may cancel
again. One crash is enough because a crash resets everything but the store. In the
wire three requests make one displayed, one queued and one that arrives; they
are of one kind so that an approval of one can cover the others. In the manager
two calls of one task race for the table, and the third, of another task,
competes for the slots; with two slots one of them can be held by an idle
session while another is being closed. Requests are symmetric and
`PermissionWire` uses that for its safety run. Three processes are two restarts
after one another, or two of one process, at once or in turn, and with one failure
each step of either may fail (4,966,225 states). Four tasks are a task, its test, a
fix and a re-verification; one user confirms there; with two, no
proposals, one issue and four requests the same invariants hold (4,215,736 states).

The services have one of each thing that races and two of what competes: one
tool call that may be asked about twice; two plans, a second coming while the
first is carried out; two callers, one of whom leads; three chunks, so that a
buffer holds one while another is being written; two publishers of three changes
with a buffer of one event, so that one is dropped; two starters and two
processes of a tunnel; a visitor who guesses and one who does not; two workers on
the bots; three starts of the store with two writers, a retention of two and one
fault. The bridge has one prompt and one permission in that run; with two
prompts, checked alone, both its properties hold too (77,418 states). The store
with two tasks, one writer and two starts, checked alone, holds as well (1.7 million
states). Every bound is a
constant with a comment at its declaration; nothing else is cut off.

**Deadlock.** Every system modelled here may come to rest: all turns settled,
all requests answered, all sessions closed. Deadlock checking is therefore off,
and progress is stated by the liveness properties.

**Fairness.** Weak fairness is given to goroutines that can go on, one formula
per goroutine (`Drainer(d)`, `TurnStep`, `Stopper(c)`, `Proceed(p)`,
`CallStep(c)`), because the Go scheduler runs them all; to the timers, which
fire, and to the idle reaper, a ticker. None is given to users, to agents (a
prompt may never return, a process need not die) or to crashes. Where a property
needs an agent to end its turn it says so (`NoTurnHangs`, `NoPromptHangs`), and
`CancelEndsThePrompt` is the one that shows how a prompt that hangs is ended.
`EveryRequestIsAnswered` excepts a turn that is ended under its request, which
then waits until the session closes, and assumes that choices are usable
(`ChoicesAreUsable`): one that is none puts its request back with its timer
stopped. Nor does that run have a failing adapter, under which a request is
recorded as denied without the agent having been told.

The services follow the same rule, each in its definition `Fairness`:
`AcpSession` the handlers of requests and the two watchers; `AcpPlan` the reading
path and the setter of modes, with an agent that answers a request for its mode while
it lives;
`ModelCatalog` the leader, whose probe has a time limit; `PrintRun` the handlers
of the hook, whose timer fires; `Streams` timers and the turn; `ClaudeBridge` the
goroutines, the handlers and the timer of the service, and cards that are decided
or time out, but not the SDK, except where a property says `TurnsEnd`; `Preview`
the stop, the watcher and the reader of the bus; `Tunnel` the start, the health
loop and the watcher. Strong fairness is used twice: in `EventBus` for the events
and the resync of a `select` with several cases ready, which Go chooses from at
random; in `Access` for a server of keys that answers again and again, and for a
visitor who comes again and again. `Commands`, `ToolKinds`, `Checkpoints`,
`Bots`, `TaskStore`, `SelfRestart` and `Requirements` claim safety only and have
none.

## 4. What the violated properties show

Each states what a comment of the repository says; TLC finds the behaviour of the
code that contradicts it. Two are runs; those marked with a star have their
constants below the table; the rest have a configuration of their own that anyone
can start with `tlc -config <name>.cfg <module>`.

| Configuration | Module, definition | The comment, and what happens |
|---|---|---|
| `TaskCancelled` (run) | `TaskLifecycle`, `CancelledTurnsAreSilent` | `core/task_runner.go:1749` "取消 = 停止": a cancel that lands while the turn opens its session is overwritten by `setRunning` |
| `BotScans` (run) | `Bots`, `EveryScanMakesABot` | `api/larkreg.go:38`: the id "是本次创建落的 bot 记录 id"; the next scan does not reset it and gets the first bot |
| * | `TurnQueue`, `ReceiptIsExact` | `core/turn_queue.go:40` "返回前面已排队的轮数": `busy` counts as a running turn also before the first was taken and after the last has returned; `ReceiptNeverShort` bounds the error by one |
| * | `TaskLifecycle`, `NobodyIsPassedOver` | `core/soft_complete.go:86` "返回不得 completed 的稳定 Error 前缀": a request whose goroutine waits for the words of its tool call registers between the verdict and the transition, and the task completes over it |
| `TaskAnnounced` | `TaskLifecycle`, `AnnouncedIsTrue` | `core/task_runner.go:2135` "无变更或出错时返回 nil": a blocked `transition` returns the unchanged task, so a cancelled task is announced and fed back as completed or failed |
| `TaskDeleted` | `TaskLifecycle`, `NoOrphanSession` | `api/tasks.go:533` "避免会话/子进程残留为孤儿": a turn in flight opens a session after the deletion has closed the task's sessions |
| `TaskWires` | `TaskLifecycle`, `WiresFollowSession` | `core/task_runner.go:1188`: the close callback knows the task only, and removes the wires of the next session |
| `AgentManagerReaper` | `AgentManager`, `ReaperSparesPrompts` | `agent/manager.go:541` "running 中的跳过": the look at the flag and the close are apart |
| `SelfRestartTwice` | `SelfRestart`, `SomebodyListens` | `core/selfrestart.go:513` "最坏情况退化成"重启没成功但服务一直在"": after a rebind nobody tells `SelfRestart` of the new listener; the second restart closes the old one, the successor cannot bind, and both are gone |
| * | `SelfRestart`, `BinaryIsThere` | `core/selfrestart.go:223` "保证服务仍有一个能跑的二进制": a second restart of one process removes the backup that the first has just made; when the copy of the first fails, nothing is left to put back |
| `RestartOnly` | `SelfRestart`, `RestartOnlyIsRecognised` | `src/cmd/pieqi/main.go:632` "交接单的摘要取自**当前** exe": the digest of a staged build is taken although nothing is swapped |
| `RequirementsActivated` | `MCRequirements`, `OnlyPlannedIsActivated` | `core/dag_schedule.go:50` "将 planned 标为 pending": check and update are apart, so a task cancelled in between is started |
| * | `AcpSession`, `FailedOpenEndsTheProcess` | `agent/manager.go:226` "先 Close primary adapter 再回退，防资源泄漏": `openACPSession` returns the error without closing the process |
| * | `ModelCatalog`, `ServedWhileFresh` | `agent/model_catalog.go:393` "剩余寿命从**探测时刻**起算": the floor renews a list at every start |
| * | `EventBus`, `DeadLinksAreFound` | `api/ws.go:92` "心跳 ping：探测静默死连接": the resync timer of 500 ms always fires first and remakes the ping's timer of 30 s |
| * | `Streams`, `JudgedOnTheWhole` | `core/task_runner.go:1302`: the flush before the verdict misses text a timer has taken but not written, and tool calls in their own buffer; a productive turn fails |
| `RewindTwice` | `Checkpoints`, `RewindsCompose` | `core/checkpoint.go:294` "恢复到「Turn N 开始之前」的状态": a second rewind restores what the first had undone |
| * | `Checkpoints`, `EveryRewindIsExact` | `core/agent_toolcall.go:139` "任务结束/取消时必定落盘，不依赖窗口到期": the end of a turn flushes the text only, so a change whose call still waits is not copied with its turn, whose copy is never remade, and the first rewind restores an older content |
| * | `Tunnel`, `OneTunnel` | `auth/tunnel.go:83` "Exactly one tunnel at a time": two overlapping starts both spawn, and one process is in no record |
| `OrphansEnd` | `ClaudeBridge`, `OrphansEnd` | `index.js:262` of the bridge "防孤儿进程": the timer passes over a session that a decision has set running while another permission waits |
| `DeathIsHeard` | `ClaudeBridge`, `DeathIsHeard` | `agent/claude/session.go:206` "据此关闭 Done()，识别会话已死": a death before `OnEvent` is never delivered |
| `StoreHandover` | `TaskStore`, `EveryPromiseIsKept` | `core/task_store.go:272` "落盘顺序必须等于变更顺序": it does in one process; while a self-restart hands over there are two, and the new one writes back rows it loaded before |
| * | `TaskStore`, `EveryDeletionLasts` | `core/task_store.go:376`: the row is deleted under the lock lest a snapshot "把刚删掉的行写回来"; a process that has loaded the task for the hand-over keeps it, and writes it back |

The starred ones are `SPECIFICATION Spec` without a check for deadlock, and

* `NobodyIsPassedOver` (a PROPERTY): the constants of `TaskLifecycle.cfg`; 19 states;
* `EveryRewindIsExact` (a PROPERTY): those of `RewindTwice.cfg`, with `MaxRewinds = 1`;
  10 states;
* `BinaryIsThere`: those of `SelfRestart.cfg`; 6 states;
* `EveryDeletionLasts`: those of `StoreHandover.cfg`; 10 states;
* `ReceiptIsExact`: `Turns = {t1, t2}`, `NoTurn` a model value;
* `FailedOpenEndsTheProcess`: `Calls = {a}`, `NoAsking` a model value, `MaxPrompts = 1`;
* `ServedWhileFresh`: `Callers = {a, b}`, `Nobody` a model value, `StaleMax = 2`,
  `MaxDays = 3`, `MaxConfigs = 0`, `MaxRestarts = 1`;
* `DeadLinksAreFound` (a PROPERTY): `Publishers = {p}`, `MaxVersions = 1`,
  `MaxLinks = 1`, `Buffer = 1`, `PingTicks = 2`;
* `JudgedOnTheWhole` (a PROPERTY): `MaxChunks = 2`;
* `OneTunnel`: `Starters = {handler, health}`, `Healer = health`, `MaxProcs = 2`,
  `MaxTokens = 2`, `Failures = 2`.

Of six of these a weaker form is among the properties that a run checks and a theorem
proves: `CompletedIsEarned` for `NobodyIsPassedOver`, `RewindIsExact` for
`EveryRewindIsExact`, `ExecutableStays` for `BinaryIsThere`, `PortIsHeld` for
`SomebodyListens`, `PromisesAreKept` for `EveryPromiseIsKept`, `DeletedStaysDeleted`
for `EveryDeletionLasts`. Each excepts the cases that a history variable names: what
came between verdict and commit (`turn.late`), a call in the wire at the end of a
turn (`late`), a process asked twice (`repeat`), a task that two processes had
(`raced`) or whose old file was passed over (`unread`). That the last is needed shows
with `Tasks = {t}`, one writer, three starts and one fault: a file that cannot be read
at one start is imported at the next, although its task has been deleted since.

`LiveStatusIsOwned` is false with `Fallback = TRUE` in `TaskLifecycle.cfg`, as the
assumption of its theorem (section 5) says: a turn whose conversation was lost opens
it again (`core/task_runner.go:1280`); if that session is closed before the look at the
adapter, the turn returns without failing its task, which stays "running" with nobody
behind it. And `FeedbackOnce` cannot promise one re-verification to each issue: two
users may confirm the fix of one (`requirement_issue.go:99`), and the second
confirmation overwrites the fix that the issue names when the first has been
re-verified already. It does promise one to each fix, and to each issue that the
runner opened and fixes by itself.

Three properties of `Commands` have no configuration of their own. The runs refute
them at once: `SubstitutionIsRefused`, since ``echo "`touch x`"`` is judged read, against
`readonly_kind.go:167` "绝不放行" (backticks between double quotes are taken for the
escapes of PowerShell, 172); `NothingIsHidden`, since a script block, `node -e` and
`sed --in-place=x` pass as well, against the head of that file, which lets pass only
what can be proved to read (and says that texts can always be found that deceive it);
`DiscardedIsHarmless`, since `ls x 2>/dev/null` is taken for a write, against
`readonly_kind.go:162` and its test.

### Weak points met on the way

Read in the code while it was modelled; the models contain the first group, the
second lies outside them.

*Tasks and permissions.* A decision sent at the end of a turn is remembered for
the turn after its memory was cleared (`agent_perm.go:904`). `Unwire` takes
pending requests without recording them as settled (1233). An invalid choice
leaves its request without a timer (921). The store's `Update` returns an error
with the changed task, and `transition` takes that for no change. A message sent
during an approval clears the card of the hook while the hook waits. `Intervene`
after a cancel sets a print task running with nobody running it; a pending task
cancelled while it waits for its slot still runs; an answer before the card
leaves a card that nobody can answer.

*Agents.* A mode whose answer comes when the time is up, as it may behind a card that
holds up the reading, is set at the agent and not in the program. A prompt is retried over a connection that is gone. A repeated request
under one call id replaces the channel of the first, and giving up one removes
the entry of the other. The mode given at the opening is dropped. A list of
models that is invalidated during a probe comes back with the probe.
`applyMode` overwrites a mode the agent switched to in between. A bridge that has
crashed is not started again, since `EnsureRunning` is called once; a stream line
of more than 4 MiB ends the session; the cancel of a queued prompt does nothing.
The watcher of `waitTurn` broadcasts without the lock: the wake-up can be lost,
which only the close that follows a cancel makes harmless.

*Self-restart.* The new process resumes tasks before the old one has gone. The
ready signal is cleared after the spawn, so a fast successor may be forgotten.

*Requirements.* Two confirmations of a proposal create the tasks twice; those of
an issue re-verify it once for each fix; `MarkDone` checks and writes apart; a second `ConfirmFix` leaves an orphan; a cancelled re-verification
resolves its issue, a failed one leaves the older issue fixing; the discard at
the end of a confirmation may lose a newer proposal; an expansion that fails
half-way leaves tasks that nobody starts.

*Events and streams.* Two flushes may write in the other order; texts and tool
calls change places; `completeTask` writes an older output back. Events may be
published in another order than the updates they tell of.

*Host.* A failed turn is published as an update and never as a failure, so that
its server is not reaped and no push is sent. Two starts of a preview before
either registers spawn two servers; a stop before the registration does nothing.
A stop during the start of a tunnel is undone, as its comment admits; a kill of
the service between spawn and PID file leaves a process without record. Within
the hour of the cache an unknown key leads to no fetch, contrary to
`access.go:254`. Overlapping scans share one state; two saves of one new
application create two bots; a crash between record and credentials leaves a
record that never runs. A delete whose row cannot be deleted comes back with the
next start and cannot be repeated; a rename that fails ends the start.

## 5. Proofs

Each theorem below holds for every value of the constants its module's assumption
admits. Where the listed property is one that a run checks, the run shows it on a
small instance, the theorem for all. The invariants that carry the proofs were
model-checked on the instances of section 3 before they were proved.

**`TurnQueueProofs`**, for any set of turns: `TypeCorrect`, `BusyExact`,
`MutualExclusion`, `ReceiptBounds`, and `ImplementsSerialTurns`: every step of
`TurnQueue` is a step of `SerialTurns` or leaves it unchanged. The inductive
invariant is `TypeOK`, `BusyIsExact` and four facts that join the views the code
has of a turn: `LaunchOrder` (a goroutine exists only after the `go` statement),
`HandsExact` (an active turn is in the hands of a drainer, and a drainer inside a
job holds an active turn), `QueueExact` (what is in the queue is queued, once),
`NewExact`. `BusyIsExact` alone is not inductive: that two drainers exclude each
other says nothing of the turn one of them finishes. For the receipt, the turns in
front are counted as those in the queue, which are as many as it is long since it
holds each once, and the active one, of which there is at most one.

**`AgentManagerProofs`**, for any finite set of calls, any tasks and any positive
number of slots: `TypeCorrect`, `SlotsExact`, `AdaptersRemembered`,
`PromptsExclude`, and `AgentsAreBounded`: a project has at most as many open
adapters as slots, since each open adapter belongs to a call or session that owes
a slot. The invariant adds `Apart` (a call still in Open, a registered session and
a session being closed are never the same, so the three ways to owe a slot do not
overlap) and `Found` (a prompt has a session). The account of the slots is a
cardinality: every step leaves the set of owners alone, or adds or removes one.

**`TaskLifecycleProofs`**, for any set of turns and any number of cancels and
crashes: `TypeCorrect`, `OutcomesFinal`, `CompletionsEarned`, and, without the
print fallback, `LiveOwned`. The queue of the task enters by what `SerialTurns`
promises (`OneActive`, `QueueExact`). A status becomes live by the turn in progress
or by a request that is registered late, and the turn alone settles it, so the
invariant follows that turn: `VerdictHolds` (what `Judge` found is still true when
`Commit` writes it, although anything may have happened between, but for what reached
the task since, which `turn.late` holds), `NotPending` (a request under way finds no
task that was never set running) and `LiveIsSettled` (a live status has a turn at a
label from which it will settle it). `LiveStatusIsOwned` alone is not
inductive: a turn that is closing its session settles the status only if it is on
its way to a failure. The assumption that there is no fallback is needed; section
4 has the behaviour.

**`PermissionWireProofs`**, for any requests, kinds, choices and faults:
`TypeCorrect`, `ApprovalsAreTold`, `SettlesOnce`, `CardsLeadOn`. Each request has
a way to go, in line, in the hands of the goroutine that shows its card, shown,
taken by its solver or its timer, settled; the invariant says that nobody else
meets it on that way. Thus no path looks whether a request is settled, and yet
none settles one twice: what waits has no answer (`Waits`), a request is taken by
one goroutine (`Taken`), the goroutine that advances the display has settled its
own (`Settled`), and a card is carried by one goroutine (`Carrying`). For the card,
`OpenInv` adds that, while the wire is there, the displayed request is the one
whose card is due or the one that was shown.

**`SelfRestartProofs`**, for any builds, tasks, number of processes and failures,
and however often a process is asked: `TypeCorrect`, `CardsAreOwned`, `ExecutableSafe`
and `PortSafe`. Nothing is assumed; what a second request can break is in the
properties themselves, by `repeat`. For the port (`PInv`), until a process is asked
again: before the release the process of the restart listens through the listener it
knows, after it does not (`BeforeListens`, `AfterDoesNot`), and a process that serves
listens unless a restart of it is past its release (`UpListens`); a process has one
restart at a time (`OneEach`), and the ready signal is of a process that serves
(`SignalIsUp`). For the file (`DInv`) less is needed and it lasts longer, through
restarts one after the other: as long as none of a process falls within another, a
restart at work is alone in a living process that has the port (`Alone`), and a swap
between its two renames has its backup (`InstallHasBackup`).

**`RequirementsProofs`**, for any finite sets of users and tasks, any proposals and
any bounds: `TypeCorrect`, which bounds the waiting turns of a task by the requests
and threads that asked for them; `DependenciesComeFirst`; `DueAreMinded`;
and `FeedsBackOnce`. A thread acts on what it read some steps ago, so the invariants rest
on what does not change: the role, the dependencies and the purpose of a task are
settled at its creation, `done` and `again` stay true. `Minded` follows a due task
through the threads that may start it: at every step of completion, feedback and
schedule some thread is still to look for it or has found it. `Feeds` says who is
about to create a re-verification, and that an issue of the runner which names one, or
a thread about to, excludes another. `FixedOnce` says the same of a fix, whoever
confirmed it: while a thread has a new fix in hand nobody else knows it (`NewFixes`),
it comes to be the fix of one issue (`OwnFixes`), and once a test re-verifies it, the
issue it belongs to names a test, or the thread is about to note it there
(`OwnTests`). So a fix that an issue no longer names, since a second confirmation has
overwritten it, creates nothing.

**`HostServicesProofs`**, for any constants of the six services: `TypeCorrect`,
`RecordsKept`, `FirstRewindExact`, and `VisitorsJudged`, the half of `DoorIsKept`
that is an invariant; of the store alone, the three that make up its part of
`RecordsKept`, `EventsNumbered`, `PromisesKept` and `DeletedStay`; and, of what `ProcessesAreMinded` consists of, the two invariants:
`StopsMarked` and `ShownWatched`. A behaviour of `MCHostServices` is of one service,
so its inductive invariant is one for each:

* *Checkpoints.* What a rewind finds before turn n + 1 is the copy of turn n, if the
  agent changed the file in it, else what it finds before turn n
  (`CopyBeforeNext`); so the search follows the file turn by turn. As long as every
  turn has its message to itself (`CopyLine`), and for a file no call on which was in
  the wire when a turn ended (`copyLate`), the events of a turn and the wire name what
  the work on its message changed (`CopySays`, `CopyEvents`), a turn which has ended has
  a copy of exactly these files (`CopyCopies`), and what the search finds before each
  turn so far is what the file was (`CopyKnown`). The conditions of `RewindIsExact` (no message or
  cancel cut into a turn, no earlier rewind, no edit by the user, no file the user had
  deleted before, no late call) are where these fail; `RewindTwice` and
  `EveryRewindIsExact` show two of them.
* *Bots.* What runs may differ from what records and credentials say only while a
  request is about to rebuild or to apply (`BotCurrent`). The proof needs what each
  request carries (`BotHeld`), that a bot which was not made has no credentials
  (`BotFresh`), and that one request at a time is inside the controller, whose
  instances are then not bound yet (`BotHolder`, `BotRouted`).
* *Access.* A request is let in only while its visitor's failures are below the
  bound, and it alone may raise them, so they never pass it; who has failures or
  is on the black list has guessed (`DoorInv`).
* *Preview and Tunnel.* What is registered, waited for, recorded in the file or
  active has been spawned; processes of tunnels are numbered in the order of their
  spawning (`SiteInv`, `LinkInv`). On them stand two more. The mark of a stop is
  taken off only where a process is registered, and the goroutine that registers
  one has had none before, so no stop can be waiting for it (`SiteMarks`,
  `StopsMarked`). And what a tunnel shows is recorded by the start that is to wait
  for it, whose place the other starts cannot change (`ShownWatched`).
* *TaskStore.* `StoreInv`, for any tasks and writers, any retention, any number of
  starts, failing writes, files that cannot be read, and a start beside the process
  it replaces: `EventsNumbered`, `PromisesKept`, `DeletedStay`, and so `RecordsKept`.
  The lock is the argument: a process has one call at a time, and that call holds the
  task as memory has it (`StoreCalls`). Hence memory, in whichever process, is never
  behind what was promised (`StoreAhead`), although a failed write leaves the row
  behind memory, and the next write puts down no less than was promised. What a start
  loads and corrects (`StoreCorrected`) is the table, which has what was promised. All
  this is of the tasks that are not in `storeRaced`: when a process writes a task while
  another has loaded the table, the other one's copy falls behind, and the task is
  marked in the same step. For a deletion, no old file that could be read is left when
  a process serves (`StoreFilesAreDone`); one that a start passed over is marked too.
  The numbers of events need no exception: `StoreNumbered` says that the next number,
  once there is a counter, is one above the newest event, which trimming preserves
  since the newest event is the last one.

**`AgentServicesProofs`**, for any constants of the nine services: `TypeCorrect` and
`CallsJudged`; and the invariants among what `AgentsEndCleanly`, `AnswersArrive` and
`NothingIsLost` consist of: `DeathsTold`, `PlansInHand`, `WakeUpsArrive`,
`DecisionsHeard`, `NewsOnTheWay` and `ChunksInOnePlace`. Again the inductive invariant is one for each. The types say
more than the shape of the state, and that is what needs an argument:

* *AcpSession.* An entry of the table of questions belongs to a goroutine that will
  look at it: who answers takes the entry first, so an entry that is there has an
  empty channel (`SessionInv`). `OnEvent` and the watcher of the exit look at each
  other's flags, so whichever comes second tells; `DeathsTold` also needs that an
  exit is noticed only of an agent that is done (`SessionTells`).
* *ModelCatalog.* One caller at most asks, and who waits waits for one that runs: the
  leader is a caller whose probe is in flight (`CatalogLed`, `CatalogAwaited`).
* *AcpPlan.* A list of todos that is put together from the old one and a patch holds
  each id once, with the status the agent gave it last (`PlanTodos`, `PlanDistinct`);
  also when a new plan has replaced the list; a plan is read from the pipe once, so the
  card that goes up for it finds no setter of its own on the way (`PlanRead`, `PlanOf`).
* *PrintRun, ClaudeBridge, Streams, EventBus.* Queues hold what was submitted and
  heard and no more, and numbers are never ahead of the changes: each number that is
  due is in the hands of one publisher (`PrintTurns`, `BridgeTurns`, `StreamHeard`,
  `BusCounted`).
* *What is on its way.* `Kept` stands on these. A plan is unanswered exactly while it
  is on the line or being handled, since it is read once (`PlanHeld`). What a prompt
  of the bridge waits for changes only under the lock and with a broadcast, so that
  afterwards nobody sleeps or is about to (`AllAwake`); the end of its context is the
  exception, see section 4. A decision that is pending is of a
  call that was placed, so its handler is there (`PrintHeld`). An event that finds
  the queue full is dropped, and the mark it leaves sends the loop to the store
  again, so `NewestIsOnTheWay` is inductive as it stands. Every chunk is in one of five places and there once
  (`StreamLedger`), with one more fact: the turn takes the buffer only with empty
  hands (`StreamHands`), or what it still held would be overwritten. What a flush
  writes is a fold of merges and of applied calls, each of which adds the numbers of
  its block and no other (`MergedFoldHolds`, `AppliedFoldHolds`).
* *ToolKinds.* Whatever options come, the answer takes the first of a kind or of a
  name that means it (`ToolPicks`), and a tool's tables are judged name by name.
* *Commands.* The kind of a command is a fold over its segments, and a command of any
  number of them is read-only or local only if each of its segments is
  (`ShellClassified`), from which `NoMilderThanItsParts` follows for any segments,
  whatever they hide. What one segment is judged alone, the tables of words, is
  `SegmentsAssumption`: TLC evaluates it for each segment of `MCAgentServices`, and
  the proof lifts it to their sequences. It says nothing of the effect of a segment
  that hides one, which the tables do misjudge (section 4).

A fold of the community modules is built on a recursive function and a choice, and
an induction theorem of the library has an operator as its parameter. The proofs do
with `Climbing`: a set that has 0 and, with each number below n, the next one, has
all numbers up to n, since its complement would have a least element. From it
follows that a function with the equations of the fold exists (`FoldingExists`), so
the one that is chosen has them, and what it gives for sequences of any length.

Assumptions are the named assumptions of the modules, which TLC evaluates on
every run; those of the services are conjuncts of `ServicesAssumption`.

**Only model-checked.** All liveness (temporal reasoning with ENABLED is out of
the prover's reach): the second half of `DoorIsKept` among it, and that what is on its
way arrives, which the proofs only show to be nowhere lost; and what a single
segment of a command is judged, `SegmentsAssumption`, which is a matter of literal
tables. Every invariant that a passing run checks is stated by a theorem; one of them,
`LiveOwned`, has an assumption on the constants (no print fallback).

## 6. What is not modelled, and the plan

Inside the modelled parts: work trees and their clean-up; the choice prompts of
the print path; the eviction of old entries from the wire's settled table and the
kinds that may not be remembered; the stand-alone `Cancel` of the manager and
its choice of a primary; the encoding of ACP and what its updates contain; the
process of the bridge (`agent/claude/proc.go`); the diffs, checks, evidence and
outcomes that are derived from a task's events; the binding of accounts and the
audit log; the conversion of chat messages, text commands and the WeChat
channel. Texts, formats and wordings are left out except for what a property
depends on. Words of a command are tokens: how a line is split into them is an
attribute of a segment.

Some steps are coarser than the code. In `Checkpoints` a resumption copies what the
turn before has left and puts its message into the events in one step, and messages
to a task that waits or was cancelled are left out. In `ModelCatalog` a list is
invalidated by a change of the configuration only, not by its second caller. In
`Bots` a poll that finds its scan finished loads and applies its bot in one step. In
`TaskLifecycle` one report and one request are under way at a time. The run
`HostServices` has one spawn of a preview (`SiteMaxSpawns = 1`), so that two
overlapping starts of it are the matter of the theorem `StopsMarked` alone.

Not modelled at all, because they hold no state whose interleavings matter or
are pure input and output: settings and configuration (whole values put and
got), rows of requirements (written as a whole under one lock), titles, push
messages, logging, the web client beside its tracker of gaps, and the wiring in
`src/cmd/pieqi/main.go` beyond what `SelfRestart` and `Bots` use.

What is left to prove is a condition under which `OnlyPlannedIsActivated` of
`Requirements` is true. That nobody cancels is not enough: two threads that found a
task planned both write pending, the second perhaps when the task has ended.
