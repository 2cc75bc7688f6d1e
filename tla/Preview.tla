------------------------------- MODULE Preview -------------------------------
(* The preview of a task's page (core/preview.go and api/preview.go): a dev    *)
(* server that is spawned by a goroutine, watched by a second one and stopped  *)
(* by whoever asks, or a directory of static pages that is served without a    *)
(* process. One task is modelled, with the events by which PreviewManager      *)
(* learns of its end (WatchBus).                                               *)
(*                                                                             *)
(* An instance is numbered: the servers 1..MaxSpawns in the order in which     *)
(* they were asked for, the static page, and the entry that only holds an      *)
(* error (markState without an instance).                                      *)
EXTENDS Naturals, Sequences

CONSTANTS
    MaxSpawns,      \* bound: dev servers started
    MaxEvents,      \* capacity of the subscription of WatchBus
    MaxTurns        \* bound: ends of a turn of the task

PreviewAssumption == {MaxSpawns, MaxEvents, MaxTurns} \subseteq Nat \ {0}

Servers == 1..MaxSpawns
Static == MaxSpawns + 1
ErrorOnly == MaxSpawns + 2
Instances == 1..ErrorOnly
None == 0

VARIABLES
    site,           \* what DiscoverPreview finds in the worktree
    spawned,        \* goroutines of spawn begun so far
    spawn,          \* where the goroutine of each server is
    process,        \* the process of each server
    watcher,        \* the goroutine that waits for it
    registered,     \* PreviewManager.instances[task]
    state,          \* previewInstance.state
    stopped,        \* previewInstance.stopped
    stopping,       \* the server that Stop waits for, by caller
    restart,        \* Restart has yet to call Start
    task,           \* status of the task
    turns,          \* turns that have ended
    events          \* events of the task that WatchBus has not read

previewVars == <<site, spawned, spawn, process, watcher, registered, state, stopped,
                 stopping, restart, task, turns, events>>
serverVars == <<spawned, spawn, process, watcher, registered, state, stopped>>
taskVars == <<site, task, turns, events>>

Ends == {"completed", "failed", "cancelled"}
Stoppers == {"user", "bus", "timeout"}

TypeOK ==
    /\ site \in {"none", "server", "static"} /\ spawned \in 0..MaxSpawns
    /\ spawn \in [Servers -> {"no", "begun", "probing", "seen", "late", "done"}]
    /\ process \in [Servers -> {"none", "up", "listening", "dead"}]
    /\ watcher \in [Servers -> {"no", "waiting", "done"}]
    /\ registered \in {None} \cup Instances
    /\ state \in [Instances -> {"none", "starting", "running", "stopped", "error"}]
    /\ stopped \in [Instances -> BOOLEAN] /\ stopping \in [Stoppers -> {None} \cup Servers]
    /\ restart \in BOOLEAN /\ task \in {"pending", "running", "deleted"} \cup Ends
    /\ turns \in 0..MaxTurns
    /\ events \in Seq({"task_completed", "task_updated", "cancelled", "task_deleted"})
    /\ Len(events) <= MaxEvents
    \* a server that was started is watched, and only what was started runs
    /\ \A k \in Servers : (process[k] = "none") <=> (watcher[k] = "no")
    /\ registered # None => state[registered] # "none"

Init ==
    /\ site = "none" /\ spawned = 0 /\ spawn = [k \in Servers |-> "no"]
    /\ process = [k \in Servers |-> "none"] /\ watcher = [k \in Servers |-> "no"]
    /\ registered = None /\ state = [i \in Instances |-> "none"]
    /\ stopped = [i \in Instances |-> FALSE] /\ stopping = [s \in Stoppers |-> None]
    /\ restart = FALSE /\ task = "pending" /\ turns = 0 /\ events = <<>>

Running == registered # None /\ state[registered] = "running"

------------------------------------------------------------------------------
(* The task. Every transition is published; only a completion has an event     *)
(* type of its own (transition in task_runner.go).                             *)

\* A subscriber whose buffer is full misses the event.
Publish(e) == events' = IF Len(events) < MaxEvents THEN Append(events, e) ELSE events

EventOf(end) ==
    CASE end = "completed" -> "task_completed"
      [] end = "failed"    -> "task_updated"
      [] end = "cancelled" -> "cancelled"

\* The agent leaves pages, a dev server, or nothing in the worktree.
AgentWrites(shape) ==
    /\ task = "running" /\ site # shape
    /\ site' = shape
    /\ UNCHANGED <<serverVars, stopping, restart, task, turns, events>>

TurnEnds(end) ==
    /\ task = "running" /\ turns < MaxTurns
    /\ task' = end /\ turns' = turns + 1
    /\ Publish(EventOf(end))
    /\ UNCHANGED <<site, serverVars, stopping, restart>>

TurnBegins ==
    /\ task \in Ends \cup {"pending"} /\ turns < MaxTurns
    /\ task' = "running" /\ Publish("task_updated")
    /\ UNCHANGED <<site, turns, serverVars, stopping, restart>>

DeleteTask ==
    /\ task \in Ends
    /\ task' = "deleted" /\ Publish("task_deleted")
    /\ UNCHANGED <<site, turns, serverVars, stopping, restart>>

------------------------------------------------------------------------------
(* Start.                                                                      *)

Register(i, s) ==
    /\ registered' = i /\ state' = [state EXCEPT ![i] = s]
    /\ stopped' = [stopped EXCEPT ![i] = FALSE]

\* A server that is starting or running is left alone; but until its goroutine
\* has registered it, a second Start does not see it. A page is registered as
\* running at once, over whatever was registered.
StartBody ==
    IF registered # None /\ state[registered] \in {"running", "starting"}
    THEN UNCHANGED <<spawned, spawn, registered, state, stopped>>
    ELSE CASE site = "none"   -> UNCHANGED <<spawned, spawn, registered, state, stopped>>
           [] site = "static" -> Register(Static, "running") /\ UNCHANGED <<spawned, spawn>>
           [] site = "server" -> /\ spawned < MaxSpawns
                                 /\ spawned' = spawned + 1
                                 /\ spawn' = [spawn EXCEPT ![spawned + 1] = "begun"]
                                 /\ UNCHANGED <<registered, state, stopped>>

\* startPreview refuses while the agent works.
Start ==
    /\ task \in Ends \cup {"pending"}
    /\ StartBody
    /\ UNCHANGED <<process, watcher, stopping, restart, taskVars>>

\* EnsureStatic: whoever looks at the status or opens the page has a static page
\* registered, unless it was stopped.
EnsureStatic ==
    /\ task # "deleted" /\ site = "static"
    /\ ~(registered # None /\ state[registered] = "stopped") /\ ~(Running /\ registered = Static)
    /\ Register(Static, "running")
    /\ UNCHANGED <<spawned, spawn, process, watcher, stopping, restart, taskVars>>

------------------------------------------------------------------------------
(* The goroutine of spawn.                                                     *)

\* markState: on whatever instance is registered by now.
MarkError ==
    LET i == IF registered = None THEN ErrorOnly ELSE registered
    IN  registered' = i /\ state' = [state EXCEPT ![i] = "error"]

SpawnFails(k) ==
    /\ spawn[k] = "begun"
    /\ spawn' = [spawn EXCEPT ![k] = "done"]
    /\ MarkError
    /\ UNCHANGED <<spawned, process, watcher, stopped, stopping, restart, taskVars>>

\* The process starts, the instance is registered, and the watcher begins.
SpawnProcess(k) ==
    /\ spawn[k] = "begun"
    /\ spawn' = [spawn EXCEPT ![k] = "probing"]
    /\ process' = [process EXCEPT ![k] = "up"] /\ watcher' = [watcher EXCEPT ![k] = "waiting"]
    /\ Register(k, "starting")
    /\ UNCHANGED <<spawned, stopping, restart, taskVars>>

\* portListening answers; the state is written in a step of its own, which looks
\* at the instance but not at its state.
ProbeAnswers(k) ==
    /\ spawn[k] = "probing" /\ process[k] = "listening"
    /\ spawn' = [spawn EXCEPT ![k] = "seen"]
    /\ UNCHANGED <<spawned, process, watcher, registered, state, stopped, stopping, restart, taskVars>>

MarkRunning(k) ==
    /\ spawn[k] = "seen"
    /\ spawn' = [spawn EXCEPT ![k] = "done"]
    /\ state' = IF registered = k THEN [state EXCEPT ![k] = "running"] ELSE state
    /\ UNCHANGED <<spawned, process, watcher, registered, stopped, stopping, restart, taskVars>>

\* Ninety seconds are over: what is registered is stopped, then marked.
ProbeTimesOut(k) ==
    /\ spawn[k] = "probing" /\ process[k] # "listening"
    /\ stopping["timeout"] = None
    /\ spawn' = [spawn EXCEPT ![k] = "late"]
    /\ IF registered \in Servers
       THEN /\ stopped' = [stopped EXCEPT ![registered] = TRUE]
            /\ stopping' = [stopping EXCEPT !["timeout"] = registered]
       ELSE UNCHANGED <<stopped, stopping>>
    /\ UNCHANGED <<spawned, process, watcher, registered, state, restart, taskVars>>

MarkLate(k) ==
    /\ spawn[k] = "late" /\ stopping["timeout"] = None
    /\ spawn' = [spawn EXCEPT ![k] = "done"]
    /\ MarkError
    /\ UNCHANGED <<spawned, process, watcher, stopped, stopping, restart, taskVars>>

------------------------------------------------------------------------------
(* The process and its watcher.                                                *)

ServerListens(k) ==
    /\ process[k] = "up"
    /\ process' = [process EXCEPT ![k] = "listening"]
    /\ UNCHANGED <<spawned, spawn, watcher, registered, state, stopped, stopping, restart, taskVars>>

ServerExits(k) ==
    /\ process[k] \in {"up", "listening"}
    /\ process' = [process EXCEPT ![k] = "dead"]
    /\ UNCHANGED <<spawned, spawn, watcher, registered, state, stopped, stopping, restart, taskVars>>

\* Wait returns: an exit that nobody asked for is an error, unless it is clean.
WatchExit(k, clean) ==
    /\ process[k] = "dead" /\ watcher[k] = "waiting"
    /\ watcher' = [watcher EXCEPT ![k] = "done"]
    /\ state' = IF registered # k THEN state
                ELSE [state EXCEPT ![k] = IF clean \/ stopped[k] THEN "stopped" ELSE "error"]
    /\ UNCHANGED <<spawned, spawn, process, registered, stopped, stopping, restart, taskVars>>

------------------------------------------------------------------------------
(* Stop: the mark and the signal, up to five seconds of waiting, the kill.     *)

MarkStopped(who) ==
    /\ registered # None => stopped' = [stopped EXCEPT ![registered] = TRUE]
    /\ registered = None => UNCHANGED stopped
    /\ state' = IF registered \in {Static, ErrorOnly}
                THEN [state EXCEPT ![registered] = "stopped"] ELSE state
    /\ stopping' = [stopping EXCEPT ![who] = IF registered \in Servers THEN registered ELSE None]

UserStops ==
    /\ task # "deleted" /\ stopping["user"] = None /\ ~restart
    /\ MarkStopped("user")
    /\ UNCHANGED <<spawned, spawn, process, watcher, registered, restart, taskVars>>

UserRestarts ==
    /\ task # "deleted" /\ stopping["user"] = None /\ ~restart
    /\ MarkStopped("user") /\ restart' = TRUE
    /\ UNCHANGED <<spawned, spawn, process, watcher, registered, taskVars>>

\* Restart calls Start after Stop has returned, whatever the state is then.
RestartStarts ==
    /\ restart /\ stopping["user"] = None
    /\ restart' = FALSE
    /\ StartBody
    /\ UNCHANGED <<process, watcher, stopping, taskVars>>

\* The state says that the watcher has seen the end.
StopSeesEnd(who) ==
    /\ stopping[who] # None /\ state[stopping[who]] \in {"stopped", "error"}
    /\ stopping' = [stopping EXCEPT ![who] = None]
    /\ UNCHANGED <<serverVars, restart, taskVars>>

\* As Kill, without it.
StopGivesUp(who) ==
    /\ stopping[who] # None
    /\ stopping' = [stopping EXCEPT ![who] = None]
    /\ UNCHANGED <<serverVars, restart, taskVars>>

Kill(who) ==
    /\ stopping[who] # None
    /\ process' = [process EXCEPT ![stopping[who]] = "dead"]
    /\ stopping' = [stopping EXCEPT ![who] = None]
    /\ UNCHANGED <<spawned, spawn, watcher, registered, state, stopped, restart, taskVars>>

------------------------------------------------------------------------------
(* WatchBus: one event after the other, and Stop is part of the handling.      *)

\* A static page outlives the end of its task; nothing else with a process does.
ReadEvent ==
    /\ events # <<>> /\ stopping["bus"] = None
    /\ events' = Tail(events)
    /\ CASE Head(events) = "task_deleted" ->
                /\ MarkStopped("bus")
                /\ registered' = None
         [] Head(events) \in {"task_completed", "cancelled"} /\ registered \in Servers ->
                MarkStopped("bus") /\ UNCHANGED registered
         [] OTHER -> UNCHANGED <<registered, state, stopped, stopping>>
    /\ UNCHANGED <<site, task, turns, spawned, spawn, process, watcher, restart>>

------------------------------------------------------------------------------
Next ==
    \/ \E shape \in {"none", "server", "static"} : AgentWrites(shape)
    \/ \E end \in Ends : TurnEnds(end)
    \/ TurnBegins \/ DeleteTask \/ Start \/ EnsureStatic
    \/ \E k \in Servers : \/ SpawnFails(k) \/ SpawnProcess(k) \/ ProbeAnswers(k)
                          \/ MarkRunning(k) \/ ProbeTimesOut(k) \/ MarkLate(k)
                          \/ ServerListens(k) \/ ServerExits(k)
                          \/ \E clean \in BOOLEAN : WatchExit(k, clean)
    \/ UserStops \/ UserRestarts \/ RestartStarts \/ ReadEvent
    \/ \E who \in Stoppers : StopSeesEnd(who) \/ Kill(who)

StopStep(who) == StopSeesEnd(who) \/ Kill(who)
WatchStep(k) == \E clean \in BOOLEAN : WatchExit(k, clean)

\* Stop waits for a time and kills what is left, the exit of a process is seen,
\* and WatchBus reads on.
Fairness ==
    /\ \A who \in Stoppers : WF_previewVars(StopStep(who))
    /\ \A k \in Servers : WF_previewVars(WatchStep(k))
    /\ WF_previewVars(ReadEvent)

Spec == Init /\ [][Next]_previewVars /\ Fairness

\* A server that someone stops ends, whoever it is and also when it does not heed
\* the signal; the one way out is the failure of another start that is written
\* over its state while Stop looks at it (Stop and markState in core/preview.go).
StoppedServerEnds ==
    \A who \in Stoppers, k \in Servers :
        (stopping[who] = k) ~> (process[k] = "dead" \/ state[k] = "error")

\* A server that someone is stopping was started and carries the mark, so that
\* its end is taken for what was asked and not for a failure, whatever other
\* starts and stops register or mark meanwhile (Stop and the watcher of spawn in
\* core/preview.go).
StoppedServersAreMarked ==
    \A who \in Stoppers : stopping[who] # None =>
        stopped[stopping[who]] /\ process[stopping[who]] # "none"
===============================================================================
