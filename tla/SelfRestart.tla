---------------------------- MODULE SelfRestart ----------------------------
(***************************************************************************)
(* The service replaces itself: core/selfrestart.go, restart_journal.go,   *)
(* the handlers of api/admin.go, the wiring and the start in               *)
(* cmd/pieqi/main.go, TaskStore.load and TaskRunner.ResumeInterrupted.     *)
(*                                                                         *)
(* A restart runs in a goroutine of the old process: it swaps the binary   *)
(* (or not), writes the handoff journal, spawns the new process, closes    *)
(* its listener and waits for the ready signal; then it exits, or rolls    *)
(* the binary back and binds the port again.  The new process reads the    *)
(* journal, loads the tasks, resumes the interrupted ones, binds the port  *)
(* and writes the signal.  The two share files, the port and the database, *)
(* and nothing but those files orders their steps.                         *)
(*                                                                         *)
(* Abstracted: digests are the versions themselves, every timeout may      *)
(* strike at any time, and of a task only its status and the turn that     *)
(* some process runs for it are kept.  Operations on files may fail,       *)
(* MaxFaults times; a binary of Broken dies before it serves.              *)
(***************************************************************************)
EXTENDS Naturals, FiniteSets

CONSTANTS
    MaxRequests,     \* bound: restarts ever asked for
    MaxEvents,       \* bound: steps of turns and deliveries of builds meanwhile
    Tasks,
    MaxPid,          \* bound: processes ever started
    MaxFaults,       \* bound: failures of file operations and of the spawn
    Versions,        \* builds; the first process runs First
    First,
    NoFile, NoTask, NoJournal

ASSUME RestartAssumption ==
    /\ MaxPid \in Nat \ {0} /\ {MaxFaults, MaxRequests, MaxEvents} \subseteq Nat
    /\ First \in Versions /\ NoFile \notin Versions /\ NoTask \notin Tasks

VARIABLES
    disk,      \* what lies at execPath, at execPath.old and at the staging path
    journal,   \* restart-handoff.json
    ready,     \* the pid in restart-ready.json, 0 without the file
    port,      \* the pid that listens, 0 if none does
    proc,      \* the processes
    req,       \* the goroutines that carry out restarts
    stored,    \* the tasks in the database
    mem,       \* the tasks in the memory of each process
    turn,      \* the tasks that each process runs a turn for
    faults, events,
    repeat,    \* history: was a process asked again, later or within its restart
    broken     \* the builds that do not come up

files == <<disk, journal, ready>>
tasks == <<stored, mem, turn>>
env == <<events, broken>>
vars == <<files, port, proc, req, tasks, faults, repeat, env>>

Pids == 1..MaxPid
Requests == 1..MaxRequests
\* "idle": an outcome, or waiting for a choice, which a restart leaves alone.
Status == {"running", "approval", "idle", "failed"}
Live == {"running", "approval"}

Alive(p) == proc[p].st \notin {"none", "exited"}
Up(p) == proc[p].st \in {"serving", "released"}
Fault == faults < MaxFaults /\ faults' = faults + 1

Idle == [st |-> "idle", on |-> 1, swap |-> FALSE, initiator |-> NoTask]
Absent == [st |-> "none", image |-> NoFile, own |-> FALSE, swapped |-> FALSE,
           handoff |-> FALSE, asked |-> FALSE, verdict |-> "none", todo |-> {},
           swap |-> FALSE]

Init ==
    /\ disk \in {[exec |-> First, old |-> NoFile, staged |-> v] : v \in Versions \cup {NoFile}}
    /\ broken \in SUBSET (Versions \ {First})
    /\ journal = NoJournal /\ ready = 1 /\ port = 1 /\ faults = 0 /\ events = 0
    /\ proc = [p \in Pids |-> IF p = 1
                 THEN [Absent EXCEPT !.st = "serving", !.image = First, !.own = TRUE]
                 ELSE Absent]
    /\ req = [r \in Requests |-> Idle] /\ repeat = "none"
    /\ stored \in [Tasks -> {"running", "approval", "idle"}]
    /\ mem = [p \in Pids |-> IF p = 1 THEN stored ELSE [t \in Tasks |-> "idle"]]
    /\ turn = [p \in Pids |-> IF p = 1 THEN {t \in Tasks : stored[t] \in Live} ELSE {}]

-----------------------------------------------------------------------------
(* The restart, in the old process *)

Ended == {"idle", "refused", "handed over", "rolled back", "gave up"}
AtWork(r, p) == req[r].st \notin Ended /\ req[r].on = p

\* Nothing keeps a process from being asked again, within a restart of its or later.
Repeated(p) ==
    IF \E r \in Requests : AtWork(r, p) THEN "within"
    ELSE IF repeat = "none" /\ proc[p].asked THEN "later" ELSE repeat

\* POST /api/admin/restart decides by the staged file; /restart-only never does.
\* The goroutine first clears the journal of an earlier attempt of its process.
Accept(r) == \E p \in Pids, endpoint \in {"restart", "restart-only"}, i \in Tasks \cup {NoTask} :
    LET swap == endpoint = "restart" /\ disk.staged # NoFile IN
    /\ req[r].st = "idle" /\ \A o \in 1..(r - 1) : req[o].st # "idle"
    /\ port = p /\ Up(p)
    /\ i \in turn[p] \cup {NoTask}
    /\ req' = [req EXCEPT ![r] = [st |-> IF swap THEN "swap" ELSE "handoff", on |-> p,
                                  initiator |-> i, swap |-> swap]]
    /\ proc' = [proc EXCEPT ![p].asked = TRUE]
    /\ repeat' = Repeated(p)
    /\ journal' = IF proc[p].handoff THEN NoJournal ELSE journal
    /\ UNCHANGED <<disk, ready, port, tasks, faults, env>>

To(r, st) == req' = [req EXCEPT ![r].st = st]
Done(r, st) == req' = [req EXCEPT ![r] = [Idle EXCEPT !.st = st]]

\* Restart: the running binary is renamed, which needs a staged one to follow.
Backup(r) ==
    LET p == req[r].on IN
    /\ req[r].st = "swap" /\ Alive(p)
    /\ \/ /\ disk.staged # NoFile /\ disk.exec # NoFile
          /\ disk' = [disk EXCEPT !.old = disk.exec, !.exec = NoFile]
          /\ proc' = [proc EXCEPT ![p].swapped = TRUE]
          /\ To(r, "install")
          /\ UNCHANGED faults
       \/ /\ IF disk.staged = NoFile THEN disk' = disk
                                     ELSE disk' = [disk EXCEPT !.old = NoFile]
          /\ \/ disk.staged = NoFile \/ disk.exec = NoFile
             \/ faults < MaxFaults
          /\ faults' = IF disk.staged = NoFile \/ disk.exec = NoFile THEN faults ELSE faults + 1
          /\ Done(r, "refused")
          /\ UNCHANGED proc
    /\ UNCHANGED <<journal, ready, port, tasks, repeat, env>>

\* The backup returns to execPath.
NotRestored(d) == d
Restored(d) == [d EXCEPT !.exec = d.old, !.old = NoFile]

\* The copy of the staged binary; if it fails the backup returns.
Install(r) ==
    /\ req[r].st = "install" /\ Alive(req[r].on)
    /\ \/ /\ disk.staged # NoFile
          /\ disk' = [disk EXCEPT !.exec = disk.staged]
          /\ To(r, "tidy")
          /\ UNCHANGED faults
       \/ /\ (disk.staged = NoFile /\ UNCHANGED faults) \/ Fault
          /\ disk' = Restored(disk)
          /\ Done(r, "refused")
    /\ UNCHANGED <<journal, ready, port, proc, tasks, repeat, env>>

\* cleanupStagedIfConsumed: only the very build that was installed is removed.
Tidy(r) ==
    /\ req[r].st = "tidy" /\ Alive(req[r].on)
    /\ disk' = IF disk.staged = disk.exec THEN [disk EXCEPT !.staged = NoFile] ELSE disk
    /\ To(r, "handoff")
    /\ UNCHANGED <<journal, ready, port, proc, tasks, faults, repeat, env>>

LiveTaskIDs(p) == {t \in Tasks : mem[p][t] \in Live}
AffectedWithAny(p, i) == LiveTaskIDs(p) \cup {i}
Affected(p, i) == LiveTaskIDs(p) \cup ({i} \ {NoTask})
StagedOrSelf == IF disk.staged # NoFile THEN disk.staged ELSE disk.exec

\* writeHandoff: the digest of the staged file if there is one, and the tasks of now.
WriteHandoff(r) ==
    LET p == req[r].on IN
    /\ req[r].st = "handoff" /\ Alive(p)
    /\ proc' = [proc EXCEPT ![p].handoff = TRUE]
    /\ \/ /\ StagedOrSelf # NoFile
          /\ journal' = [sum |-> StagedOrSelf, affected |-> Affected(p, req[r].initiator)]
          /\ req' = [req EXCEPT ![r].st = "spawn", ![r].initiator = NoTask]
          /\ UNCHANGED faults
       \/ /\ \/ StagedOrSelf = NoFile /\ UNCHANGED faults
             \/ Fault
          /\ Done(r, "refused")
          /\ UNCHANGED journal
    /\ UNCHANGED <<disk, ready, port, tasks, repeat, env>>

\* spawnDetached; the journal is withdrawn if nothing was started.
Spawn(r) ==
    LET p == req[r].on IN
    /\ req[r].st = "spawn" /\ Alive(p)
    /\ \/ \E q \in Pids :
          /\ proc[q].st = "none" /\ \A o \in 1..(q - 1) : proc[o].st # "none"
          /\ disk.exec # NoFile
          /\ proc' = [proc EXCEPT ![q] = [Absent EXCEPT !.st = "booting", !.image = disk.exec,
                                            !.swap = req[r].swap]]
          /\ To(r, "spawned")
          /\ UNCHANGED <<journal, faults>>
       \/ /\ \/ disk.exec = NoFile /\ UNCHANGED faults
             \/ Fault
          /\ journal' = NoJournal
          /\ Done(r, "refused")
          /\ UNCHANGED proc
    /\ UNCHANGED <<disk, ready, port, tasks, repeat, env>>

\* The injected listener is closed: the first one, whoever listens by now.
Release(r) ==
    LET p == req[r].on IN
    /\ req[r].st = "spawned" /\ Alive(p)
    /\ port' = IF port = p /\ proc[p].own THEN 0 ELSE port
    /\ proc' = [proc EXCEPT ![p].own = FALSE, ![p].st = "released"]
    /\ To(r, "released")
    /\ UNCHANGED <<files, tasks, faults, repeat, env>>

\* awaitRestartReady begins by removing a signal that may be stale.
Await(r) ==
    /\ req[r].st = "released" /\ Alive(req[r].on)
    /\ ready' = 0
    /\ To(r, "waiting")
    /\ UNCHANGED <<disk, journal, port, proc, tasks, faults, repeat, env>>

\* What is left of a process that exits: its turns die with it.
Exit(p) ==
    /\ proc' = [proc EXCEPT ![p] = [Absent EXCEPT !.st = "exited"]]
    /\ mem' = [mem EXCEPT ![p] = [t \in Tasks |-> "idle"]]
    /\ turn' = [turn EXCEPT ![p] = {}]
    /\ port' = IF port = p THEN 0 ELSE port

\* Another process has written the signal.
Reported(p) == ready \notin {0, p}

SeeReady(r) ==
    LET p == req[r].on IN
    /\ req[r].st = "waiting" /\ Alive(p)
    /\ Reported(p)
    /\ Exit(p)
    /\ Done(r, "handed over")
    /\ UNCHANGED <<files, stored, faults, repeat, env>>

\* shouldExitAfterRelease gives up; rollbackBinary restores the backup if it can.
GiveUp(r) ==
    LET p == req[r].on IN
    /\ req[r].st = "waiting" /\ Alive(p)
    /\ \/ /\ proc[p].swapped /\ disk.old # NoFile /\ disk.exec # NoFile
          /\ disk' = Restored(disk)
          /\ UNCHANGED faults
       \/ /\ ~proc[p].swapped \/ disk.old = NoFile \/ disk.exec = NoFile
          /\ UNCHANGED <<disk, faults>>
       \/ /\ proc[p].swapped /\ disk.old # NoFile
          /\ Fault      \* one rename fails, what was moved goes back
          /\ UNCHANGED disk
    /\ To(r, "rebind")
    /\ UNCHANGED <<journal, ready, port, proc, tasks, repeat, env>>

StayUnbound(r) ==
    /\ req[r].st = "rebind" /\ Alive(req[r].on)
    /\ Done(r, "rolled back")
    /\ UNCHANGED <<files, port, proc, tasks, faults, repeat, env>>

\* rebindAndServe listens anew, unknown to SelfRestart.listener, or the process exits.
Rebind(r) ==
    LET p == req[r].on IN
    /\ req[r].st = "rebind" /\ Alive(p)
    /\ \/ /\ port = 0
          /\ port' = p
          /\ proc' = [proc EXCEPT ![p].st = "serving"]
          /\ Done(r, "rolled back")
          /\ UNCHANGED <<mem, turn>>
       \/ /\ port # 0
          /\ Exit(p)
          /\ Done(r, "gave up")
    /\ UNCHANGED <<files, stored, faults, repeat, env>>

-----------------------------------------------------------------------------
(* The new process *)

\* What load makes of a stored task: live ones fail unless they are to be resumed.
Loaded(interrupted) == [t \in Tasks |->
    IF t \notin interrupted /\ stored[t] \in Live THEN "failed" ELSE stored[t]]

\* ResolveRestartHandoff: the restart succeeded if execPath holds what was announced.
Verdict == CASE journal = NoJournal -> "ordinary"
             [] journal # NoJournal /\ journal.sum = disk.exec -> "succeeded"
             [] OTHER -> "mismatch"

\* The journal is read and removed, then NewTaskStore loads the tasks.
Boot(q) ==
    LET interrupted == IF Verdict = "succeeded" THEN journal.affected ELSE {} IN
    /\ proc[q].st = "booting" /\ proc[q].image \notin broken
    /\ proc' = [proc EXCEPT ![q].st = "binding", ![q].verdict = Verdict, ![q].todo = interrupted]
    /\ journal' = NoJournal
    /\ mem' = [mem EXCEPT ![q] = Loaded(interrupted)]
    /\ stored' = Loaded(interrupted)
    /\ UNCHANGED <<disk, ready, port, req, turn, faults, repeat, env>>

DieBooting(q) ==
    /\ proc[q].st = "booting" /\ proc[q].image \in broken
    /\ Exit(q)
    /\ UNCHANGED <<files, req, stored, faults, repeat, env>>

Put(p, t, st) ==
    /\ mem' = [mem EXCEPT ![p][t] = st]
    /\ stored' = [stored EXCEPT ![t] = st]

IsRunning(st) == st = "running"
IsInterrupted(st) == st \in Live

\* ResumeInterruptedWithInitiator, for one task: it runs before the port is bound.
Resume(q, t) ==
    /\ Alive(q) /\ t \in proc[q].todo
    /\ proc' = [proc EXCEPT ![q].todo = @ \ {t}]
    /\ \/ /\ mem[q][t] = "running"
          /\ turn' = [turn EXCEPT ![q] = @ \cup {t}]
          /\ UNCHANGED <<stored, mem>>
       \/ /\ IsInterrupted(mem[q][t])      \* not resumable, or its resumption fails
          /\ Put(q, t, "failed")
          /\ UNCHANGED turn
       \/ /\ ~IsInterrupted(mem[q][t])     \* settled in the meantime
          /\ UNCHANGED tasks
    /\ UNCHANGED <<files, port, req, faults, repeat, env>>

\* listenWithRetry: the port in time, or log.Fatal.
Bind(q) ==
    /\ proc[q].st = "binding"
    /\ \/ /\ port = 0
          /\ port' = q
          /\ proc' = [proc EXCEPT ![q].st = "bound", ![q].own = TRUE]
          /\ UNCHANGED <<mem, turn>>
       \/ /\ port # 0
          /\ Exit(q)
    /\ UNCHANGED <<files, req, stored, faults, repeat, env>>

\* MarkRestartReady, whose failure is logged only; then the server runs.
Mark(q) ==
    /\ proc[q].st = "bound"
    /\ proc' = [proc EXCEPT ![q].st = "serving"]
    /\ \/ ready' = q /\ UNCHANGED faults
       \/ Fault /\ UNCHANGED ready
    /\ UNCHANGED <<disk, journal, port, req, tasks, repeat, env>>

-----------------------------------------------------------------------------
(* Turns go on meanwhile, through messages of the channels too; a build is delivered *)

Event == events < MaxEvents /\ events' = events + 1

BeginTurn(p, t) ==
    /\ Up(p) /\ t \notin turn[p] /\ mem[p][t] \notin Live
    /\ Put(p, t, "running")
    /\ turn' = [turn EXCEPT ![p] = @ \cup {t}]

AskOrAnswer(p, t) ==
    /\ t \in turn[p]
    /\ \/ mem[p][t] = "running" /\ Put(p, t, "approval")
       \/ mem[p][t] = "approval" /\ Up(p) /\ Put(p, t, "running")
    /\ UNCHANGED turn

EndTurn(p, t) ==
    /\ t \in turn[p] /\ mem[p][t] = "running"
    /\ Put(p, t, "idle")
    /\ turn' = [turn EXCEPT ![p] = @ \ {t}]

TurnStep(p, t) ==
    /\ Event
    /\ BeginTurn(p, t) \/ AskOrAnswer(p, t) \/ EndTurn(p, t)
    /\ UNCHANGED <<files, port, proc, req, faults, repeat, broken>>

Deliver == \E v \in Versions :
    /\ Event
    /\ disk' = [disk EXCEPT !.staged = v]
    /\ UNCHANGED <<journal, ready, port, proc, req, tasks, faults, repeat, broken>>

RestartStep(r) ==
    Backup(r) \/ Install(r) \/ Tidy(r) \/ WriteHandoff(r) \/ Spawn(r)
        \/ Release(r) \/ Await(r) \/ SeeReady(r) \/ GiveUp(r) \/ Rebind(r)
BootStep(q) == Boot(q) \/ DieBooting(q) \/ Bind(q) \/ Mark(q)

Next ==
    \/ \E r \in Requests : Accept(r) \/ RestartStep(r)
    \/ \E q \in Pids : BootStep(q)
    \/ \E p \in Pids, t \in Tasks : Resume(p, t) \/ TurnStep(p, t)
    \/ Deliver

Spec == Init /\ [][Next]_vars

-----------------------------------------------------------------------------
(* Properties *)

TypeOK ==
    /\ disk \in [exec : Versions \cup {NoFile}, old : Versions \cup {NoFile},
                 staged : Versions \cup {NoFile}]
    /\ journal = NoJournal \/ (journal.sum \in Versions /\ journal.affected \subseteq Tasks)
    /\ ready \in 0..MaxPid /\ port \in 0..MaxPid /\ faults \in 0..MaxFaults
    /\ stored \in [Tasks -> Status] /\ mem \in [Pids -> [Tasks -> Status]]
    /\ turn \in [Pids -> SUBSET Tasks] /\ repeat \in {"none", "later", "within"}

\* Only overlapping restarts of one process lose the executable: execPath is empty
\* while a swap is between its two renames, and then its process is there to go on,
\* whatever fails (selfrestart.go, Restart and rollbackBinary).
BinaryIsThere ==
    disk.exec # NoFile \/ \E r \in Requests : req[r].st = "install" /\ Alive(req[r].on)
ExecutableStays == repeat # "within" => BinaryIsThere

\* A task that a process which got past its start shows as running or as waiting
\* for an approval has a turn in that process: load, the journal and
\* ResumeInterrupted leave no card that nobody can answer.
LiveIsOwned == \A p \in Pids : Alive(p) =>
    \A t \in Tasks : (mem[p][t] \in Live /\ t \notin proc[p].todo) => t \in turn[p]

\* At worst a restart does not happen: once its goroutine and the process it
\* started have come to an end, a living process listens (WaitAfterRelease)...
SomebodyListens ==
    \/ port # 0
    \/ \E r \in Requests : req[r].st \in {"released", "waiting", "rebind"} /\ Alive(req[r].on)
    \/ \E q \in Pids : proc[q].st \in {"booting", "binding"}
\* ... as long as no process was asked a second time (rebindAndServe).
PortIsHeld == repeat = "none" => SomebodyListens

\* A restart that replaces nothing is recognised as one by the process it starts,
\* which therefore resumes the interrupted tasks.
RestartOnlyIsRecognised ==
    \A p \in Pids : ~proc[p].swap => proc[p].verdict # "mismatch"
=============================================================================
