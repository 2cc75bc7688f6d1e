------------------------- MODULE SelfRestartProofs -------------------------
(***************************************************************************)
(* Theorems about SelfRestart for any number of processes, restarts,       *)
(* tasks, builds and failures: typing, the ownership of live cards, that   *)
(* only overlapping restarts of one process can lose the executable, and   *)
(* only a second restart of one process the port.                          *)
(*                                                                         *)
(* Two processes are related by the port, the ready signal and the binary  *)
(* only.  The invariant says what each process may infer from them: who is *)
(* before its release still listens, who is behind it does not, and a      *)
(* signal comes from a process that serves.                                *)
(***************************************************************************)
EXTENDS SelfRestart, TLAPS

ReqPC == {"idle", "swap", "install", "tidy", "handoff", "spawn", "spawned", "released",
          "waiting", "rebind", "refused", "handed over", "rolled back", "gave up"}
ProcPC == {"none", "booting", "binding", "bound", "serving", "released", "exited"}
Files == Versions \cup {NoFile}

Verdicts == {"none", "ordinary", "succeeded", "mismatch"}

\* The typing of the goroutines and of the processes, which TypeOK leaves out.
Goroutine == [st : ReqPC, on : Pids, swap : BOOLEAN, initiator : Tasks \cup {NoTask}]
Process == [st : ProcPC, image : Files, own : BOOLEAN, swapped : BOOLEAN, handoff : BOOLEAN,
            asked : BOOLEAN, verdict : Verdicts, todo : SUBSET Tasks, swap : BOOLEAN]
ActorsOK == req \in [Requests -> Goroutine] /\ proc \in [Pids -> Process]

TInv == TypeOK /\ ActorsOK

\* Nothing is in the memory of a process that was not started.
BlankIsIdle == \A p \in Pids : proc[p].st = "none" => \A t \in Tasks : mem[p][t] = "idle"

OInv == TInv /\ LiveIsOwned /\ BlankIsIdle

-----------------------------------------------------------------------------

\* A restart before and after it closed the listener.
Before(r) == req[r].st \in {"swap", "install", "tidy", "handoff", "spawn", "spawned"}
After(r) == req[r].st \in {"released", "waiting", "rebind"}
Active(r) == Before(r) \/ After(r)

\* A restart is carried out by a process that was asked for it and is up.
ActiveIsUp == \A r \in Requests : Active(r) => Up(req[r].on) /\ proc[req[r].on].asked
OneEach == \A r, s \in Requests : Active(r) /\ Active(s) /\ req[r].on = req[s].on => r = s

\* Before the release the process listens, through the listener SelfRestart knows;
\* after it, it does not.
BeforeListens == \A r \in Requests : Before(r) => port = req[r].on /\ proc[req[r].on].own
AfterDoesNot == \A r \in Requests : After(r) => port # req[r].on
UnaskedOwns == \A p \in Pids : Up(p) /\ ~proc[p].asked => proc[p].own
BoundOwns == \A p \in Pids : proc[p].st = "bound" => proc[p].own /\ ~proc[p].asked
YoungIsUnasked == \A p \in Pids : proc[p].st \in {"none", "booting", "binding"} => ~proc[p].asked

\* Who listens has bound the port; who has bound it listens, or is after a release.
ListenerIsUp == port # 0 => proc[port].st \in {"bound", "serving"}
UpListens == \A p \in Pids : Up(p) \/ proc[p].st = "bound" =>
    port = p \/ \E r \in Requests : After(r) /\ req[r].on = p

\* The ready signal is of a process that serves, and of none that has cleared it.
SignalIsUp ==
    /\ ready # 0 => Up(ready)
    /\ \A r \in Requests : req[r].st \in {"waiting", "rebind"} => ready # req[r].on

\* Somebody listens, or a restart will see to it.
Held == port # 0 \/ \E r \in Requests : After(r)

\* While the swap is between its two renames the backup is there.
InstallHasBackup ==
    \A r \in Requests : req[r].st = "install" => disk.exec = NoFile /\ disk.old # NoFile

Listening ==
    /\ ActiveIsUp /\ OneEach /\ BeforeListens /\ AfterDoesNot /\ UnaskedOwns /\ BoundOwns
    /\ YoungIsUnasked /\ ListenerIsUp /\ UpListens /\ SignalIsUp /\ Held

\* What of it holds until a process is asked again within a restart of its.
RunnerIsUp == \A r \in Requests : Active(r) => Up(req[r].on)
BeforeHasPort == \A r \in Requests : Before(r) => port = req[r].on
Alone == OneEach /\ RunnerIsUp /\ BeforeHasPort

Intact == disk.exec # NoFile \/ \E r \in Requests : req[r].st = "install"

PInv == TInv /\ (repeat = "none" => Listening)
DInv == TInv /\ (repeat # "within" => Alone /\ InstallHasBackup /\ Intact)

-----------------------------------------------------------------------------
(* What the steps do to the goroutines and the processes *)

LEMMA Constants == 1 \in Pids /\ 0 \notin Pids /\ 0..MaxPid = Pids \cup {0} /\ Idle \in Goroutine
  <1>1. 1 \in Pids /\ 0 \notin Pids /\ 0..MaxPid = Pids \cup {0}
    BY RestartAssumption DEF Pids
  <1> QED BY <1>1 DEF Idle, Goroutine, ReqPC

LEMMA ToEffect ==
  ASSUME req \in [Requests -> Goroutine], NEW r \in Requests, NEW st \in ReqPC, To(r, st)
  PROVE  /\ req' \in [Requests -> Goroutine]
         /\ req'[r].st = st /\ req'[r].on = req[r].on
         /\ \A s \in Requests \ {r} : req'[s] = req[s]
  BY DEF To, Goroutine

LEMMA DoneEffect ==
  ASSUME req \in [Requests -> Goroutine], NEW r \in Requests, NEW st \in ReqPC, Done(r, st)
  PROVE  /\ req' \in [Requests -> Goroutine]
         /\ req'[r].st = st
         /\ \A s \in Requests \ {r} : req'[s] = req[s]
  <1>1. [Idle EXCEPT !.st = st] \in Goroutine /\ [Idle EXCEPT !.st = st].st = st
    BY Constants DEF Goroutine, Idle
  <1> QED BY <1>1 DEF Done

LEMMA ExitEffect ==
  ASSUME TInv, NEW p \in Pids, Exit(p)
  PROVE  /\ proc' \in [Pids -> Process] /\ proc'[p].st = "exited"
         /\ \A q \in Pids \ {p} : proc'[q] = proc[q]
         /\ mem' \in [Pids -> [Tasks -> Status]] /\ mem'[p] = [t \in Tasks |-> "idle"]
         /\ \A q \in Pids \ {p} : mem'[q] = mem[q]
         /\ turn' \in [Pids -> SUBSET Tasks]
         /\ \A q \in Pids \ {p} : turn'[q] = turn[q]
         /\ port' = (IF port = p THEN 0 ELSE port) /\ port' \in 0..MaxPid
  <1>1. [Absent EXCEPT !.st = "exited"] \in Process /\ [Absent EXCEPT !.st = "exited"].st = "exited"
    BY DEF Absent, Process, ProcPC, Files, Verdicts
  <1>2. [t \in Tasks |-> "idle"] \in [Tasks -> Status]
    BY DEF Status
  <1>3. 0 \in 0..MaxPid
    BY Constants
  <1> USE DEF TInv, TypeOK, ActorsOK
  <1>4. /\ proc' \in [Pids -> Process] /\ proc'[p].st = "exited"
        /\ \A q \in Pids \ {p} : proc'[q] = proc[q]
    BY <1>1 DEF Exit
  <1>5. /\ mem' \in [Pids -> [Tasks -> Status]] /\ mem'[p] = [t \in Tasks |-> "idle"]
        /\ \A q \in Pids \ {p} : mem'[q] = mem[q]
    BY <1>2 DEF Exit
  <1>6. turn' \in [Pids -> SUBSET Tasks] /\ \A q \in Pids \ {p} : turn'[q] = turn[q]
    BY DEF Exit
  <1>7. port' = (IF port = p THEN 0 ELSE port) /\ port' \in 0..MaxPid
    BY <1>3 DEF Exit
  <1> QED BY <1>4, <1>5, <1>6, <1>7

\* The changes of one process: its type stays, and so do the other processes.
LEMMA StEffect ==
  ASSUME proc \in [Pids -> Process], NEW p \in Pids, NEW st \in ProcPC,
         proc' = [proc EXCEPT ![p].st = st]
  PROVE  /\ proc' \in [Pids -> Process] /\ proc'[p].st = st
         /\ proc'[p].own = proc[p].own /\ proc'[p].asked = proc[p].asked
         /\ proc'[p].todo = proc[p].todo
         /\ \A q \in Pids \ {p} : proc'[q] = proc[q]
  BY DEF Process

LEMMA ReleaseEffect ==
  ASSUME proc \in [Pids -> Process], NEW p \in Pids, NEW st \in ProcPC,
         proc' = [proc EXCEPT ![p].own = FALSE, ![p].st = st]
  PROVE  /\ proc' \in [Pids -> Process] /\ proc'[p].st = st
         /\ proc'[p].asked = proc[p].asked /\ proc'[p].todo = proc[p].todo
         /\ \A q \in Pids \ {p} : proc'[q] = proc[q]
  <1>1. proc' \in [Pids -> Process]
    BY ZenonT(60) DEF Process
  <1> QED BY <1>1 DEF Process

LEMMA BindEffect ==
  ASSUME proc \in [Pids -> Process], NEW p \in Pids, NEW st \in ProcPC,
         proc' = [proc EXCEPT ![p].st = st, ![p].own = TRUE]
  PROVE  /\ proc' \in [Pids -> Process] /\ proc'[p].st = st /\ proc'[p].own
         /\ proc'[p].asked = proc[p].asked /\ proc'[p].todo = proc[p].todo
         /\ \A q \in Pids \ {p} : proc'[q] = proc[q]
  <1>1. proc' \in [Pids -> Process]
    BY ZenonT(60) DEF Process
  <1> QED BY <1>1 DEF Process

\* What a start writes down of the journal it has read.
Loads(p, v, todo) ==
    proc' = [proc EXCEPT ![p].st = "binding", ![p].verdict = v, ![p].todo = todo]

LEMMA LoadsEffect ==
  ASSUME proc \in [Pids -> Process], NEW p \in Pids,
         NEW v \in Verdicts, NEW todo \in SUBSET Tasks, Loads(p, v, todo)
  PROVE  /\ proc' \in [Pids -> Process] /\ proc'[p].st = "binding" /\ proc'[p].todo = todo
         /\ proc'[p].own = proc[p].own /\ proc'[p].asked = proc[p].asked
         /\ \A q \in Pids \ {p} : proc'[q] = proc[q]
  <1> DEFINE new == [proc[p] EXCEPT !.st = "binding", !.verdict = v, !.todo = todo]
  <1>0. "binding" \in ProcPC
    BY DEF ProcPC
  <1>1. /\ new \in Process /\ new.st = "binding" /\ new.todo = todo
        /\ new.own = proc[p].own /\ new.asked = proc[p].asked
    BY <1>0 DEF Process
  <1>2. proc' = [proc EXCEPT ![p] = new]
    BY DEF Process, Loads
  <1> QED BY <1>1, <1>2

LEMMA SpawnEffect ==
  ASSUME proc \in [Pids -> Process], NEW p \in Pids, NEW v \in Files, NEW b \in BOOLEAN,
         proc' = [proc EXCEPT ![p] = [Absent EXCEPT !.st = "booting", !.image = v, !.swap = b]]
  PROVE  /\ proc' \in [Pids -> Process] /\ proc'[p].st = "booting" /\ ~proc'[p].asked
         /\ \A q \in Pids \ {p} : proc'[q] = proc[q]
  <1> DEFINE new == [Absent EXCEPT !.st = "booting", !.image = v, !.swap = b]
  <1>1. new \in Process /\ new.st = "booting" /\ ~new.asked
    BY DEF Absent, Process, ProcPC, Files, Verdicts
  <1> QED BY <1>1

\* Changes that leave alone what the invariants read of a process.
LEMMA FlagEffect ==
  ASSUME proc \in [Pids -> Process], NEW p \in Pids,
         \/ proc' = [proc EXCEPT ![p].swapped = TRUE]
         \/ proc' = [proc EXCEPT ![p].handoff = TRUE]
         \/ proc' = proc
  PROVE  /\ proc' \in [Pids -> Process]
         /\ \A q \in Pids : /\ proc'[q].st = proc[q].st /\ proc'[q].own = proc[q].own
                           /\ proc'[q].asked = proc[q].asked /\ proc'[q].todo = proc[q].todo
  <1>1. CASE proc' = [proc EXCEPT ![p].swapped = TRUE]
    BY ZenonT(60), <1>1 DEF Process
  <1>2. CASE proc' = [proc EXCEPT ![p].handoff = TRUE]
    BY ZenonT(60), <1>2 DEF Process
  <1> QED BY <1>1, <1>2

-----------------------------------------------------------------------------
(* Typing *)

LEMMA InitTInv == Init => TInv
  <1> SUFFICES ASSUME Init PROVE TInv
    OBVIOUS
  <1>1. [Absent EXCEPT !.st = "serving", !.image = First, !.own = TRUE] \in Process
        /\ Absent \in Process
    BY RestartAssumption DEF Absent, Process, ProcPC, Files, Verdicts
  <1>2. ActorsOK
    BY <1>1, Constants DEF Init, ActorsOK
  <1>3. \A t \in Tasks : stored[t] \in Status
    BY DEF Init, Status
  <1>4. stored \in [Tasks -> Status] /\ mem \in [Pids -> [Tasks -> Status]]
    BY <1>3 DEF Init, Status
  <1>5. turn \in [Pids -> SUBSET Tasks]
    BY DEF Init
  <1>6. ready \in 0..MaxPid /\ port \in 0..MaxPid /\ faults \in 0..MaxFaults
    BY RestartAssumption, Constants DEF Init
  <1>7. disk \in [exec : Versions \cup {NoFile}, old : Versions \cup {NoFile},
                  staged : Versions \cup {NoFile}]
    BY RestartAssumption DEF Init
  <1>8. journal = NoJournal /\ repeat = "none"
    BY DEF Init
  <1> QED BY <1>2, <1>4, <1>5, <1>6, <1>7, <1>8 DEF TInv, TypeOK

\* What load makes of the table is a table.
LEMMA LoadedType ==
  ASSUME TInv, NEW interrupted
  PROVE  Loaded(interrupted) \in [Tasks -> Status]
  BY DEF TInv, TypeOK, Loaded, Status

\* The files and the number of failures, step by step.
DiskType == disk \in [exec : Files, old : Files, staged : Files]
JournalType == journal = NoJournal \/ (journal.sum \in Versions /\ journal.affected \subseteq Tasks)
FaultsType == faults \in 0..MaxFaults

LEMMA FaultStep == FaultsType /\ Fault => FaultsType'
  BY RestartAssumption DEF FaultsType, Fault

LEMMA FilesStep ==
  ASSUME TInv, [Next]_vars
  PROVE  DiskType' /\ FaultsType' /\ ready' \in 0..MaxPid
  <1> USE DEF TInv, TypeOK, ActorsOK, DiskType, Files, files, env
  <1>0. FaultsType
    BY DEF FaultsType
  <1>1. ASSUME NEW r \in Requests, Accept(r)
        PROVE  DiskType' /\ FaultsType' /\ ready' \in 0..MaxPid
    BY <1>0, <1>1 DEF Accept, FaultsType
  <1>2. ASSUME NEW r \in Requests, RestartStep(r)
        PROVE  DiskType' /\ FaultsType' /\ ready' \in 0..MaxPid
    <2>1. CASE Backup(r)
      <3>1. FaultsType'
        BY <1>0, <2>1, RestartAssumption DEF Backup, FaultsType
      <3> QED BY <2>1, <3>1 DEF Backup
    <2>2. CASE Install(r)
      <3>1. FaultsType'
        BY <1>0, <2>2, FaultStep DEF Install, FaultsType
      <3> QED BY <2>2, <3>1 DEF Install, Restored
    <2>3. CASE Tidy(r)
      BY <1>0, <2>3 DEF Tidy, FaultsType
    <2>4. CASE WriteHandoff(r)
      BY <1>0, <2>4, FaultStep DEF WriteHandoff, FaultsType
    <2>5. CASE Spawn(r)
      BY <1>0, <2>5, FaultStep DEF Spawn, FaultsType
    <2>6. CASE Release(r)
      BY <1>0, <2>6 DEF Release, FaultsType
    <2>7. CASE Await(r)
      BY <1>0, <2>7, Constants DEF Await, FaultsType
    <2>8. CASE SeeReady(r)
      BY <1>0, <2>8 DEF SeeReady, FaultsType
    <2>9. CASE GiveUp(r)
      <3>1. FaultsType'
        BY <1>0, <2>9, FaultStep DEF GiveUp, FaultsType
      <3> QED BY <2>9, <3>1 DEF GiveUp, Restored
    <2>10. CASE Rebind(r)
      BY <1>0, <2>10 DEF Rebind, FaultsType
    <2> QED BY <1>2, <2>1, <2>2, <2>3, <2>4, <2>5, <2>6, <2>7, <2>8, <2>9, <2>10 DEF RestartStep
  <1>3. ASSUME NEW q \in Pids, BootStep(q)
        PROVE  DiskType' /\ FaultsType' /\ ready' \in 0..MaxPid
    BY <1>0, <1>3, Constants, FaultStep DEF BootStep, Boot, DieBooting, Bind, Mark, FaultsType
  <1>4. ASSUME NEW q \in Pids, NEW t \in Tasks, Resume(q, t) \/ TurnStep(q, t)
        PROVE  DiskType' /\ FaultsType' /\ ready' \in 0..MaxPid
    BY <1>0, <1>4 DEF Resume, TurnStep, FaultsType
  <1>5. CASE Deliver \/ UNCHANGED vars
    BY <1>0, <1>5 DEF Deliver, vars, FaultsType
  <1> QED BY <1>1, <1>2, <1>3, <1>4, <1>5 DEF Next

\* The goroutines and the processes keep their types.
LEMMA ActorsStep ==
  ASSUME TInv, [Next]_vars
  PROVE  ActorsOK'
  <1> USE DEF TInv, ActorsOK
  <1>1. ASSUME NEW r \in Requests, Accept(r) PROVE ActorsOK'
    <2>1. PICK p \in Pids, endpoint \in {"restart", "restart-only"}, i \in Tasks \cup {NoTask} :
            /\ req' = [req EXCEPT ![r] =
                 [st |-> IF endpoint = "restart" /\ disk.staged # NoFile THEN "swap" ELSE "handoff",
                  on |-> p, initiator |-> i,
                  swap |-> endpoint = "restart" /\ disk.staged # NoFile]]
            /\ proc' = [proc EXCEPT ![p].asked = TRUE]
      BY <1>1 DEF Accept
    <2>2. req' \in [Requests -> Goroutine]
      BY <2>1 DEF Goroutine, ReqPC
    <2>3. proc' \in [Pids -> Process]
      BY ZenonT(60), <2>1 DEF Process
    <2> QED BY <2>2, <2>3
  <1>2. ASSUME NEW r \in Requests, RestartStep(r) PROVE ActorsOK'
    <2>0. req[r].on \in Pids /\ {"install", "tidy", "handoff", "spawned", "released", "waiting",
                                 "rebind", "refused", "handed over", "rolled back", "gave up"}
                                \subseteq ReqPC
      BY DEF Goroutine, ReqPC
    <2>1. CASE Backup(r)
      <3>1. req' \in [Requests -> Goroutine]
        BY <2>0, <2>1, ToEffect, DoneEffect DEF Backup
      <3>2. proc' = [proc EXCEPT ![req[r].on].swapped = TRUE] \/ proc' = proc
        BY <2>1 DEF Backup
      <3> QED BY <2>0, <3>1, <3>2, FlagEffect
    <2>2. CASE Install(r)
      BY <2>0, <2>2, ToEffect, DoneEffect DEF Install
    <2>3. CASE Tidy(r)
      BY <2>0, <2>3, ToEffect DEF Tidy
    <2>4. CASE WriteHandoff(r)
      <3>1. req' \in [Requests -> Goroutine]
        <4>1. CASE req' = [req EXCEPT ![r].st = "spawn", ![r].initiator = NoTask]
          BY ZenonT(60), <4>1 DEF Goroutine, ReqPC
        <4> QED BY <2>0, <2>4, <4>1, DoneEffect DEF WriteHandoff
      <3>2. proc' = [proc EXCEPT ![req[r].on].handoff = TRUE]
        BY <2>4 DEF WriteHandoff
      <3> QED BY <2>0, <3>1, <3>2, FlagEffect
    <2>5. CASE Spawn(r)
      <3>1. req' \in [Requests -> Goroutine]
        BY <2>0, <2>5, ToEffect, DoneEffect DEF Spawn
      <3>2. disk.exec \in Files /\ req[r].swap \in BOOLEAN
        BY DEF TypeOK, Files, Goroutine
      <3>3. \/ \E q \in Pids : proc' = [proc EXCEPT ![q] =
                 [Absent EXCEPT !.st = "booting", !.image = disk.exec, !.swap = req[r].swap]]
            \/ proc' = proc
        BY <2>5 DEF Spawn
      <3> QED BY <3>1, <3>2, <3>3, SpawnEffect
    <2>6. CASE Release(r)
      <3>1. proc' = [proc EXCEPT ![req[r].on].own = FALSE, ![req[r].on].st = "released"]
        BY <2>6 DEF Release
      <3>2. proc' \in [Pids -> Process]
        BY <2>0, <3>1, ReleaseEffect DEF ProcPC
      <3> QED BY <2>0, <2>6, <3>2, ToEffect DEF Release
    <2>7. CASE Await(r)
      BY <2>0, <2>7, ToEffect DEF Await
    <2>8. CASE SeeReady(r)
      BY <2>0, <2>8, DoneEffect, ExitEffect DEF SeeReady
    <2>9. CASE GiveUp(r)
      BY <2>0, <2>9, ToEffect DEF GiveUp
    <2>10. CASE Rebind(r)
      <3>1. req' \in [Requests -> Goroutine]
        BY <2>0, <2>10, DoneEffect DEF Rebind
      <3>2. CASE proc' = [proc EXCEPT ![req[r].on].st = "serving"]
        BY <2>0, <3>1, <3>2, StEffect DEF ProcPC
      <3> QED BY <2>0, <2>10, <3>1, <3>2, ExitEffect DEF Rebind
    <2> QED BY <1>2, <2>1, <2>2, <2>3, <2>4, <2>5, <2>6, <2>7, <2>8, <2>9, <2>10 DEF RestartStep
  <1>3. ASSUME NEW q \in Pids, BootStep(q) PROVE ActorsOK'
    <2>1. CASE Boot(q)
      <3> DEFINE i == IF Verdict = "succeeded" THEN journal.affected ELSE {}
      <3>1. Verdict \in Verdicts /\ i \subseteq Tasks
        BY DEF Verdict, Verdicts, TypeOK
      <3> HIDE DEF i
      <3>2. Loads(q, Verdict, i)
        BY <2>1 DEF Boot, i, Loads
      <3> QED BY <2>1, <3>1, <3>2, LoadsEffect DEF Boot
    <2>2. CASE DieBooting(q)
      BY <2>2, ExitEffect DEF DieBooting
    <2>3. CASE Bind(q)
      <3>1. CASE proc' = [proc EXCEPT ![q].st = "bound", ![q].own = TRUE]
        <4>1. proc' \in [Pids -> Process]
          BY <3>1, BindEffect DEF ProcPC
        <4> QED BY <2>3, <4>1 DEF Bind
      <3> QED BY <2>3, <3>1, ExitEffect DEF Bind
    <2>4. CASE Mark(q)
      <3>1. proc' = [proc EXCEPT ![q].st = "serving"]
        BY <2>4 DEF Mark
      <3>2. proc' \in [Pids -> Process]
        BY <3>1, StEffect DEF ProcPC
      <3> QED BY <2>4, <3>2 DEF Mark
    <2> QED BY <1>3, <2>1, <2>2, <2>3, <2>4 DEF BootStep
  <1>4. ASSUME NEW q \in Pids, NEW t \in Tasks, Resume(q, t) PROVE ActorsOK'
    <2>1. proc' = [proc EXCEPT ![q].todo = @ \ {t}]
      BY <1>4 DEF Resume
    <2>2. proc' \in [Pids -> Process]
      BY <2>1 DEF Process
    <2> QED BY <1>4, <2>2 DEF Resume
  <1>5. ASSUME NEW p \in Pids, NEW t \in Tasks, TurnStep(p, t) PROVE ActorsOK'
    BY <1>5 DEF TurnStep
  <1>6. CASE Deliver \/ UNCHANGED vars
    BY <1>6 DEF Deliver, vars
  <1> QED BY <1>1, <1>2, <1>3, <1>4, <1>5, <1>6 DEF Next

\* The journal names the builds there are, the port a process or none.
LEMMA HandoffStep ==
  ASSUME TInv, [Next]_vars
  PROVE  JournalType' /\ port' \in 0..MaxPid
  <1> USE DEF TInv, TypeOK, ActorsOK, JournalType, files
  <1>1. ASSUME NEW r \in Requests, Accept(r) PROVE JournalType' /\ port' \in 0..MaxPid
    BY <1>1 DEF Accept
  <1>2. ASSUME NEW r \in Requests, RestartStep(r) PROVE JournalType' /\ port' \in 0..MaxPid
    <2>0. req[r].on \in Pids /\ req[r].initiator \in Tasks \cup {NoTask}
      BY DEF Goroutine
    <2>1. CASE Backup(r) \/ Install(r) \/ Tidy(r) \/ Await(r) \/ GiveUp(r)
      BY <2>1 DEF Backup, Install, Tidy, Await, GiveUp
    <2>2. CASE WriteHandoff(r)
      <3>1. Affected(req[r].on, req[r].initiator) \subseteq Tasks
        BY <2>0 DEF Affected, LiveTaskIDs
      <3>2. StagedOrSelf # NoFile => StagedOrSelf \in Versions
        BY DEF StagedOrSelf
      <3> QED BY <2>2, <3>1, <3>2 DEF WriteHandoff
    <2>3. CASE Spawn(r)
      BY <2>3 DEF Spawn
    <2>4. CASE Release(r)
      BY <2>0, <2>4, Constants DEF Release
    <2>5. CASE SeeReady(r)
      BY <2>0, <2>5, ExitEffect DEF SeeReady
    <2>6. CASE Rebind(r)
      BY <2>0, <2>6, ExitEffect, Constants DEF Rebind
    <2> QED BY <1>2, <2>1, <2>2, <2>3, <2>4, <2>5, <2>6 DEF RestartStep
  <1>3. ASSUME NEW q \in Pids, BootStep(q) PROVE JournalType' /\ port' \in 0..MaxPid
    BY <1>3, ExitEffect, Constants DEF BootStep, Boot, DieBooting, Bind, Mark
  <1>4. ASSUME NEW q \in Pids, NEW t \in Tasks, Resume(q, t) \/ TurnStep(q, t)
        PROVE  JournalType' /\ port' \in 0..MaxPid
    BY <1>4 DEF Resume, TurnStep
  <1>5. CASE Deliver \/ UNCHANGED vars
    BY <1>5 DEF Deliver, vars
  <1> QED BY <1>1, <1>2, <1>3, <1>4, <1>5 DEF Next

TasksType ==
    stored \in [Tasks -> Status] /\ mem \in [Pids -> [Tasks -> Status]]
    /\ turn \in [Pids -> SUBSET Tasks]

LEMMA PutEffect ==
  ASSUME TInv, NEW p \in Pids, NEW t \in Tasks, NEW st \in Status, Put(p, t, st)
  PROVE  /\ stored' \in [Tasks -> Status] /\ mem' \in [Pids -> [Tasks -> Status]]
         /\ mem'[p][t] = st /\ \A u \in Tasks \ {t} : mem'[p][u] = mem[p][u]
         /\ \A q \in Pids \ {p} : mem'[q] = mem[q]
  BY DEF Put, TInv, TypeOK

LEMMA TasksStep ==
  ASSUME TInv, [Next]_vars
  PROVE  TasksType'
  <1> USE DEF TInv, TypeOK, ActorsOK, TasksType, tasks
  <1>0. {"running", "approval", "idle", "failed"} \subseteq Status
    BY DEF Status
  <1>1. ASSUME NEW r \in Requests, Accept(r) PROVE TasksType'
    BY <1>1 DEF Accept
  <1>2. ASSUME NEW r \in Requests, RestartStep(r) PROVE TasksType'
    <2>0. req[r].on \in Pids
      BY DEF Goroutine
    <2>1. CASE SeeReady(r)
      BY <2>0, <2>1, ExitEffect DEF SeeReady
    <2>2. CASE Rebind(r)
      BY <2>0, <2>2, ExitEffect DEF Rebind
    <2> QED BY <1>2, <2>1, <2>2 DEF RestartStep, Backup, Install, Tidy, WriteHandoff, Spawn,
                                    Release, Await, GiveUp
  <1>3. ASSUME NEW q \in Pids, BootStep(q) PROVE TasksType'
    <2>1. CASE Boot(q)
      <3> DEFINE i == IF Verdict = "succeeded" THEN journal.affected ELSE {}
      <3>1. Loaded(i) \in [Tasks -> Status]
        BY LoadedType
      <3> HIDE DEF i
      <3>2. mem' = [mem EXCEPT ![q] = Loaded(i)] /\ stored' = Loaded(i) /\ turn' = turn
        BY <2>1 DEF Boot, i
      <3> QED BY <3>1, <3>2
    <2> QED BY <1>3, <2>1, ExitEffect DEF BootStep, DieBooting, Bind, Mark
  <1>4. ASSUME NEW q \in Pids, NEW t \in Tasks, Resume(q, t) PROVE TasksType'
    <2>1. turn' \in [Pids -> SUBSET Tasks]
      <3>1. turn' = [turn EXCEPT ![q] = @ \cup {t}] \/ turn' = turn
        BY <1>4 DEF Resume
      <3> QED BY <3>1
    <2> QED BY <1>0, <1>4, <2>1, PutEffect DEF Resume
  <1>5. ASSUME NEW p \in Pids, NEW t \in Tasks, TurnStep(p, t) PROVE TasksType'
    <2>1. turn' \in [Pids -> SUBSET Tasks]
      <3>1. \/ turn' = [turn EXCEPT ![p] = @ \cup {t}]
            \/ turn' = [turn EXCEPT ![p] = @ \ {t}]
            \/ turn' = turn
        BY <1>5 DEF TurnStep, BeginTurn, AskOrAnswer, EndTurn
      <3> QED BY <3>1
    <2> QED BY <1>0, <1>5, <2>1, PutEffect DEF TurnStep, BeginTurn, AskOrAnswer, EndTurn
  <1>6. CASE Deliver \/ UNCHANGED vars
    BY <1>6 DEF Deliver, vars
  <1> QED BY <1>1, <1>2, <1>3, <1>4, <1>5, <1>6 DEF Next

\* What the history says of the past it says for good.
LEMMA RepeatIsKept ==
  ASSUME repeat \in {"none", "later", "within"}, [Next]_vars
  PROVE  repeat' \in {"none", "later", "within"}
         /\ (repeat' # "within" => repeat # "within") /\ (repeat' = "none" => repeat = "none")
  <1>1. ASSUME NEW r \in Requests, Accept(r)
        PROVE  repeat' \in {"none", "later", "within"}
         /\ (repeat' # "within" => repeat # "within") /\ (repeat' = "none" => repeat = "none")
    <2>1. PICK p \in Pids : repeat' = Repeated(p)
      BY <1>1 DEF Accept
    <2> QED BY <2>1 DEF Repeated
  <1>2. CASE repeat' = repeat
    BY <1>2
  <1> QED BY <1>1, <1>2 DEF Next, vars, RestartStep, Backup, Install, Tidy, WriteHandoff, Spawn,
             Release, Await, SeeReady, GiveUp, Rebind, BootStep, Boot, DieBooting, Bind, Mark,
             Resume, TurnStep, Deliver

LEMMA NextTInv == TInv /\ [Next]_vars => TInv'
  BY FilesStep, ActorsStep, HandoffStep, TasksStep, RepeatIsKept
     DEF TInv, TypeOK, DiskType, Files, FaultsType, JournalType, TasksType

\* Every variable keeps its type, through any number of restarts, crashes of a new
\* process and failing file operations (selfrestart.go, restart_journal.go).
THEOREM TypeCorrect == Spec => []TypeOK
  <1>1. TInv => TypeOK
    BY DEF TInv
  <1> QED BY <1>1, InitTInv, NextTInv, PTL DEF Spec

-----------------------------------------------------------------------------
(* Live cards are owned *)

LEMMA InitOInv == Init => OInv
  <1> SUFFICES ASSUME Init PROVE LiveIsOwned /\ BlankIsIdle
    BY InitTInv DEF OInv
  <1>1. \A p \in Pids, t \in Tasks : mem[p][t] \in Live => t \in turn[p]
    <2>1. \A t \in Tasks : mem[1][t] = stored[t] /\ turn[1] = {u \in Tasks : stored[u] \in Live}
      BY Constants DEF Init
    <2>2. \A p \in Pids \ {1}, t \in Tasks : mem[p][t] = "idle"
      BY DEF Init
    <2> QED BY <2>1, <2>2 DEF Live
  <1>2. \A p \in Pids : proc[p].st = "none" => p # 1
    BY DEF Init, Absent
  <1>3. BlankIsIdle
    BY <1>2 DEF Init, BlankIsIdle
  <1> QED BY <1>1, <1>3 DEF LiveIsOwned

Owned(p) == Alive(p) => \A t \in Tasks : (mem[p][t] \in Live /\ t \notin proc[p].todo) => t \in turn[p]
Blank(p) == proc[p].st = "none" => \A t \in Tasks : mem[p][t] = "idle"

\* A process keeps what holds of it when its tasks do not change and it is not
\* started anew.
LEMMA SameTasks ==
  ASSUME OInv, NEW p \in Pids,
         mem'[p] = mem[p], turn'[p] = turn[p], proc'[p].todo = proc[p].todo,
         proc'[p].st # proc[p].st => Alive(p) /\ proc'[p].st # "none"
  PROVE  Owned(p)' /\ Blank(p)'
  BY DEF OInv, LiveIsOwned, BlankIsIdle, Owned, Blank, Alive

LEMMA GoneOwnsNothing ==
  ASSUME TInv, NEW p \in Pids, Exit(p)
  PROVE  Owned(p)' /\ Blank(p)'
  BY ExitEffect DEF Owned, Blank, Alive

\* An exit touches the one that exits.
LEMMA ExitOwned ==
  ASSUME OInv, NEW p \in Pids, Exit(p)
  PROVE  \A q \in Pids : Owned(q)' /\ Blank(q)'
  <1>1. ASSUME NEW q \in Pids \ {p} PROVE Owned(q)' /\ Blank(q)'
    BY ExitEffect, SameTasks DEF OInv
  <1> QED BY <1>1, GoneOwnsNothing DEF OInv

\* The steps of a restart change no task, except that its process may exit.
LEMMA RestartOwned ==
  ASSUME OInv, NEW r \in Requests, Accept(r) \/ RestartStep(r), NEW p \in Pids
  PROVE  Owned(p)' /\ Blank(p)'
  <1> USE DEF OInv, TInv, ActorsOK, tasks
  <1>0. req[r].on \in Pids
    BY DEF Goroutine
  <1>1. CASE Accept(r)
    <2>1. PICK q \in Pids : proc' = [proc EXCEPT ![q].asked = TRUE]
      BY <1>1 DEF Accept
    <2>2. proc'[p].st = proc[p].st /\ proc'[p].todo = proc[p].todo
      BY <2>1 DEF Process
    <2> QED BY <1>1, <2>2, SameTasks DEF Accept
  <1>2. CASE Backup(r) \/ WriteHandoff(r)
    <2>1. proc'[p].st = proc[p].st /\ proc'[p].todo = proc[p].todo
      BY <1>0, <1>2, FlagEffect DEF Backup, WriteHandoff
    <2> QED BY <1>2, <2>1, SameTasks DEF Backup, WriteHandoff
  <1>3. CASE Install(r) \/ Tidy(r) \/ Await(r) \/ GiveUp(r)
    BY <1>3, SameTasks DEF Install, Tidy, Await, GiveUp
  <1>4. CASE Spawn(r)
    <2>1. mem' = mem /\ turn' = turn
      BY <1>4 DEF Spawn
    <2>2. CASE proc' = proc
      BY <2>1, <2>2, SameTasks
    <2>3. CASE proc' # proc
      <3>1. PICK q \in Pids : /\ proc[q].st = "none"
                              /\ proc' = [proc EXCEPT ![q] = [Absent EXCEPT !.st = "booting",
                                            !.image = disk.exec, !.swap = req[r].swap]]
        BY <1>4, <2>3 DEF Spawn
      <3>2. disk.exec \in Files /\ req[r].swap \in BOOLEAN
        BY DEF TypeOK, Files, Goroutine
      <3>3. CASE p = q
        <4>1. proc'[p].st = "booting"
          BY <3>1, <3>2, <3>3, SpawnEffect
        <4>2. \A t \in Tasks : mem[p][t] = "idle"
          BY <3>1, <3>3 DEF BlankIsIdle
        <4> QED BY <2>1, <4>1, <4>2 DEF Owned, Blank, Live
      <3>4. CASE p # q
        BY <2>1, <3>1, <3>2, <3>4, SpawnEffect, SameTasks
      <3> QED BY <3>3, <3>4
    <2> QED BY <2>2, <2>3
  <1>5. CASE Release(r)
    <2>1. proc'[p].todo = proc[p].todo
          /\ (proc'[p].st # proc[p].st => Alive(p) /\ proc'[p].st = "released")
      BY ZenonT(60), <1>0, <1>5, ReleaseEffect DEF Release, ProcPC
    <2> QED BY <1>5, <2>1, SameTasks DEF Release
  <1>6. CASE SeeReady(r)
    BY <1>0, <1>6, ExitOwned DEF SeeReady
  <1>7. CASE Rebind(r)
    <2>1. CASE proc' = [proc EXCEPT ![req[r].on].st = "serving"] /\ UNCHANGED <<mem, turn>>
      <3>1. proc'[p].todo = proc[p].todo
            /\ (proc'[p].st # proc[p].st => Alive(p) /\ proc'[p].st = "serving")
        BY ZenonT(60), <1>0, <1>7, <2>1, StEffect DEF Rebind, ProcPC
      <3> QED BY <2>1, <3>1, SameTasks
    <2> QED BY <1>0, <1>7, <2>1, ExitOwned DEF Rebind
  <1> QED BY <1>1, <1>2, <1>3, <1>4, <1>5, <1>6, <1>7 DEF RestartStep

\* A start: load fails the live tasks that are not to be resumed.
LEMMA BootOwned ==
  ASSUME OInv, NEW q \in Pids, BootStep(q), NEW p \in Pids
  PROVE  Owned(p)' /\ Blank(p)'
  <1> USE DEF OInv, TInv, ActorsOK
  <1>1. CASE Boot(q)
    <2> DEFINE i == IF Verdict = "succeeded" THEN journal.affected ELSE {}
    <2>1. Verdict \in Verdicts /\ i \subseteq Tasks
      BY DEF Verdict, Verdicts, TypeOK
    <2>2. \A t \in Tasks : Loaded(i)[t] \in Live => t \in i
      BY DEF Loaded, Live
    <2> HIDE DEF i
    <2>3. /\ Loads(q, Verdict, i)
          /\ mem' = [mem EXCEPT ![q] = Loaded(i)] /\ turn' = turn /\ proc[q].st = "booting"
      BY <1>1 DEF Boot, i, Loads
    <2>4. proc'[q].st = "binding" /\ proc'[q].todo = i /\ \A o \in Pids \ {q} : proc'[o] = proc[o]
      BY <2>1, <2>3, LoadsEffect
    <2>5. CASE p = q
      <3>1. mem'[q] = Loaded(i)
        BY <2>3 DEF TypeOK
      <3> QED BY <2>2, <2>4, <2>5, <3>1 DEF Owned, Blank
    <2>6. CASE p # q
      BY <2>3, <2>4, <2>6, SameTasks DEF TypeOK
    <2> QED BY <2>5, <2>6
  <1>2. CASE DieBooting(q)
    BY <1>2, ExitOwned DEF DieBooting
  <1>3. CASE Bind(q)
    <2>1. CASE proc' = [proc EXCEPT ![q].st = "bound", ![q].own = TRUE] /\ UNCHANGED <<mem, turn>>
      <3>1. proc'[p].todo = proc[p].todo
            /\ (proc'[p].st # proc[p].st => Alive(p) /\ proc'[p].st = "bound")
        BY ZenonT(60), <1>3, <2>1, BindEffect DEF Bind, ProcPC, Alive
      <3> QED BY <2>1, <3>1, SameTasks
    <2> QED BY <1>3, <2>1, ExitOwned DEF Bind
  <1>4. CASE Mark(q)
    <2>1. proc'[p].todo = proc[p].todo
          /\ (proc'[p].st # proc[p].st => Alive(p) /\ proc'[p].st = "serving")
      BY <1>4, StEffect DEF Mark, ProcPC, Alive
    <2> QED BY <1>4, <2>1, SameTasks DEF Mark, tasks
  <1> QED BY <1>1, <1>2, <1>3, <1>4 DEF BootStep

\* A resumption takes a task from the list and leaves it with a turn, or not live.
LEMMA ResumeOwned ==
  ASSUME OInv, NEW q \in Pids, NEW t \in Tasks, Resume(q, t), NEW p \in Pids
  PROVE  Owned(p)' /\ Blank(p)'
  <1> USE DEF OInv, TInv, ActorsOK, tasks
  <1>1. /\ proc'[p].st = proc[p].st /\ proc'[q].todo = proc[q].todo \ {t}
        /\ p # q => proc'[p] = proc[p]
    BY DEF Resume, Process
  <1>2. "failed" \in Status
    BY DEF Status
  <1>3. CASE p # q
    <2>1. mem'[p] = mem[p] /\ turn'[p] = turn[p]
      BY <1>2, <1>3, PutEffect DEF Resume, TypeOK
    <2> QED BY <1>1, <1>3, <2>1, SameTasks
  <1>4. CASE p = q
    <2>0. Alive(q)
      BY DEF Resume
    <2>1. \A u \in Tasks \ {t} : mem'[q][u] = mem[q][u]
      BY <1>2, PutEffect DEF Resume
    <2>2. turn[q] \subseteq turn'[q]
      BY DEF Resume, TypeOK
    <2>3. mem'[q][t] \in Live => t \in turn'[q]
      BY <1>2, PutEffect DEF Resume, TypeOK, IsInterrupted, Live
    <2>4. Owned(p)'
      BY <1>1, <1>4, <2>0, <2>1, <2>2, <2>3 DEF Owned, LiveIsOwned
    <2>5. Blank(p)'
      BY <1>1, <1>4, <2>0 DEF Blank, Alive
    <2> QED BY <2>4, <2>5
  <1> QED BY <1>3, <1>4

\* A step of a turn: what becomes live has the turn, and the turn that ends leaves
\* its task settled.
LEMMA TurnOwned ==
  ASSUME OInv, NEW q \in Pids, NEW t \in Tasks, TurnStep(q, t), NEW p \in Pids
  PROVE  Owned(p)' /\ Blank(p)'
  <1> USE DEF OInv, TInv, ActorsOK
  <1>0. {"running", "approval", "idle"} \subseteq Status /\ proc' = proc
    BY DEF Status, TurnStep
  <1>1. CASE p # q
    <2>1. mem'[p] = mem[p]
      BY <1>0, <1>1, PutEffect DEF TurnStep, BeginTurn, AskOrAnswer, EndTurn
    <2>2. turn'[p] = turn[p]
      BY <1>1 DEF TurnStep, BeginTurn, AskOrAnswer, EndTurn, TypeOK
    <2> QED BY <1>0, <2>1, <2>2, SameTasks
  <1>2. CASE p = q
    <2>1. \A u \in Tasks \ {t} : mem'[q][u] = mem[q][u]
      BY <1>0, PutEffect DEF TurnStep, BeginTurn, AskOrAnswer, EndTurn
    <2>2. \A u \in Tasks \ {t} : u \in turn'[q] <=> u \in turn[q]
      BY DEF TurnStep, BeginTurn, AskOrAnswer, EndTurn, TypeOK
    <2>3. mem'[q][t] \in Live => t \in turn'[q]
      BY <1>0, PutEffect DEF TurnStep, BeginTurn, AskOrAnswer, EndTurn, TypeOK, Live
    <2>4. Owned(p)'
      BY <1>0, <1>2, <2>1, <2>2, <2>3 DEF Owned, LiveIsOwned, Alive
    <2>5. Blank(p)'
      <3>1. ASSUME proc[q].st = "none" PROVE FALSE
        <4>1. mem[q][t] = "idle" /\ ~Up(q)
          BY <3>1 DEF BlankIsIdle, Up
        <4> QED BY <4>1 DEF TurnStep, BeginTurn, AskOrAnswer, EndTurn
      <3> QED BY <1>0, <1>2, <3>1 DEF Blank
    <2> QED BY <2>4, <2>5
  <1> QED BY <1>1, <1>2

LEMMA NextOInv == OInv /\ [Next]_vars => OInv'
  <1> SUFFICES ASSUME OInv, [Next]_vars PROVE \A p \in Pids : Owned(p)' /\ Blank(p)'
    BY NextTInv DEF OInv, LiveIsOwned, BlankIsIdle, Owned, Blank
  <1>1. ASSUME Deliver \/ UNCHANGED vars, NEW p \in Pids PROVE Owned(p)' /\ Blank(p)'
    BY <1>1, SameTasks DEF Deliver, vars, tasks
  <1> QED BY <1>1, RestartOwned, BootOwned, ResumeOwned, TurnOwned DEF Next

\* A card that shows a task at work has a turn behind it, in whatever process shows
\* it and after any number of restarts (TaskStore.load and ResumeInterrupted).
THEOREM CardsAreOwned == Spec => []LiveIsOwned
  <1>1. OInv => LiveIsOwned
    BY DEF OInv
  <1> QED BY <1>1, InitOInv, NextOInv, PTL DEF Spec

-----------------------------------------------------------------------------
(* The port is held as long as no process is asked twice, and the executable stays *)
(* as long as no process is asked again within a restart of its                    *)

LEMMA InitPInv == Init => PInv /\ DInv
  <1> SUFFICES ASSUME Init PROVE PInv /\ DInv
    OBVIOUS
  <1>1. TInv
    BY InitTInv
  <1>2. \A r \in Requests : ~Active(r) /\ req[r].st = "idle"
    BY DEF Init, Idle, Active, Before, After
  <1>3. /\ proc[1].st = "serving" /\ proc[1].own
        /\ \A p \in Pids : ~proc[p].asked /\ (p # 1 => proc[p].st = "none")
    BY Constants DEF Init, Absent
  <1>4. port = 1 /\ ready = 1
    BY DEF Init
  <1>5. ActiveIsUp /\ OneEach /\ BeforeListens /\ AfterDoesNot /\ InstallHasBackup
    BY <1>2 DEF ActiveIsUp, OneEach, BeforeListens, AfterDoesNot, Active, InstallHasBackup
  <1>6. UnaskedOwns /\ BoundOwns /\ YoungIsUnasked /\ ListenerIsUp /\ Held
    BY <1>3, <1>4 DEF UnaskedOwns, BoundOwns, YoungIsUnasked, ListenerIsUp, Held, Up
  <1>7. UpListens /\ SignalIsUp
    BY <1>2, <1>3, <1>4 DEF UpListens, SignalIsUp, Up
  <1>8. Intact
    BY RestartAssumption DEF Init, Intact
  <1>9. RunnerIsUp /\ BeforeHasPort
    BY <1>2 DEF RunnerIsUp, BeforeHasPort, Active
  <1> QED BY <1>1, <1>5, <1>6, <1>7, <1>8, <1>9 DEF PInv, DInv, Listening, Alone

\* What the invariant reads of the processes is unchanged.
SameProcesses == \A q \in Pids :
    proc'[q].st = proc[q].st /\ proc'[q].own = proc[q].own /\ proc'[q].asked = proc[q].asked

\* A restart that goes on before its release, or is refused, leaves all as it was.
LEMMA BeforeStep ==
  ASSUME TInv, Listening, NEW r \in Requests, Before(r), req'[r].on = req[r].on \/ ~Active(r)',
         ~After(r)', \A s \in Requests \ {r} : req'[s] = req[s],
         SameProcesses, port' = port, ready' = ready
  PROVE  Listening'
  <1> USE DEF Listening, SameProcesses
  <1>1. \A s \in Requests : (Active(s)' => Active(s) /\ req'[s].on = req[s].on)
                         /\ (Before(s)' => Before(s)) /\ (After(s)' <=> After(s))
    BY DEF Active, Before, After
  <1>2. \A s \in Requests : After(s)' => req'[s].on = req[s].on
    BY DEF Before, After
  <1>3. \A s \in Requests : req[s].on \in Pids
    BY DEF TInv, ActorsOK, Goroutine
  <1>4. \A p \in Pids : Up(p)' <=> Up(p)
    BY DEF Up
  <1>5. ActiveIsUp' /\ OneEach'
    BY <1>1, <1>3, <1>4 DEF ActiveIsUp, OneEach
  <1>6. BeforeListens' /\ AfterDoesNot'
    BY <1>1, <1>2, <1>3 DEF BeforeListens, AfterDoesNot, Active
  <1>7. UnaskedOwns' /\ BoundOwns' /\ YoungIsUnasked'
    BY <1>4 DEF UnaskedOwns, BoundOwns, YoungIsUnasked
  <1>8. ListenerIsUp' /\ Held'
    BY <1>1, Constants DEF ListenerIsUp, Held, TInv, TypeOK
  <1>9. UpListens'
    BY <1>1, <1>2, <1>4 DEF UpListens
  <1>10. SignalIsUp'
    <2>1. \A s \in Requests : req'[s].st \in {"waiting", "rebind"} =>
            req[s].st \in {"waiting", "rebind"} /\ req'[s].on = req[s].on
      BY DEF After
    <2> QED BY <1>4, <2>1, Constants DEF SignalIsUp, TInv, TypeOK
  <1> QED BY <1>5, <1>6, <1>7, <1>8, <1>9, <1>10

\* Steps of turns and of a delivery, and resumptions: nothing of this changes.
LEMMA QuietStep ==
  ASSUME TInv, Listening, req' = req, SameProcesses, port' = port, ready' = ready
  PROVE  Listening'
  <1> USE DEF Listening, SameProcesses
  <1>1. \A s \in Requests : req'[s] = req[s] /\ (Active(s)' <=> Active(s))
                         /\ (Before(s)' <=> Before(s)) /\ (After(s)' <=> After(s))
    BY DEF Active, Before, After
  <1>2. \A s \in Requests : req[s].on \in Pids
    BY DEF TInv, ActorsOK, Goroutine
  <1>3. \A p \in Pids : Up(p)' <=> Up(p)
    BY DEF Up
  <1>4. ActiveIsUp' /\ OneEach' /\ BeforeListens' /\ AfterDoesNot'
    BY <1>1, <1>2, <1>3 DEF ActiveIsUp, OneEach, BeforeListens, AfterDoesNot
  <1>5. UnaskedOwns' /\ BoundOwns' /\ YoungIsUnasked'
    BY <1>3 DEF UnaskedOwns, BoundOwns, YoungIsUnasked
  <1>6. ListenerIsUp' /\ Held' /\ UpListens' /\ SignalIsUp'
    BY <1>1, <1>3, Constants DEF ListenerIsUp, Held, UpListens, SignalIsUp, TInv, TypeOK
  <1> QED BY <1>4, <1>5, <1>6

\* A process is asked: it listens, through the listener it has had from its start.
LEMMA AcceptStep ==
  ASSUME TInv, Listening, NEW r \in Requests, Accept(r), repeat' = "none"
  PROVE  Listening'
  <1> USE DEF Listening, TInv, ActorsOK
  <1>1. PICK p \in Pids : /\ req[r].st = "idle" /\ port = p /\ Up(p) /\ ~proc[p].asked
                          /\ proc' = [proc EXCEPT ![p].asked = TRUE]
                          /\ req'[r].on = p /\ req'[r].st \in {"swap", "handoff"}
                          /\ \A s \in Requests \ {r} : req'[s] = req[s]
    <2>1. PICK p \in Pids, i \in Tasks \cup {NoTask}, b \in BOOLEAN :
            /\ req[r].st = "idle" /\ port = p /\ Up(p) /\ repeat' = Repeated(p)
            /\ proc' = [proc EXCEPT ![p].asked = TRUE]
            /\ req' = [req EXCEPT ![r] = [st |-> IF b THEN "swap" ELSE "handoff", on |-> p,
                                         initiator |-> i, swap |-> b]]
      BY DEF Accept
    <2>2. ~proc[p].asked
      BY <2>1 DEF Repeated
    <2> QED BY <2>1, <2>2
  <1>2. port' = port /\ ready' = ready
    BY DEF Accept
  <1>3. /\ \A q \in Pids : proc'[q].st = proc[q].st /\ proc'[q].own = proc[q].own
        /\ \A q \in Pids : proc'[q].asked <=> (proc[q].asked \/ q = p)
    BY <1>1 DEF Process
  <1>4. Before(r)' /\ ~After(r)' /\ ~Active(r) /\ ~After(r)
    BY <1>1 DEF Before, After, Active
  <1>5. \A s \in Requests \ {r} : (Active(s)' <=> Active(s)) /\ (Before(s)' <=> Before(s))
                               /\ (After(s)' <=> After(s)) /\ req[s].on \in Pids
    BY <1>1 DEF Before, After, Active, Goroutine
  <1>6. \A q \in Pids : Up(q)' <=> Up(q)
    BY <1>3 DEF Up
  <1>7. \A s \in Requests : Active(s) => req[s].on # p
    BY <1>1 DEF ActiveIsUp
  <1>8. ActiveIsUp' /\ OneEach'
    BY <1>1, <1>3, <1>4, <1>5, <1>6, <1>7 DEF ActiveIsUp, OneEach
  <1>9. BeforeListens' /\ AfterDoesNot'
    BY <1>1, <1>2, <1>3, <1>4, <1>5 DEF BeforeListens, AfterDoesNot, UnaskedOwns, Active
  <1>10. UnaskedOwns' /\ BoundOwns' /\ YoungIsUnasked'
    BY <1>1, <1>3, <1>6 DEF UnaskedOwns, BoundOwns, YoungIsUnasked, Up
  <1>11. ListenerIsUp' /\ Held'
    BY <1>1, <1>2, <1>3, <1>4, <1>5, Constants DEF ListenerIsUp, Held
  <1>12. UpListens'
    BY <1>1, <1>2, <1>3, <1>4, <1>5, <1>6 DEF UpListens
  <1>13. SignalIsUp'
    BY <1>1, <1>2, <1>5, <1>6, Constants DEF SignalIsUp, TypeOK
  <1> QED BY <1>8, <1>9, <1>10, <1>11, <1>12, <1>13

\* The successor is started: a process that has not been there.
LEMMA SpawnStep ==
  ASSUME TInv, Listening, NEW r \in Requests, Spawn(r)
  PROVE  Listening'
  <1> USE DEF Listening, TInv, ActorsOK
  <1>1. port' = port /\ ready' = ready /\ Before(r)
    BY DEF Spawn, Before
  <1>2. /\ req'[r].st \in {"spawned", "refused"}
        /\ req'[r].st = "spawned" => req'[r].on = req[r].on
        /\ \A s \in Requests \ {r} : req'[s] = req[s]
    BY ToEffect, DoneEffect DEF Spawn, ReqPC
  <1>3. CASE proc' = proc
    <2>1. ~After(r)' /\ (req'[r].on = req[r].on \/ ~Active(r)')
      BY <1>2 DEF Before, After, Active
    <2>2. SameProcesses
      BY <1>3 DEF SameProcesses
    <2> QED BY <1>1, <1>2, <2>1, <2>2, BeforeStep
  <1>4. CASE proc' # proc
    <2>1. PICK q \in Pids : /\ proc[q].st = "none"
                            /\ proc' = [proc EXCEPT ![q] = [Absent EXCEPT !.st = "booting",
                                          !.image = disk.exec, !.swap = req[r].swap]]
      BY <1>4 DEF Spawn
    <2>2. disk.exec \in Files /\ req[r].swap \in BOOLEAN
      BY DEF TypeOK, Files, Goroutine
    <2>3. /\ proc'[q].st = "booting" /\ ~proc'[q].asked
          /\ \A o \in Pids \ {q} : proc'[o] = proc[o]
      BY <2>1, <2>2, SpawnEffect
    <2>4. \A o \in Pids : Up(o)' <=> (Up(o) /\ o # q)
      BY <2>1, <2>3 DEF Up
    <2>5. \A s \in Requests : Active(s) => req[s].on # q
      BY <2>1 DEF ActiveIsUp, Up
    <2>6. req'[r].st = "spawned" /\ req'[r].on = req[r].on
      BY <1>4, ToEffect DEF Spawn, ReqPC
    <2>7. \A s \in Requests : (Active(s)' <=> Active(s)) /\ (Before(s)' <=> Before(s))
                           /\ (After(s)' <=> After(s)) /\ req'[s].on = req[s].on
                           /\ req[s].on \in Pids
      BY <1>1, <1>2, <2>6 DEF Before, After, Active, Goroutine
    <2>8. port # q /\ ready # q
      BY <2>1, Constants DEF ListenerIsUp, SignalIsUp, Up
    <2>9. ActiveIsUp' /\ OneEach'
      BY <2>3, <2>4, <2>5, <2>7 DEF ActiveIsUp, OneEach
    <2>10. BeforeListens' /\ AfterDoesNot'
      BY <1>1, <2>3, <2>5, <2>7 DEF BeforeListens, AfterDoesNot, Active
    <2>11. UnaskedOwns' /\ BoundOwns' /\ YoungIsUnasked'
      BY <2>3, <2>4 DEF UnaskedOwns, BoundOwns, YoungIsUnasked
    <2>12. ListenerIsUp' /\ Held' /\ UpListens'
      <3>1. port \in Pids \cup {0}
        BY Constants DEF TypeOK
      <3>2. ListenerIsUp'
        BY <1>1, <2>3, <2>8, <3>1 DEF ListenerIsUp
      <3> QED BY <1>1, <2>3, <2>4, <2>7, <3>2 DEF Held, UpListens
    <2>13. SignalIsUp'
      <3>1. \A s \in Requests : req'[s].st \in {"waiting", "rebind"} =>
              req[s].st \in {"waiting", "rebind"} /\ req'[s].on = req[s].on
        BY <1>2, <2>6
      <3> QED BY <1>1, <2>4, <2>8, <3>1, Constants DEF SignalIsUp, TypeOK
    <2> QED BY <2>9, <2>10, <2>11, <2>12, <2>13
  <1> QED BY <1>3, <1>4

\* The listener is closed: from now on the restart is behind its release.
LEMMA ReleaseStep ==
  ASSUME TInv, Listening, NEW r \in Requests, Release(r)
  PROVE  Listening'
  <1> USE DEF Listening, TInv, ActorsOK
  <1> DEFINE p == req[r].on
  <1>0. p \in Pids /\ Before(r) /\ Active(r) /\ "released" \in ReqPC /\ "released" \in ProcPC
    BY DEF Goroutine, Release, Before, Active, ReqPC, ProcPC
  <1>1. /\ port = p /\ proc[p].own /\ proc[p].asked /\ Up(p) /\ port' = 0 /\ ready' = ready
    BY <1>0 DEF Release, BeforeListens, ActiveIsUp, files
  <1>2. /\ proc'[p].st = "released" /\ proc'[p].asked = proc[p].asked
        /\ \A o \in Pids \ {p} : proc'[o] = proc[o]
    BY <1>0, ReleaseEffect DEF Release
  <1>3. /\ req'[r].st = "released" /\ req'[r].on = p
        /\ \A s \in Requests \ {r} : req'[s] = req[s]
    BY <1>0, ToEffect DEF Release
  <1>4. After(r)' /\ ~Before(r)' /\ Active(r)'
    BY <1>3 DEF After, Before, Active
  <1>5. \A s \in Requests \ {r} : (Active(s)' <=> Active(s)) /\ (Before(s)' <=> Before(s))
                               /\ (After(s)' <=> After(s)) /\ req[s].on \in Pids
    BY <1>3 DEF Before, After, Active, Goroutine
  <1>6. \A o \in Pids : Up(o)' <=> Up(o)
    BY <1>1, <1>2 DEF Up
  <1>7. ActiveIsUp' /\ OneEach'
    <2>1. \A s \in Requests : Active(s)' => Active(s) /\ req'[s].on = req[s].on /\ req[s].on \in Pids
      BY <1>0, <1>3, <1>5
    <2>2. \A o \in Pids : proc'[o].asked = proc[o].asked
      BY <1>2
    <2> QED BY <1>6, <2>1, <2>2 DEF ActiveIsUp, OneEach
  <1>8. BeforeListens' /\ AfterDoesNot'
    <2>1. \A s \in Requests \ {r} : ~Before(s)
      BY <1>0, <1>1 DEF BeforeListens, OneEach, Active
    <2> QED BY <1>0, <1>1, <1>3, <1>4, <1>5, <2>1, Constants DEF BeforeListens, AfterDoesNot
  <1>9. UnaskedOwns' /\ BoundOwns' /\ YoungIsUnasked'
    BY <1>1, <1>2, <1>6 DEF UnaskedOwns, BoundOwns, YoungIsUnasked
  <1>10. ListenerIsUp' /\ Held' /\ UpListens'
    BY <1>1, <1>2, <1>3, <1>4, <1>5, <1>6 DEF ListenerIsUp, Held, UpListens
  <1>11. SignalIsUp'
    BY <1>1, <1>3, <1>6, Constants DEF SignalIsUp, TypeOK
  <1> QED BY <1>7, <1>8, <1>9, <1>10, <1>11

\* From the release to the rebind, only the signal changes: it is cleared.
LEMMA AfterStep ==
  ASSUME TInv, Listening, NEW r \in Requests, Await(r) \/ GiveUp(r)
  PROVE  Listening'
  <1> USE DEF Listening, TInv, ActorsOK
  <1>1. /\ req'[r].st \in {"waiting", "rebind"} /\ req'[r].on = req[r].on /\ After(r)
        /\ \A s \in Requests \ {r} : req'[s] = req[s]
    BY ToEffect DEF Await, GiveUp, After, ReqPC
  <1>2. proc' = proc /\ port' = port
    BY DEF Await, GiveUp
  <1>3. \A s \in Requests : (Active(s)' <=> Active(s)) /\ (Before(s)' <=> Before(s))
                         /\ (After(s)' <=> After(s)) /\ req'[s].on = req[s].on
                         /\ req[s].on \in Pids
    BY <1>1 DEF Before, After, Active, Goroutine
  <1>4. \A p \in Pids : Up(p)' <=> Up(p)
    BY <1>2 DEF Up
  <1>5. ActiveIsUp' /\ OneEach' /\ BeforeListens' /\ AfterDoesNot'
    BY <1>2, <1>3, <1>4 DEF ActiveIsUp, OneEach, BeforeListens, AfterDoesNot
  <1>6. UnaskedOwns' /\ BoundOwns' /\ YoungIsUnasked'
    BY <1>2, <1>4 DEF UnaskedOwns, BoundOwns, YoungIsUnasked
  <1>7. ListenerIsUp' /\ Held' /\ UpListens'
    BY <1>2, <1>3, <1>4 DEF ListenerIsUp, Held, UpListens
  <1>8. SignalIsUp'
    <2>1. CASE Await(r)
      BY <1>3, <2>1, Constants DEF Await, SignalIsUp
    <2>2. CASE GiveUp(r)
      <3>1. ready' = ready /\ req[r].st = "waiting"
        BY <2>2 DEF GiveUp
      <3>2. \A s \in Requests : req'[s].st \in {"waiting", "rebind"} =>
              req[s].st \in {"waiting", "rebind"} /\ req'[s].on = req[s].on
        BY <1>1, <3>1
      <3> QED BY <1>4, <3>1, <3>2, Constants DEF SignalIsUp, TypeOK
    <2> QED BY <2>1, <2>2
  <1> QED BY <1>5, <1>6, <1>7, <1>8

\* A process leaves after its restart: it did not listen, and the signal is not its.
LEMMA LeaveStep ==
  ASSUME TInv, Listening, NEW r \in Requests, After(r), Exit(req[r].on),
         ~Active(r)', \A s \in Requests \ {r} : req'[s] = req[s],
         ready' = ready, ready # req[r].on,
         port # 0 \/ \E s \in Requests \ {r} : After(s)
  PROVE  Listening'
  <1> USE DEF Listening, TInv, ActorsOK
  <1> DEFINE p == req[r].on
  <1>0. p \in Pids
    BY DEF Goroutine
  <1>1. /\ proc'[p].st = "exited" /\ \A o \in Pids \ {p} : proc'[o] = proc[o]
    BY <1>0, ExitEffect
  <1>2. port' = port
    BY <1>0, ExitEffect DEF AfterDoesNot
  <1>3. \A s \in Requests \ {r} : (Active(s)' <=> Active(s)) /\ (Before(s)' <=> Before(s))
                               /\ (After(s)' <=> After(s)) /\ req[s].on \in Pids
    BY DEF Before, After, Active, Goroutine
  <1>4. \A o \in Pids : Up(o)' <=> (Up(o) /\ o # p)
    BY <1>0, <1>1 DEF Up
  <1>5. \A s \in Requests \ {r} : Active(s) => req[s].on # p
    BY DEF OneEach, Active
  <1>6. ~Before(r)' /\ ~After(r)'
    BY DEF Active
  <1>7. ActiveIsUp' /\ OneEach'
    BY <1>1, <1>3, <1>4, <1>5 DEF ActiveIsUp, OneEach
  <1>8. BeforeListens' /\ AfterDoesNot'
    BY <1>1, <1>2, <1>3, <1>5, <1>6 DEF BeforeListens, AfterDoesNot, Active
  <1>9. UnaskedOwns' /\ BoundOwns' /\ YoungIsUnasked'
    BY <1>0, <1>1, <1>4 DEF UnaskedOwns, BoundOwns, YoungIsUnasked
  <1>10. port # p
    BY DEF AfterDoesNot
  <1>11. ListenerIsUp' /\ Held'
    BY <1>1, <1>2, <1>3, <1>10, Constants DEF ListenerIsUp, Held, TypeOK
  <1>12. UpListens'
    BY <1>0, <1>1, <1>2, <1>3, <1>4 DEF UpListens
  <1>13. SignalIsUp'
    <2>1. \A s \in Requests : req'[s].st \in {"waiting", "rebind"} =>
            req[s].st \in {"waiting", "rebind"} /\ req'[s].on = req[s].on
      BY <1>6 DEF After
    <2> QED BY <1>4, <2>1, Constants DEF SignalIsUp, TypeOK
  <1> QED BY <1>7, <1>8, <1>9, <1>11, <1>12, <1>13

\* Who sees the signal of another knows that somebody else listens, or is about to
\* by a restart of its own.
LEMMA SeeReadyStep ==
  ASSUME TInv, Listening, NEW r \in Requests, SeeReady(r)
  PROVE  Listening'
  <1> USE DEF Listening, TInv, ActorsOK
  <1>1. /\ ready # 0 /\ ready # req[r].on /\ After(r) /\ Exit(req[r].on)
        /\ Done(r, "handed over") /\ ready' = ready
    BY DEF SeeReady, Reported, After, files
  <1>2. /\ req'[r].st = "handed over" /\ \A s \in Requests \ {r} : req'[s] = req[s]
    BY <1>1, DoneEffect DEF ReqPC
  <1>3. ~Active(r)'
    BY <1>2 DEF Active, Before, After
  <1>4. ready \in Pids /\ Up(ready)
    BY <1>1, Constants DEF SignalIsUp, TypeOK
  <1>5. port # 0 \/ \E s \in Requests \ {r} : After(s)
    BY <1>1, <1>4, Constants DEF UpListens
  <1> QED BY <1>1, <1>2, <1>3, <1>5, LeaveStep

\* The port is taken back, or somebody else has it.
LEMMA RebindStep ==
  ASSUME TInv, Listening, NEW r \in Requests, Rebind(r)
  PROVE  Listening'
  <1> USE DEF Listening, TInv, ActorsOK
  <1> DEFINE p == req[r].on
  <1>0. p \in Pids /\ After(r) /\ ready # p /\ ready' = ready
    BY DEF Goroutine, Rebind, After, SignalIsUp, files
  <1>1. /\ req'[r].st \in {"rolled back", "gave up"} /\ \A s \in Requests \ {r} : req'[s] = req[s]
    BY DoneEffect DEF Rebind, ReqPC
  <1>2. ~Active(r)' /\ ~Before(r)' /\ ~After(r)' /\ Active(r)
    BY <1>0, <1>1 DEF Active, Before, After
  <1>3. CASE port # 0
    BY <1>0, <1>1, <1>2, <1>3, LeaveStep DEF Rebind
  <1>4. CASE port = 0
    <2>1. port' = p /\ proc' = [proc EXCEPT ![p].st = "serving"]
      BY <1>4 DEF Rebind
    <2>2. /\ proc'[p].st = "serving" /\ proc'[p].own = proc[p].own
          /\ proc'[p].asked = proc[p].asked
          /\ \A o \in Pids \ {p} : proc'[o] = proc[o]
      BY <1>0, <2>1, StEffect DEF ProcPC
    <2>3. Up(p) /\ proc[p].asked
      BY <1>2 DEF ActiveIsUp
    <2>4. \A o \in Pids : Up(o)' <=> Up(o)
      BY <1>0, <2>2, <2>3 DEF Up
    <2>5. \A s \in Requests \ {r} : /\ (Active(s)' <=> Active(s)) /\ (Before(s)' <=> Before(s))
                                    /\ (After(s)' <=> After(s)) /\ req[s].on \in Pids
                                    /\ (Active(s) => req[s].on # p)
      BY <1>1, <1>2 DEF Before, After, Active, Goroutine, OneEach
    <2>6. ActiveIsUp' /\ OneEach'
      <3>1. \A s \in Requests : Active(s)' =>
              Active(s) /\ req'[s].on = req[s].on /\ req[s].on \in Pids
        BY <1>1, <1>2, <2>5
      <3>2. \A o \in Pids : proc'[o].asked = proc[o].asked
        BY <2>2
      <3> QED BY <2>4, <3>1, <3>2 DEF ActiveIsUp, OneEach
    <2>7. BeforeListens' /\ AfterDoesNot'
      <3>1. \A s \in Requests : ~Before(s)
        BY <1>4, Constants DEF BeforeListens, Goroutine
      <3> QED BY <1>1, <1>2, <2>1, <2>5, <3>1 DEF BeforeListens, AfterDoesNot, Active
    <2>8. UnaskedOwns' /\ BoundOwns' /\ YoungIsUnasked'
      BY <1>0, <2>2, <2>3, <2>4 DEF UnaskedOwns, BoundOwns, YoungIsUnasked
    <2>9. ListenerIsUp' /\ Held'
      BY <1>0, <2>1, <2>2, Constants DEF ListenerIsUp, Held
    <2>10. UpListens'
      <3> SUFFICES ASSUME NEW o \in Pids, o # p, (Up(o) \/ proc[o].st = "bound")
                   PROVE  \E s \in Requests : After(s)' /\ req'[s].on = o
        BY <2>1, <2>2, <2>4 DEF UpListens
      <3>1. PICK s \in Requests : After(s) /\ req[s].on = o
        BY <1>4, Constants DEF UpListens
      <3> QED BY <1>1, <2>5, <3>1
    <2>11. SignalIsUp'
      <3>1. \A s \in Requests : req'[s].st \in {"waiting", "rebind"} =>
              req[s].st \in {"waiting", "rebind"} /\ req'[s].on = req[s].on
        BY <1>1
      <3> QED BY <1>0, <2>4, <3>1, Constants DEF SignalIsUp, TypeOK
    <2> QED BY <2>6, <2>7, <2>8, <2>9, <2>10, <2>11
  <1> QED BY <1>3, <1>4

\* A process that never served leaves: nothing depended on it.
LEMMA YoungExitStep ==
  ASSUME TInv, Listening, NEW q \in Pids, proc[q].st \in {"booting", "binding"}, Exit(q),
         req' = req, ready' = ready
  PROVE  Listening'
  <1> USE DEF Listening, TInv, ActorsOK
  <1>1. /\ proc'[q].st = "exited" /\ \A o \in Pids \ {q} : proc'[o] = proc[o]
    BY ExitEffect
  <1>2. port # q /\ port' = port /\ ready # q
    BY ExitEffect, Constants DEF ListenerIsUp, SignalIsUp, Up
  <1>3. \A s \in Requests : (Active(s)' <=> Active(s)) /\ (Before(s)' <=> Before(s))
                         /\ (After(s)' <=> After(s)) /\ req'[s] = req[s] /\ req[s].on \in Pids
                         /\ (Active(s) => req[s].on # q)
    BY DEF Before, After, Active, Goroutine, ActiveIsUp, Up
  <1>4. \A o \in Pids : Up(o)' <=> Up(o)
    BY <1>1 DEF Up
  <1>5. ActiveIsUp' /\ OneEach'
    BY <1>1, <1>3, <1>4 DEF ActiveIsUp, OneEach
  <1>6. BeforeListens' /\ AfterDoesNot'
    BY <1>1, <1>2, <1>3 DEF BeforeListens, AfterDoesNot, Active
  <1>7. UnaskedOwns' /\ BoundOwns' /\ YoungIsUnasked'
    BY <1>1, <1>4 DEF UnaskedOwns, BoundOwns, YoungIsUnasked, Up
  <1>8. ListenerIsUp' /\ Held' /\ UpListens'
    BY ZenonT(60), <1>1, <1>2, <1>3, <1>4, Constants DEF ListenerIsUp, Held, UpListens, TypeOK, Up
  <1>9. SignalIsUp'
    BY <1>2, <1>3, <1>4, Constants DEF SignalIsUp, TypeOK
  <1> QED BY <1>5, <1>6, <1>7, <1>8, <1>9

\* The start of a process: it may take the port when nobody has it, and it writes
\* the signal when it serves.
LEMMA BootListening ==
  ASSUME TInv, Listening, NEW q \in Pids, BootStep(q)
  PROVE  Listening'
  <1> USE DEF Listening, TInv, ActorsOK
  <1>1. CASE Boot(q)
    <2> DEFINE i == IF Verdict = "succeeded" THEN journal.affected ELSE {}
    <2>1. Verdict \in Verdicts /\ i \subseteq Tasks
      BY DEF Verdict, Verdicts, TypeOK
    <2> HIDE DEF i
    <2>2. Loads(q, Verdict, i) /\ proc[q].st = "booting"
          /\ req' = req /\ port' = port /\ ready' = ready
      BY <1>1 DEF Boot, i, Loads
    <2>3. /\ proc'[q].st = "binding" /\ proc'[q].own = proc[q].own
          /\ proc'[q].asked = proc[q].asked /\ \A o \in Pids \ {q} : proc'[o] = proc[o]
      BY <2>1, <2>2, LoadsEffect
    <2>4. \A s \in Requests : (Active(s)' <=> Active(s)) /\ (Before(s)' <=> Before(s))
                           /\ (After(s)' <=> After(s)) /\ req[s].on \in Pids
      BY <2>2 DEF Before, After, Active, Goroutine
    <2>5. \A o \in Pids : Up(o)' <=> Up(o)
      BY <2>2, <2>3 DEF Up
    <2>6. ActiveIsUp' /\ OneEach' /\ BeforeListens' /\ AfterDoesNot'
      BY <2>2, <2>3, <2>4, <2>5 DEF ActiveIsUp, OneEach, BeforeListens, AfterDoesNot
    <2>7. UnaskedOwns' /\ BoundOwns' /\ YoungIsUnasked'
      BY <2>2, <2>3, <2>5 DEF UnaskedOwns, BoundOwns, YoungIsUnasked
    <2>8. ListenerIsUp' /\ Held' /\ UpListens'
      BY <2>2, <2>3, <2>4, <2>5, Constants DEF ListenerIsUp, Held, UpListens, TypeOK
    <2>9. SignalIsUp'
      BY <2>2, <2>5, Constants DEF SignalIsUp, TypeOK
    <2> QED BY <2>6, <2>7, <2>8, <2>9
  <1>2. CASE DieBooting(q)
    BY <1>2, YoungExitStep DEF DieBooting, files
  <1>3. CASE Bind(q) /\ port # 0
    BY <1>3, YoungExitStep DEF Bind, files
  <1>4. CASE Bind(q) /\ port = 0
    <2>1. /\ port' = q /\ req' = req /\ ready' = ready /\ proc[q].st = "binding"
          /\ proc' = [proc EXCEPT ![q].st = "bound", ![q].own = TRUE]
      BY <1>4 DEF Bind, files
    <2>2. /\ proc'[q].st = "bound" /\ proc'[q].own /\ proc'[q].asked = proc[q].asked
          /\ \A o \in Pids \ {q} : proc'[o] = proc[o]
      BY <2>1, BindEffect DEF ProcPC
    <2>3. \A s \in Requests : (Active(s)' <=> Active(s)) /\ (Before(s)' <=> Before(s))
                           /\ (After(s)' <=> After(s)) /\ req[s].on \in Pids
                           /\ (Active(s) => req[s].on # q) /\ ~Before(s)
      BY <1>4, <2>1, Constants
         DEF Before, After, Active, Goroutine, ActiveIsUp, Up, BeforeListens
    <2>4. \A o \in Pids : Up(o)' <=> Up(o)
      BY <2>1, <2>2 DEF Up
    <2>5. ActiveIsUp' /\ OneEach' /\ BeforeListens' /\ AfterDoesNot'
      BY <2>1, <2>2, <2>3, <2>4 DEF ActiveIsUp, OneEach, BeforeListens, AfterDoesNot, Active
    <2>6. UnaskedOwns' /\ BoundOwns' /\ YoungIsUnasked'
      BY <2>1, <2>2, <2>4 DEF UnaskedOwns, BoundOwns, YoungIsUnasked, Up
    <2>7. ListenerIsUp' /\ Held' /\ UpListens'
      BY <1>4, <2>1, <2>2, <2>3, <2>4, Constants DEF ListenerIsUp, Held, UpListens
    <2>8. SignalIsUp'
      BY <2>1, <2>4, Constants DEF SignalIsUp, TypeOK
    <2> QED BY <2>5, <2>6, <2>7, <2>8
  <1>5. CASE Mark(q)
    <2>1. /\ port' = port /\ req' = req /\ ready' \in {q, ready} /\ proc[q].st = "bound"
          /\ proc' = [proc EXCEPT ![q].st = "serving"]
      BY <1>5 DEF Mark
    <2>2. /\ proc'[q].st = "serving" /\ proc'[q].own = proc[q].own
          /\ proc'[q].asked = proc[q].asked /\ \A o \in Pids \ {q} : proc'[o] = proc[o]
      BY <2>1, StEffect DEF ProcPC
    <2>3. \A s \in Requests : (Active(s)' <=> Active(s)) /\ (Before(s)' <=> Before(s))
                           /\ (After(s)' <=> After(s)) /\ req[s].on \in Pids
                           /\ (Active(s) => req[s].on # q)
      BY <2>1 DEF Before, After, Active, Goroutine, ActiveIsUp, Up
    <2>4. \A o \in Pids : Up(o)' <=> (Up(o) \/ o = q)
      BY <2>1, <2>2 DEF Up
    <2>5. ActiveIsUp' /\ OneEach' /\ BeforeListens' /\ AfterDoesNot'
      BY <2>1, <2>2, <2>3, <2>4 DEF ActiveIsUp, OneEach, BeforeListens, AfterDoesNot, Active
    <2>6. UnaskedOwns' /\ BoundOwns' /\ YoungIsUnasked'
      BY <2>1, <2>2, <2>4 DEF UnaskedOwns, BoundOwns, YoungIsUnasked, Up
    <2>7. ListenerIsUp' /\ Held' /\ UpListens'
      BY <2>1, <2>2, <2>3, <2>4, Constants DEF ListenerIsUp, Held, UpListens, TypeOK
    <2>8. SignalIsUp'
      <3>1. \A s \in Requests : req[s].st \in {"waiting", "rebind"} => req[s].on # q
        BY <2>3 DEF Active, After
      <3> QED BY <2>1, <2>4, <3>1, Constants DEF SignalIsUp, TypeOK
    <2> QED BY <2>5, <2>6, <2>7, <2>8
  <1> QED BY <1>1, <1>2, <1>3, <1>4, <1>5 DEF BootStep

LEMMA NextListening ==
  ASSUME TInv, Listening, [Next]_vars, repeat' = "none"
  PROVE  Listening'
  <1> USE DEF TInv, ActorsOK
  <1>1. ASSUME NEW r \in Requests, RestartStep(r) PROVE Listening'
    <2>0. req[r].on \in Pids /\ {"install", "tidy", "handoff", "spawn", "refused"} \subseteq ReqPC
      BY DEF Goroutine, ReqPC
    <2>1. CASE Backup(r) \/ Install(r) \/ Tidy(r) \/ WriteHandoff(r)
      <3>1. Before(r) /\ port' = port /\ ready' = ready
        BY <2>1 DEF Backup, Install, Tidy, WriteHandoff, Before
      <3>2. SameProcesses
        BY <2>0, <2>1, FlagEffect DEF Backup, Install, Tidy, WriteHandoff, SameProcesses
      <3>3. /\ req'[r].st \in {"install", "tidy", "handoff", "spawn", "refused"}
            /\ req'[r].st # "refused" => req'[r].on = req[r].on
            /\ \A s \in Requests \ {r} : req'[s] = req[s]
        <4>1. CASE req' = [req EXCEPT ![r].st = "spawn", ![r].initiator = NoTask]
          BY <4>1 DEF Goroutine
        <4> QED BY <2>0, <2>1, <4>1, ToEffect, DoneEffect DEF Backup, Install, Tidy, WriteHandoff
      <3>4. ~After(r)' /\ (req'[r].on = req[r].on \/ ~Active(r)')
        BY <3>3 DEF Before, After, Active
      <3> QED BY <3>1, <3>2, <3>3, <3>4, BeforeStep
    <2> QED BY <1>1, <2>1, SpawnStep, ReleaseStep, AfterStep, SeeReadyStep, RebindStep DEF RestartStep
  <1>2. ASSUME NEW q \in Pids, NEW t \in Tasks, Resume(q, t) PROVE Listening'
    <2>1. SameProcesses
      BY <1>2 DEF Resume, SameProcesses, Process
    <2> QED BY <1>2, <2>1, QuietStep DEF Resume, files
  <1>3. ASSUME NEW q \in Pids, NEW t \in Tasks, TurnStep(q, t) PROVE Listening'
    BY <1>3, QuietStep DEF TurnStep, SameProcesses, files
  <1>4. CASE Deliver \/ UNCHANGED vars
    BY <1>4, QuietStep DEF Deliver, vars, SameProcesses, files
  <1> QED BY <1>1, <1>2, <1>3, <1>4, AcceptStep, BootListening DEF Next

\* A restart is asked for where none is at work: it is the only one that listens.
LEMMA AcceptAlone ==
  ASSUME TInv, Alone, NEW r \in Requests, Accept(r), repeat' # "within"
  PROVE  Alone'
  <1> USE DEF TInv, ActorsOK
  <1>1. PICK p \in Pids : /\ req[r].st = "idle" /\ port = p /\ Up(p)
                          /\ \A s \in Requests : ~AtWork(s, p)
                          /\ proc' = [proc EXCEPT ![p].asked = TRUE]
                          /\ req'[r].on = p
                          /\ \A s \in Requests \ {r} : req'[s] = req[s]
    <2>1. PICK p \in Pids, i \in Tasks \cup {NoTask}, b \in BOOLEAN :
            /\ req[r].st = "idle" /\ port = p /\ Up(p) /\ repeat' = Repeated(p)
            /\ proc' = [proc EXCEPT ![p].asked = TRUE]
            /\ req' = [req EXCEPT ![r] = [st |-> IF b THEN "swap" ELSE "handoff", on |-> p,
                                         initiator |-> i, swap |-> b]]
      BY DEF Accept
    <2> QED BY <2>1 DEF Repeated
  <1>2. \A s \in Requests : Active(s) => req[s].on # p
    BY <1>1 DEF AtWork, Ended, Active, Before, After
  <1>3. \A s \in Requests \ {r} : (Active(s)' <=> Active(s)) /\ (Before(s)' <=> Before(s))
                               /\ req[s].on \in Pids
    BY <1>1 DEF Active, Before, After, Goroutine
  <1>4. port' = port /\ \A q \in Pids : Up(q)' <=> Up(q)
    BY <1>1 DEF Accept, Up, Process
  <1> QED BY <1>1, <1>2, <1>3, <1>4 DEF Alone, OneEach, RunnerIsUp, BeforeHasPort

\* No restart begins, and those at work keep their process and what they know of it.
LEMMA AloneKept ==
  ASSUME Alone,
         \A s \in Requests : Active(s)' => Active(s) /\ req'[s].on = req[s].on /\ Up(req[s].on)',
         \A s \in Requests : Before(s)' => Before(s) /\ port' = port
  PROVE  Alone'
  BY DEF Alone, OneEach, RunnerIsUp, BeforeHasPort, Active

\* A process that leaves by its own restart is nobody else's.
LEMMA ExitAlone ==
  ASSUME TInv, Alone, NEW p \in Pids, Exit(p),
         \A s \in Requests : Active(s)' => Active(s) /\ req'[s].on = req[s].on /\ req[s].on # p,
         \A s \in Requests : Before(s)' => Before(s)
  PROVE  Alone'
  <1> USE DEF TInv, ActorsOK
  <1>1. \A s \in Requests : req[s].on \in Pids
    BY DEF Goroutine
  <1>2. \A q \in Pids \ {p} : Up(q)' <=> Up(q)
    BY ExitEffect DEF Up
  <1>3. port # p => port' = port
    BY ExitEffect
  <1> QED BY <1>1, <1>2, <1>3, AloneKept DEF Alone, RunnerIsUp, BeforeHasPort, Active

LEMMA NextAlone ==
  ASSUME TInv, Alone, [Next]_vars, repeat' # "within"
  PROVE  Alone'
  <1> USE DEF TInv, ActorsOK
  <1>0. \A s \in Requests : /\ req[s].on \in Pids
                            /\ (Active(s) => Up(req[s].on))
                            /\ (Before(s) => port = req[s].on /\ Active(s))
    BY DEF Goroutine, Alone, RunnerIsUp, BeforeHasPort, Active
  <1>1. ASSUME NEW r \in Requests, RestartStep(r) PROVE Alone'
    <2> DEFINE p == req[r].on
    <2>0. p \in Pids /\ Active(r)
      BY <1>0, <1>1 DEF RestartStep, Backup, Install, Tidy, WriteHandoff, Spawn, Release, Await,
                        SeeReady, GiveUp, Rebind, Active, Before, After
    <2>1. \A s \in Requests \ {r} : Active(s) => req[s].on # p
      BY <2>0 DEF Alone, OneEach
    <2>2. CASE Backup(r) \/ Install(r) \/ Tidy(r) \/ WriteHandoff(r)
      <3>0. {"install", "tidy", "handoff", "spawn", "refused"} \subseteq ReqPC
        BY DEF ReqPC
      <3>1. /\ req'[r].st \in {"install", "tidy", "handoff", "spawn", "refused"}
            /\ req'[r].st # "refused" => req'[r].on = p
            /\ \A s \in Requests \ {r} : req'[s] = req[s]
        <4>1. CASE req' = [req EXCEPT ![r].st = "spawn", ![r].initiator = NoTask]
          BY <4>1 DEF Goroutine
        <4> QED BY <3>0, <2>2, <4>1, ToEffect, DoneEffect DEF Backup, Install, Tidy, WriteHandoff
      <3>2. SameProcesses /\ port' = port /\ Before(r)
        BY <2>0, <2>2, FlagEffect
           DEF Backup, Install, Tidy, WriteHandoff, SameProcesses, Before
      <3> QED BY <1>0, <3>1, <3>2, AloneKept DEF SameProcesses, Active, Before, After, Up
    <2>3. CASE Spawn(r)
      <3>0. {"spawned", "refused"} \subseteq ReqPC
        BY DEF ReqPC
      <3>1. /\ req'[r].st \in {"spawned", "refused"}
            /\ req'[r].st = "spawned" => req'[r].on = p
            /\ \A s \in Requests \ {r} : req'[s] = req[s]
        BY <3>0, <2>3, ToEffect, DoneEffect DEF Spawn
      <3>2. \A q \in Pids : Up(q) => Up(q)'
        BY <2>3 DEF Spawn, Up, Process
      <3> QED BY <1>0, <2>0, <2>3, <3>1, <3>2, AloneKept DEF Spawn, Active, Before, After
    <2>4. CASE Release(r)
      <3>1. /\ req'[r].st = "released" /\ req'[r].on = p
            /\ \A s \in Requests \ {r} : req'[s] = req[s]
        BY <2>4, ToEffect DEF Release, ReqPC
      <3>2. \A q \in Pids : Up(q) => Up(q)'
        BY <2>0, <2>4, ReleaseEffect DEF Release, Up, ProcPC
      <3>3. port' = port \/ port = p
        BY <2>4 DEF Release
      <3>4. ~Before(r)' /\ \A s \in Requests \ {r} : (Before(s)' <=> Before(s)) /\ (Active(s)' <=> Active(s))
        BY <3>1 DEF Before, After, Active
      <3> QED BY <1>0, <2>0, <2>1, <3>1, <3>2, <3>3, <3>4, AloneKept
    <2>5. CASE Await(r) \/ GiveUp(r)
      <3>1. /\ req'[r].st \in {"waiting", "rebind"} /\ req'[r].on = p
            /\ \A s \in Requests \ {r} : req'[s] = req[s]
        BY <2>5, ToEffect DEF Await, GiveUp, ReqPC
      <3>2. proc' = proc /\ port' = port
        BY <2>5 DEF Await, GiveUp
      <3>3. ~Before(r)' /\ \A s \in Requests \ {r} : (Before(s)' <=> Before(s)) /\ (Active(s)' <=> Active(s))
        BY <3>1 DEF Before, After, Active
      <3>4. \A q \in Pids : Up(q) => Up(q)'
        BY <3>2 DEF Up
      <3> QED BY <1>0, <2>0, <3>1, <3>2, <3>3, <3>4, AloneKept
    <2>6. CASE SeeReady(r) \/ (Rebind(r) /\ port # 0)
      <3>0. {"handed over", "gave up"} \subseteq ReqPC
        BY DEF ReqPC
      <3>1. /\ req'[r].st \in {"handed over", "gave up"} /\ Exit(p)
            /\ \A s \in Requests \ {r} : req'[s] = req[s]
        BY <3>0, <2>6, DoneEffect DEF SeeReady, Rebind
      <3>2. ~Active(r)' /\ ~Before(r)' /\ \A s \in Requests \ {r} :
               (Before(s)' <=> Before(s)) /\ (Active(s)' <=> Active(s))
        BY <3>1 DEF Before, After, Active
      <3> QED BY <2>0, <2>1, <3>1, <3>2, ExitAlone
    <2>7. CASE Rebind(r) /\ port = 0
      <3>1. /\ req'[r].st = "rolled back" /\ proc' = [proc EXCEPT ![p].st = "serving"]
            /\ \A s \in Requests \ {r} : req'[s] = req[s]
        BY <2>7, DoneEffect DEF Rebind, ReqPC
      <3>2. ~Active(r)' /\ \A s \in Requests \ {r} : (Before(s)' <=> Before(s)) /\ (Active(s)' <=> Active(s))
        BY <3>1 DEF Before, After, Active
      <3>3. \A s \in Requests : ~Before(s)
        BY <1>0, <2>7, Constants
      <3>4. \A q \in Pids : Up(q) => Up(q)'
        BY <3>1 DEF Up, Process
      <3> QED BY <1>0, <3>1, <3>2, <3>3, <3>4, AloneKept DEF Active
    <2> QED BY <1>1, <2>2, <2>3, <2>4, <2>5, <2>6, <2>7 DEF RestartStep
  <1>2. ASSUME NEW q \in Pids, BootStep(q) PROVE Alone'
    <2>1. req' = req /\ proc[q].st \in {"booting", "binding", "bound"}
      BY <1>2 DEF BootStep, Boot, DieBooting, Bind, Mark
    <2>2. \A s \in Requests : /\ (Active(s)' <=> Active(s)) /\ (Before(s)' <=> Before(s))
                              /\ req'[s].on = req[s].on /\ (Active(s) => req[s].on # q)
      BY <1>0, <2>1 DEF Active, Before, After, Up
    <2>3. CASE Exit(q)
      BY <2>2, <2>3, ExitAlone
    <2>4. CASE ~Exit(q)
      <3>1. \A o \in Pids : Up(o) => Up(o)'
        BY <1>2, <2>1, <2>4 DEF BootStep, Boot, DieBooting, Bind, Mark, Up, Process
      <3>2. port' = port \/ port = 0
        BY <1>2, <2>4 DEF BootStep, Boot, DieBooting, Bind, Mark
      <3> QED BY <1>0, <2>2, <3>1, <3>2, Constants, AloneKept
    <2> QED BY <2>3, <2>4
  <1>3. ASSUME req' = req, SameProcesses, port' = port PROVE Alone'
    BY <1>0, <1>3, AloneKept DEF SameProcesses, Active, Before, After, Up
  <1>4. ASSUME NEW q \in Pids, NEW t \in Tasks, Resume(q, t) \/ TurnStep(q, t) PROVE Alone'
    BY <1>3, <1>4 DEF Resume, TurnStep, SameProcesses, Process, files
  <1>5. CASE Deliver \/ UNCHANGED vars
    BY <1>3, <1>5 DEF Deliver, vars, SameProcesses, files
  <1> QED BY <1>1, <1>2, <1>4, <1>5, AcceptAlone DEF Next

\* The binary: only a swap touches it, and there is one swap at a time.
LEMMA NextDisk ==
  ASSUME TInv, Alone, InstallHasBackup, Intact, [Next]_vars
  PROVE  InstallHasBackup' /\ Intact'
  <1> USE DEF TInv, ActorsOK, TypeOK
  <1>0. \A r, s \in Requests : Before(r) /\ Before(s) => r = s
    BY DEF Alone, BeforeHasPort, OneEach, Active
  <1>1. ASSUME disk'.exec = disk.exec, disk'.old = disk.old,
               \A s \in Requests : req'[s].st = "install" <=> req[s].st = "install"
        PROVE  InstallHasBackup' /\ Intact'
    BY <1>1 DEF InstallHasBackup, Intact
  <1>2. ASSUME NEW r \in Requests, Accept(r) PROVE InstallHasBackup' /\ Intact'
    <2>1. /\ disk' = disk /\ req[r].st = "idle" /\ req'[r].st \in {"swap", "handoff"}
          /\ \A s \in Requests \ {r} : req'[s] = req[s]
      <3>1. PICK p \in Pids, i \in Tasks \cup {NoTask}, b \in BOOLEAN :
              req' = [req EXCEPT ![r] = [st |-> IF b THEN "swap" ELSE "handoff", on |-> p,
                                         initiator |-> i, swap |-> b]]
        BY <1>2 DEF Accept
      <3> QED BY <1>2, <3>1 DEF Accept
    <2> QED BY <1>1, <2>1
  <1>3. ASSUME NEW r \in Requests, RestartStep(r) PROVE InstallHasBackup' /\ Intact'
    <2>0. {"install", "tidy", "handoff", "spawn", "spawned", "released", "waiting", "rebind",
           "refused", "handed over", "rolled back", "gave up"} \subseteq ReqPC
      BY DEF ReqPC
    <2>1. CASE Backup(r)
      <3>1. \A s \in Requests : req[s].st # "install"
        <4>1. Before(r) /\ req[r].st # "install"
          BY <2>1 DEF Backup, Before
        <4> QED BY <1>0, <4>1 DEF Before
      <3>2. disk.exec # NoFile
        BY <3>1 DEF Intact
      <3>3. CASE To(r, "install")
        <4>1. /\ req'[r].st = "install" /\ \A s \in Requests \ {r} : req'[s] = req[s]
          BY <2>0, <3>3, ToEffect
        <4>2. disk' = [disk EXCEPT !.old = disk.exec, !.exec = NoFile]
          <5>1. ~Done(r, "refused")
            <6>1. Done(r, "refused") => req'[r].st = "refused"
              BY <2>0, DoneEffect
            <6> QED BY <4>1, <6>1
          <5> QED BY <2>1, <5>1 DEF Backup
        <4> QED BY <3>1, <3>2, <4>1, <4>2 DEF InstallHasBackup, Intact
      <3>4. CASE Done(r, "refused")
        <4>1. /\ req'[r].st = "refused" /\ \A s \in Requests \ {r} : req'[s] = req[s]
          BY <2>0, <3>4, DoneEffect
        <4>2. ~To(r, "install")
          <5>1. To(r, "install") => req'[r].st = "install"
            BY <2>0, ToEffect
          <5> QED BY <4>1, <5>1
        <4>3. disk'.exec = disk.exec
          BY <2>1, <4>2 DEF Backup
        <4> QED BY <3>1, <3>2, <4>1, <4>3 DEF InstallHasBackup, Intact
      <3> QED BY <2>1, <3>3, <3>4 DEF Backup
    <2>2. CASE Install(r)
      <3>1. req[r].st = "install" /\ disk.old # NoFile
        BY <2>2 DEF Install, InstallHasBackup
      <3>2. /\ req'[r].st # "install" /\ \A s \in Requests \ {r} : req'[s] = req[s]
        BY ZenonT(60), <2>0, <2>2, ToEffect, DoneEffect DEF Install
      <3>3. disk'.exec # NoFile
        BY <2>2, <3>1 DEF Install, Restored
      <3>4. \A s \in Requests : req'[s].st # "install"
        BY <1>0, <3>1, <3>2 DEF Before
      <3> QED BY <3>3, <3>4 DEF InstallHasBackup, Intact
    <2>3. CASE GiveUp(r)
      <3>1. /\ req[r].st = "waiting" /\ req'[r].st = "rebind"
            /\ \A s \in Requests \ {r} : req'[s] = req[s]
        BY <2>0, <2>3, ToEffect DEF GiveUp
      <3>2. CASE disk' = disk
        BY <1>1, <3>1, <3>2
      <3>3. CASE disk.old # NoFile /\ disk.exec # NoFile /\ disk' = Restored(disk)
        <4>1. disk'.exec # NoFile
          BY <3>3 DEF Restored
        <4> QED BY <3>1, <3>3, <4>1 DEF InstallHasBackup, Intact
      <3> QED BY <2>3, <3>2, <3>3 DEF GiveUp
    <2>4. CASE Tidy(r) \/ WriteHandoff(r)
      <3>1. /\ req[r].st # "install" /\ req'[r].st # "install"
            /\ \A s \in Requests \ {r} : req'[s] = req[s]
        <4>1. CASE req' = [req EXCEPT ![r].st = "spawn", ![r].initiator = NoTask]
          BY <2>4, <4>1 DEF Goroutine, Tidy, WriteHandoff
        <4> QED BY ZenonT(60), <2>0, <2>4, <4>1, ToEffect, DoneEffect DEF Tidy, WriteHandoff
      <3>2. disk'.exec = disk.exec /\ disk'.old = disk.old
        BY <2>4 DEF Tidy, WriteHandoff
      <3> QED BY <1>1, <3>1, <3>2
    <2>5. CASE Spawn(r) \/ Release(r) \/ Await(r) \/ SeeReady(r) \/ Rebind(r)
      <3>1. /\ req[r].st # "install" /\ req'[r].st # "install"
            /\ \A s \in Requests \ {r} : req'[s] = req[s]
        BY ZenonT(60), <2>0, <2>5, ToEffect, DoneEffect DEF Spawn, Release, Await, SeeReady, Rebind
      <3>2. disk' = disk
        BY <2>5 DEF Spawn, Release, Await, SeeReady, Rebind, files
      <3> QED BY <1>1, <3>1, <3>2
    <2> QED BY <1>3, <2>1, <2>2, <2>3, <2>4, <2>5 DEF RestartStep
  <1>4. ASSUME NEW q \in Pids, BootStep(q) PROVE InstallHasBackup' /\ Intact'
    BY <1>1, <1>4 DEF BootStep, Boot, DieBooting, Bind, Mark, files
  <1>5. ASSUME NEW q \in Pids, NEW t \in Tasks, Resume(q, t) \/ TurnStep(q, t)
        PROVE  InstallHasBackup' /\ Intact'
    BY <1>1, <1>5 DEF Resume, TurnStep, files
  <1>6. CASE Deliver \/ UNCHANGED vars
    BY <1>1, <1>6 DEF Deliver, vars, files
  <1> QED BY <1>2, <1>3, <1>4, <1>5, <1>6 DEF Next

LEMMA Invariance == Spec => [](PInv /\ DInv)
  <1>1. Init => PInv /\ DInv
    BY InitPInv
  <1>2. PInv /\ DInv /\ [Next]_vars => (PInv /\ DInv)'
    BY NextTInv, NextListening, NextAlone, NextDisk, RepeatIsKept DEF PInv, DInv, TInv, TypeOK
  <1> QED BY <1>1, <1>2, PTL DEF Spec

\* Whatever fails, and however often restarts are asked for, only one that is asked of
\* a process within an earlier restart of its can lose the binary that a start needs:
\* else it is missing only between the two renames of a swap, whose process is there
\* to go on (Restart and rollbackBinary).
THEOREM ExecutableSafe == Spec => []ExecutableStays
  <1>1. DInv => ExecutableStays
    BY DEF DInv, ExecutableStays, BinaryIsThere, Intact, Alone, RunnerIsUp, Active, Before,
           Up, Alive
  <1> QED BY <1>1, Invariance, PTL

\* Until some process is asked a second time, somebody listens, or a restart that is
\* there to go on is between its release and its rebind, or a new process on its way
\* to the port (WaitAfterRelease, rebindAndServe).
THEOREM PortSafe == Spec => []PortIsHeld
  <1>1. PInv => PortIsHeld
    BY DEF PInv, Listening, Held, ActiveIsUp, Active, After, Up, Alive, PortIsHeld,
           SomebodyListens
  <1> QED BY <1>1, Invariance, PTL

=============================================================================
