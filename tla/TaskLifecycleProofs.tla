------------------------ MODULE TaskLifecycleProofs ------------------------
(***************************************************************************)
(* Theorems about TaskLifecycle for any set of turns, with any number of   *)
(* cancels, with or without a deletion, a reaper and a print fallback, and *)
(* through any number of crashes: typing, the finality of outcomes, what a *)
(* completion rests on; and, without a fallback, that a live status is     *)
(* owned by a turn that will settle it.                                    *)
(*                                                                         *)
(* Of all the goroutines only the turn in progress makes a status live or  *)
(* settles it; so the invariant follows that turn through its steps.       *)
(***************************************************************************)
EXTENDS TaskLifecycle, TLAPS

\* One turn is active at most; what waits in the queue is queued, once.
OneActive == \A s, t \in Turns : fate[s] = "active" /\ fate[t] = "active" => s = t
QueueExact ==
    /\ \A i \in DOMAIN pending : fate[pending[i]] = "queued"
    /\ \A i, j \in DOMAIN pending : pending[i] = pending[j] => i = j

\* What Judge found still holds when Commit writes it down, but for what the agent
\* had on its way.
Earned ==
    /\ task.output = "result" \/ "report" \in turn.late
    /\ asked => "request" \in turn.late
VerdictHolds ==
    turn.pc = "commit" =>
        /\ turn.result \in {"completed", "failed"}
        /\ turn.result = "completed" => Earned

TInv == TypeOK /\ OneActive /\ QueueExact /\ VerdictHolds

\* Without a fallback no session is one for a single turn, and no turn loses one.
KeepsAlive == ~Fallback => ~oneShot /\ turn.keepAlive /\ turn.result # "lost"

\* The turn will still settle the status: it has yet to come to its verdict or its
\* failure, or it closes the session on the way to the failure.
Settling ==
    \/ turn.pc \in {"send", "run", "ended", "fail", "judge", "commit"}
    \/ turn.pc \in {"close", "unwire"} /\ turn.then = "fail"
Live == task.exists /\ task.status \in {"running", "waiting_input"}
LiveIsSettled == Live => Settling

\* A prompt is sent only by a turn that has set the task running, so a request that is
\* on its way never finds the task pending.
NotPending ==
    task.exists /\ (turn.pc \in {"send", "run"} \/ sent # "none") => task.status # "pending"

IInv == TInv /\ KeepsAlive /\ NotPending /\ (~Fallback => LiveIsSettled)

-----------------------------------------------------------------------------
(* Typing, one group of variables at a time *)

TurnRecord == [pc : TurnPC, then : Then, keepAlive : BOOLEAN, again : BOOLEAN,
               result : {"none", "ok", "error", "lost", "completed", "failed"},
               stopped : BOOLEAN, late : SUBSET {"report", "request"}]
TaskRecord == [exists : BOOLEAN, status : Status, output : Outputs,
               worktree : BOOLEAN, sids : SUBSET {"acp", "claude"}]

TaskOK == task \in TaskRecord
SessionOK ==
    session \in {"none", "live", "dead"} /\ oneShot \in BOOLEAN
    /\ wires \in {"none", "mine", "past"} /\ asked \in BOOLEAN
    /\ sent \in {"none", "sent", "stray"} /\ said \in Outputs
TurnOK == turn \in TurnRecord
QueueOK ==
    Queue!TypeOK /\ OneActive /\ QueueExact /\ (turn.pc = "idle" <=> Queue!Active = {})
HandlersOK ==
    /\ resume \in [Turns -> [pc : {"idle", "checked", "submitted", "refused"}, sid : BOOLEAN]]
    /\ stop \in [Stoppers -> StopPC]
    /\ reaper \in {"idle", "detach", "unwire"}
    /\ crashes \in 0 .. MaxCrashes

LEMMA Groups == TInv <=> TaskOK /\ SessionOK /\ TurnOK /\ QueueOK /\ HandlersOK /\ VerdictHolds
  BY DEF TInv, TypeOK, TaskOK, SessionOK, TurnOK, QueueOK, HandlersOK, TurnRecord, TaskRecord

LEMMA InitIInv == Init => IInv
  <1> SUFFICES ASSUME Init PROVE IInv
    OBVIOUS
  <1> USE DEF Init
  <1>1. TaskOK /\ SessionOK
    BY DEF TaskOK, SessionOK, TaskRecord, Status, Outputs
  <1>2. TurnOK
    BY DEF TurnOK, TurnRecord, NoTurn, TurnPC, Then
  <1>3. QueueOK
    <2>1. pending = <<>> /\ pending \in Seq(Turns)
      BY DEF Queue!Init
    <2>2. fate \in [Turns -> Queue!Fates] /\ \A t \in Turns : fate[t] = "new"
      BY DEF Queue!Init, Queue!Fates
    <2> QED BY <2>1, <2>2 DEF QueueOK, Queue!TypeOK, OneActive, QueueExact, Queue!Active, NoTurn
  <1>4. HandlersOK
    BY ConfigAssumption DEF HandlersOK, StopPC
  <1>5. VerdictHolds /\ KeepsAlive /\ NotPending /\ LiveIsSettled
    BY DEF VerdictHolds, KeepsAlive, NotPending, LiveIsSettled, Live, NoTurn
  <1> QED BY <1>1, <1>2, <1>3, <1>4, <1>5, Groups DEF IInv

\* The steps on the queue of the task (SerialTurns).
QueueFacts == Queue!TypeOK /\ OneActive /\ QueueExact

LEMMA SubmitQueue ==
  ASSUME QueueFacts, NEW t \in Turns, Queue!Submit(t)
  PROVE  QueueFacts' /\ Queue!Active' = Queue!Active
  <1> USE DEF QueueFacts, Queue!Submit, Queue!TypeOK, Queue!Fates
  <1>1. Queue!TypeOK'
    OBVIOUS
  <1>2. OneActive' /\ Queue!Active' = Queue!Active
    BY DEF OneActive, Queue!Active
  <1>3. QueueExact'
    <2>1. DOMAIN pending' = DOMAIN pending \cup {Len(pending) + 1}
      OBVIOUS
    <2>2. /\ pending'[Len(pending) + 1] = t
          /\ \A i \in DOMAIN pending : pending'[i] = pending[i] /\ pending[i] # t
      BY DEF QueueExact
    <2> QED BY <2>1, <2>2 DEF QueueExact
  <1> QED BY <1>1, <1>2, <1>3

LEMMA BeginQueue ==
  ASSUME QueueFacts, Queue!Begin
  PROVE  QueueFacts' /\ Queue!Active' # {}
  <1> USE DEF QueueFacts, Queue!Begin, Queue!TypeOK, Queue!Fates
  <1> DEFINE h == Head(pending)
  <1>1. h \in Turns /\ h = pending[1] /\ 1 \in DOMAIN pending
    OBVIOUS
  <1>2. Queue!TypeOK'
    BY <1>1
  <1>3. OneActive' /\ Queue!Active' # {}
    BY <1>1 DEF OneActive, Queue!Active
  <1>4. QueueExact'
    <2>1. \A i \in DOMAIN pending' : i + 1 \in DOMAIN pending /\ pending'[i] = pending[i + 1]
      OBVIOUS
    <2>2. \A i \in DOMAIN pending' : pending'[i] # h
      BY <1>1, <2>1 DEF QueueExact
    <2> QED BY <2>1, <2>2 DEF QueueExact
  <1> QED BY <1>2, <1>3, <1>4

\* The only active turn is the current one, and with it the queue becomes idle.
LEMMA FinishQueue ==
  ASSUME QueueFacts, Queue!Active # {}, Queue!Finish(Current)
  PROVE  QueueFacts' /\ Queue!Active' = {}
  <1> USE DEF QueueFacts, Queue!Finish, Queue!TypeOK, Queue!Fates
  <1>1. Current \in Turns /\ fate[Current] = "active"
    BY DEF Current, Queue!Active
  <1>2. Queue!TypeOK'
    BY <1>1
  <1>3. OneActive' /\ Queue!Active' = {}
    BY <1>1 DEF OneActive, Queue!Active
  <1>4. QueueExact'
    BY <1>1 DEF QueueExact
  <1> QED BY <1>2, <1>3, <1>4

\* A flush, or the end of the process, empties the queue.
LEMMA EmptiedQueue ==
  ASSUME QueueFacts, pending' = <<>>, NEW drop \in SUBSET Turns,
         fate' = [t \in Turns |-> IF t \in drop THEN "dropped" ELSE fate[t]]
  PROVE  QueueFacts' /\ (drop \cap Queue!Active = {} => Queue!Active' = Queue!Active)
                     /\ (Queue!Active \subseteq drop => Queue!Active' = {})
  <1> USE DEF QueueFacts, Queue!TypeOK, Queue!Fates
  <1>1. Queue!TypeOK'
    OBVIOUS
  <1>2. OneActive' /\ QueueExact'
    BY DEF OneActive, QueueExact
  <1>3. \A t \in Turns : t \in Queue!Active' <=> (t \in Queue!Active /\ t \notin drop)
    BY DEF Queue!Active
  <1> QED BY <1>1, <1>2, <1>3 DEF Queue!Active

\* The turn steps on the way of the current turn.
LEMMA TaskStep ==
  ASSUME TInv, [Next]_vars
  PROVE  TaskOK'
  <1> USE Groups DEF TaskOK, TaskRecord
  <1>0. /\ \A target \in Status : Guarded(target) \in Status
        /\ {"completed", "failed", "cancelled", "running", "waiting_input"} \subseteq Status
    BY DEF Guarded, Status, Terminal
  <1>1. ASSUME NEW target \in Status, Transition(target) PROVE TaskOK'
    BY <1>0, <1>1 DEF Transition
  <1>2. CASE UNCHANGED task
    BY <1>2
  <1>3. CASE TurnStep
    <2>1. CASE Worktree
      BY <2>1 DEF Worktree
    <2>2. CASE WorktreeFails
      BY <1>0, <1>1, <2>2 DEF WorktreeFails, Conclude
    <2>3. CASE OpenFails
      BY <1>0, <1>1, <2>3 DEF OpenFails, Conclude, ForceFail
    <2>4. CASE WireSession
      BY <2>4 DEF WireSession
    <2>5. CASE SetRunning
      BY <1>0, <1>1, <2>5 DEF SetRunning
    <2>6. CASE FailTurn
      BY <1>0, <1>1, <2>6 DEF FailTurn, Conclude
    <2>7. CASE Commit
      <3>1. turn.result \in Status
        BY <1>0, <2>7 DEF Commit, VerdictHolds
      <3> QED BY <1>1, <2>7, <3>1 DEF Commit, Conclude
    <2> QED BY <1>2, <1>3, <2>1, <2>2, <2>3, <2>4, <2>5, <2>6, <2>7
         DEF TurnStep, Begin, Lookup, UseAdapter, OpenSession, CheckAdapter, SendPrompt,
             PromptInterrupted, Ended, Judge, TurnEnds, TurnCloses, TurnUnwires
  <1>4. CASE Write
    BY <1>4 DEF Write, SessionOK
  <1>5. CASE Register
    BY <1>0, <1>5 DEF Register
  <1>6. CASE Answered
    BY <1>0, <1>6 DEF Answered
  <1>7. ASSUME NEW c \in Stoppers, StopFlushes(c) \/ Stopper(c) PROVE TaskOK'
    <2>1. CASE StopTransitions(c)
      BY <1>0, <1>1, <2>1 DEF StopTransitions
    <2>2. CASE Remove(c)
      BY <2>2 DEF Remove
    <2> QED BY <1>2, <1>7, <2>1, <2>2
         DEF Stopper, StopFlushes, StopChoosesPath, StopDetaches, StopUnwires
  <1>8. CASE Crash
    <2>1. Loaded(task.status) \in Status
      BY <1>0 DEF Loaded
    <2> QED BY <1>8, <2>1 DEF Crash
  <1> QED BY <1>2, <1>3, <1>4, <1>5, <1>6, <1>7, <1>8
       DEF Next, vars, ResumeCheck, ResumeSubmit, PromptReturns, AgentReports, AgentAsks, AgentDies,
           ReaperPicks, ReaperCloses, ReaperDetaches, ReaperUnwires, ReaperOnly

LEMMA SessionStep ==
  ASSUME TInv, [Next]_vars
  PROVE  SessionOK'
  <1> USE Groups DEF SessionOK, sessionVars
  <1>1. CASE UNCHANGED <<sessionVars, said>>
    BY <1>1
  <1>2. ASSUME Detach \/ Unwire, UNCHANGED said PROVE SessionOK'
    BY <1>2 DEF Detach, Unwire
  <1>3. CASE TurnStep
    <2> USE DEF TurnOnly
    <2>1. ASSUME NEW fellBack \in BOOLEAN, OpenSession(fellBack) PROVE SessionOK'
      BY <2>1 DEF OpenSession
    <2>2. CASE WireSession
      BY <2>2 DEF WireSession
    <2> QED BY <1>1, <1>2, <1>3, <2>1, <2>2
         DEF TurnStep, Begin, Lookup, Worktree, WorktreeFails, UseAdapter, OpenFails, CheckAdapter,
             SetRunning, SendPrompt, PromptInterrupted, Ended, FailTurn, Judge, Commit,
             TurnEnds, TurnCloses, TurnUnwires
  <1>4. ASSUME NEW output \in Outputs, AgentReports(output) PROVE SessionOK'
    BY <1>4 DEF AgentReports
  <1>5. CASE Write \/ AgentAsks \/ Register \/ Answered \/ AgentDies \/ Crash
    BY <1>5 DEF Write, AgentAsks, Register, Answered, AgentDies, Crash, Outputs
  <1>6. ASSUME NEW c \in Stoppers, StopFlushes(c) \/ Stopper(c) PROVE SessionOK'
    BY <1>1, <1>2, <1>6 DEF StopFlushes, Stopper, StopChoosesPath, StopTransitions, StopDetaches,
                            StopUnwires, Remove, StopOnly
  <1>7. CASE ReaperPicks \/ ReaperCloses
    BY <1>1, <1>2, <1>7 DEF ReaperPicks, ReaperCloses, ReaperDetaches, ReaperUnwires, ReaperOnly
  <1> QED BY <1>1, <1>3, <1>4, <1>5, <1>6, <1>7
       DEF Next, vars, ResumeCheck, ResumeSubmit, PromptReturns, TurnOnly

LEMMA TurnPCStep ==
  ASSUME TInv, [Next]_vars
  PROVE  TurnOK'
  <1> USE Groups DEF TurnOK, TurnRecord
  <1>a. NoTurn \in TurnRecord /\ Then \subseteq TurnPC
    BY DEF NoTurn, TurnPC, Then
  <1>b. \A pc \in TurnPC : Goto(pc) => TurnOK'
    BY DEF Goto
  <1>c. Finish => TurnOK'
    BY <1>a DEF Finish
  <1>d. Continue => TurnOK'
    BY <1>a, <1>b, <1>c DEF Continue
  <1>0. /\ \A pc \in TurnPC : Goto(pc) => TurnOK'
        /\ NoTurn \in TurnRecord /\ (Finish => TurnOK') /\ (Continue => TurnOK')
    BY <1>a, <1>b, <1>c, <1>d
  <1>1. CASE UNCHANGED turn
    BY <1>1
  <1>2. CASE TurnStep
    <2>1. CASE Begin
      BY <2>1 DEF Begin, NoTurn, TurnPC, Then
    <2>2. CASE Lookup \/ Worktree \/ WorktreeFails \/ OpenFails \/ WireSession \/ CheckAdapter
               \/ SetRunning \/ FailTurn \/ Commit \/ TurnCloses \/ TurnUnwires
      BY <1>0, <2>2 DEF Lookup, Worktree, WorktreeFails, OpenFails, WireSession, CheckAdapter,
                        SetRunning, FailTurn, Commit, TurnCloses, TurnUnwires, TurnPC
    <2>3. CASE UseAdapter
      BY <2>3 DEF UseAdapter, SessionOK, TurnPC, Then
    <2>4. ASSUME NEW fellBack \in BOOLEAN, OpenSession(fellBack) PROVE TurnOK'
      BY <2>4 DEF OpenSession, TurnPC
    <2>5. CASE SendPrompt \/ PromptInterrupted
      BY <2>5 DEF SendPrompt, PromptInterrupted, TurnPC
    <2>6. CASE Ended
      BY <2>6 DEF Ended, TurnPC, Then
    <2>7. CASE Judge
      BY <2>7 DEF Judge, Verdict, TurnPC
    <2>8. CASE TurnEnds
      BY <1>0, <2>8 DEF TurnEnds, TurnPC, Then
    <2> QED BY <1>2, <2>1, <2>2, <2>3, <2>4, <2>5, <2>6, <2>7, <2>8 DEF TurnStep
  <1>3. ASSUME NEW result \in {"ok", "error", "lost"}, PromptReturns(result) PROVE TurnOK'
    BY <1>3 DEF PromptReturns, TurnPC
  <1>4. ASSUME NEW c \in Stoppers, StopFlushes(c) \/ Stopper(c) PROVE TurnOK'
    <2>1. CASE StopTransitions(c)
      <3>1. turn' = [turn EXCEPT !.stopped = turn'.stopped] /\ turn'.stopped \in BOOLEAN
        BY <2>1 DEF StopTransitions
      <3> QED BY <3>1
    <2> QED BY <1>1, <1>4, <2>1
         DEF StopFlushes, Stopper, StopChoosesPath, StopDetaches, StopUnwires, Remove, StopOnly
  <1>5. CASE Crash
    BY <1>0, <1>5 DEF Crash
  <1>6. CASE Write \/ Register
    <2>1. ASSUME NEW what \in {"report", "request"}, Reaches(what) PROVE TurnOK'
      BY <2>1 DEF Reaches
    <2> QED BY <1>1, <1>6, <2>1 DEF Write, Register
  <1> QED BY <1>1, <1>2, <1>3, <1>4, <1>5, <1>6
       DEF Next, vars, ResumeCheck, ResumeSubmit, AgentReports, AgentAsks, Answered, AgentDies,
           AgentOnly, ReaperPicks, ReaperCloses, ReaperDetaches, ReaperUnwires, ReaperOnly

LEMMA QueueStep ==
  ASSUME TInv, [Next]_vars
  PROVE  QueueOK'
  <1> USE Groups
  <1>a. QueueFacts /\ (turn.pc = "idle" <=> Queue!Active = {}) /\ TurnOK
    BY DEF QueueOK, QueueFacts
  \* A step that leaves the queue alone keeps the turn idle, or keeps it busy.
  <1>1. ASSUME UNCHANGED queueVars, turn'.pc = "idle" <=> turn.pc = "idle" PROVE QueueOK'
    BY <1>1, <1>a DEF QueueOK, QueueFacts, queueVars, Queue!TypeOK, OneActive, QueueExact, Queue!Active
  <1>2. ASSUME UNCHANGED <<queueVars, turn>> PROVE QueueOK'
    BY <1>1, <1>2
  <1>3. ASSUME turn.pc # "idle", Finish PROVE QueueOK'
    BY <1>3, <1>a, FinishQueue DEF Finish, NoTurn, QueueOK, QueueFacts
  <1>4. ASSUME turn.pc # "idle", NEW pc \in TurnPC, pc # "idle", Goto(pc) PROVE QueueOK'
    <2>1. turn'.pc = pc
      BY <1>4, <1>a DEF Goto, TurnOK, TurnRecord
    <2> QED BY <1>1, <1>4, <2>1 DEF Goto
  <1>5. ASSUME turn.pc # "idle", Continue PROVE QueueOK'
    <2>1. turn.then # "idle" => turn.then \in TurnPC
      BY <1>a DEF TurnOK, TurnRecord, Then, TurnPC
    <2> QED BY <1>3, <1>4, <1>5, <2>1 DEF Continue
  <1>6. CASE TurnStep
    <2> USE DEF TurnOnly
    <2>1. CASE Begin
      <3>1. turn'.pc # "idle"
        BY <2>1 DEF Begin, NoTurn
      <3> QED BY <1>a, <2>1, <3>1, BeginQueue DEF Begin, QueueOK, QueueFacts
    <2>2. CASE Lookup \/ CheckAdapter
      BY <1>3, <1>4, <2>2 DEF Lookup, CheckAdapter, TurnPC
    <2>3. CASE Worktree \/ WireSession \/ SetRunning \/ Commit
      BY <1>4, <2>3 DEF Worktree, WireSession, SetRunning, Commit, TurnPC
    <2>4. CASE WorktreeFails \/ OpenFails \/ FailTurn
      BY <1>3, <2>4 DEF WorktreeFails, OpenFails, FailTurn
    <2>5. CASE TurnCloses \/ TurnUnwires
      BY <1>4, <1>5, <2>5 DEF TurnCloses, TurnUnwires, TurnPC
    <2>6. CASE TurnEnds
      <3>1. CASE turn.keepAlive
        BY <1>3, <2>6, <3>1 DEF TurnEnds
      <3>2. CASE ~turn.keepAlive
        BY <1>1, <1>a, <2>6, <3>2 DEF TurnEnds, TurnOK, TurnRecord, queueVars
      <3> QED BY <3>1, <3>2
    <2>7. CASE UseAdapter
      <3>1. session \in {"live", "dead", "none"}
        BY DEF SessionOK
      <3> QED BY <1>1, <1>a, <2>7, <3>1 DEF UseAdapter, TurnOK, TurnRecord
    <2>8. ASSUME NEW fellBack \in BOOLEAN, OpenSession(fellBack) PROVE QueueOK'
      BY <1>1, <1>a, <2>8 DEF OpenSession, TurnOK, TurnRecord
    <2>9. CASE SendPrompt \/ PromptInterrupted
      BY <1>1, <1>a, <2>9 DEF SendPrompt, PromptInterrupted, TurnOK, TurnRecord
    <2>10. CASE Ended
      BY <1>1, <1>a, <2>10 DEF Ended, TurnOK, TurnRecord
    <2>11. CASE Judge
      BY <1>1, <1>a, <2>11 DEF Judge, TurnOK, TurnRecord
    <2> QED BY <1>6, <2>1, <2>2, <2>3, <2>4, <2>5, <2>6, <2>7, <2>8, <2>9, <2>10, <2>11 DEF TurnStep
  <1>7. ASSUME NEW result \in {"ok", "error", "lost"}, PromptReturns(result) PROVE QueueOK'
    BY <1>1, <1>7, <1>a DEF PromptReturns, TurnOnly, TurnOK, TurnRecord
  <1>8. ASSUME NEW t \in Turns, ResumeCheck(t) \/ ResumeSubmit(t) PROVE QueueOK'
    <2>1. CASE Queue!Submit(t) /\ UNCHANGED turn
      BY <1>a, <2>1, SubmitQueue DEF QueueOK, QueueFacts
    <2> QED BY <1>2, <1>8, <2>1 DEF ResumeCheck, ResumeSubmit
  <1>9. ASSUME NEW c \in Stoppers, StopFlushes(c) \/ Stopper(c) PROVE QueueOK'
    <2>1. CASE Queue!Flush /\ UNCHANGED turn
      <3>1. Queue!Waiting \in SUBSET Turns /\ Queue!Waiting \cap Queue!Active = {}
        BY <1>a DEF QueueFacts, Queue!TypeOK, QueueExact, Queue!Waiting, Queue!Active
      <3> QED BY <1>a, <2>1, <3>1, EmptiedQueue DEF Queue!Flush, QueueOK, QueueFacts
    <2>2. CASE StopTransitions(c)
      BY <1>1, <1>a, <2>2 DEF StopTransitions, TurnOK, TurnRecord
    <2> QED BY <1>2, <1>9, <2>1, <2>2
         DEF StopFlushes, Stopper, StopChoosesPath, StopDetaches, StopUnwires, Remove, StopOnly
  <1>10. CASE Crash
    <2> DEFINE drop == {t \in Turns : fate[t] \in {"queued", "active"}}
    <2>1. Queue!Active \subseteq drop /\ turn'.pc = "idle"
      BY <1>10 DEF Queue!Active, Crash, NoTurn
    <2>2. fate' = [t \in Turns |-> IF t \in drop THEN "dropped" ELSE fate[t]]
      BY <1>10 DEF Crash
    <2>3. pending' = <<>> /\ drop \in SUBSET Turns
      BY <1>10 DEF Crash
    <2> HIDE DEF drop
    <2> QED BY <1>a, <2>1, <2>2, <2>3, EmptiedQueue DEF QueueOK, QueueFacts
  <1>11. CASE Write \/ Register
    <2>1. turn'.pc = turn.pc
      BY <1>a, <1>11 DEF Write, Register, Reaches, TurnOK, TurnRecord
    <2> QED BY <1>1, <1>11, <2>1 DEF Write, Register, AgentOnly
  <1> QED BY <1>2, <1>6, <1>7, <1>8, <1>9, <1>10, <1>11
       DEF Next, vars, AgentReports, AgentAsks, Answered, AgentDies, AgentOnly,
           ReaperPicks, ReaperCloses, ReaperDetaches, ReaperUnwires, ReaperOnly

LEMMA HandlersStep ==
  ASSUME TInv, [Next]_vars
  PROVE  HandlersOK'
  <1> USE Groups DEF HandlersOK
  <1>1. CASE UNCHANGED <<resume, stop, reaper, crashes>>
    BY <1>1
  <1>2. CASE TurnStep
    BY <1>1, <1>2
       DEF TurnStep, Begin, Lookup, Worktree, WorktreeFails, UseAdapter, OpenSession, OpenFails,
           WireSession, CheckAdapter, SetRunning, SendPrompt, PromptInterrupted, Ended, FailTurn,
           Judge, Commit, TurnEnds, TurnCloses, TurnUnwires, TurnOnly
  <1>3. ASSUME NEW t \in Turns, ResumeCheck(t) \/ ResumeSubmit(t) PROVE HandlersOK'
    <2>1. CASE ResumeCheck(t)
      <3>1. (task.sids # {}) \in BOOLEAN
        OBVIOUS
      <3>2. ASSUME NEW sid \in BOOLEAN,
                   resume' = [resume EXCEPT ![t] = [pc |-> "checked", sid |-> sid]],
                   UNCHANGED <<stop, reaper, crashes>>
            PROVE  HandlersOK'
        BY <3>2
      <3> QED BY <2>1, <3>1, <3>2 DEF ResumeCheck
    <2>2. CASE ResumeSubmit(t)
      BY <2>2 DEF ResumeSubmit
    <2> QED BY <1>3, <2>1, <2>2
  <1>4. ASSUME NEW c \in Stoppers, StopFlushes(c) \/ Stopper(c) PROVE HandlersOK'
    <2>1. ASSUME NEW pc \in StopPC, StopGoto(c, pc), UNCHANGED <<resume, reaper, crashes>>
          PROVE  HandlersOK'
      BY <2>1 DEF StopGoto
    <2>2. StopPC \cup {After(c)} = StopPC
      BY DEF StopPC, After
    <2> QED BY <1>4, <2>1, <2>2
         DEF StopFlushes, Stopper, StopChoosesPath, StopTransitions, StopDetaches, StopUnwires,
             Remove, StopOnly, StopPC
  <1>5. CASE ReaperPicks \/ ReaperCloses
    BY <1>5 DEF ReaperPicks, ReaperCloses, ReaperDetaches, ReaperUnwires, ReaperOnly
  <1>6. CASE Crash
    BY <1>6, ConfigAssumption DEF Crash, StopPC
  <1> QED BY <1>1, <1>2, <1>3, <1>4, <1>5, <1>6
       DEF Next, vars, PromptReturns, TurnOnly, AgentReports, Write, AgentAsks, Register, Answered,
           AgentDies, AgentOnly

\* No step but Judge brings a turn to its commit; and while a turn is there, what
\* reaches the task is noted.
LEMMA VerdictStep ==
  ASSUME TInv, [Next]_vars
  PROVE  VerdictHolds'
  <1>a. VerdictHolds /\ turn \in TurnRecord /\ task \in TaskRecord
    BY Groups DEF TurnOK, TaskOK
  \* A step after which the turn is not about to commit.
  <1>b. ASSUME NEW pc, pc # "commit", Goto(pc) PROVE VerdictHolds'
    BY <1>a, <1>b DEF Goto, VerdictHolds, TurnRecord
  <1>c. ASSUME Finish PROVE VerdictHolds'
    BY <1>c DEF Finish, NoTurn, VerdictHolds
  <1>d. ASSUME Continue PROVE VerdictHolds'
    BY <1>a, <1>b, <1>c, <1>d DEF Continue, TurnRecord, Then
  \* A step of somebody else.
  <1>e. ASSUME turn'.pc = turn.pc, turn'.result = turn.result, turn'.late = turn.late,
               turn.pc = "commit" => task'.output = task.output /\ (asked' => asked)
        PROVE  VerdictHolds'
    BY <1>a, <1>e DEF VerdictHolds, Earned
  <1>f. ASSUME NEW target, Transition(target) PROVE task'.output = task.output
    BY <1>a, <1>f DEF Transition, TaskRecord
  <1>g. (Detach \/ Unwire) => (asked' => asked)
    BY DEF Detach, Unwire
  <1>1. CASE UNCHANGED vars
    BY <1>1, <1>e DEF vars, sessionVars
  <1>2. CASE TurnStep
    <2>1. CASE Begin
      BY <2>1 DEF Begin, NoTurn, VerdictHolds
    <2>2. CASE Lookup \/ Worktree \/ WorktreeFails \/ OpenFails \/ WireSession \/ CheckAdapter
               \/ SetRunning \/ FailTurn \/ Commit \/ TurnCloses \/ TurnUnwires
      BY <1>b, <1>c, <1>d, <2>2
         DEF Lookup, Worktree, WorktreeFails, OpenFails, WireSession, CheckAdapter, SetRunning,
             FailTurn, Commit, TurnCloses, TurnUnwires
    <2>3. CASE UseAdapter
      <3>1. session \in {"live", "dead", "none"}
        BY Groups DEF SessionOK
      <3> QED BY <1>a, <2>3, <3>1 DEF UseAdapter, VerdictHolds, TurnRecord
    <2>4. ASSUME NEW fellBack \in BOOLEAN, OpenSession(fellBack) PROVE VerdictHolds'
      BY <1>a, <2>4 DEF OpenSession, VerdictHolds, TurnRecord
    <2>5. CASE SendPrompt \/ PromptInterrupted
      BY <1>a, <2>5 DEF SendPrompt, PromptInterrupted, VerdictHolds, TurnRecord
    <2>6. CASE Ended
      BY <1>a, <2>6 DEF Ended, VerdictHolds, TurnRecord
    <2>7. CASE Judge
      BY <1>a, <2>7 DEF Judge, Verdict, VerdictHolds, Earned, TurnRecord, sessionVars
    <2>8. CASE TurnEnds
      BY <1>a, <1>c, <2>8 DEF TurnEnds, VerdictHolds, TurnRecord
    <2> QED BY <1>2, <2>1, <2>2, <2>3, <2>4, <2>5, <2>6, <2>7, <2>8 DEF TurnStep
  <1>3. ASSUME NEW result \in {"ok", "error", "lost"}, PromptReturns(result) PROVE VerdictHolds'
    BY <1>a, <1>3 DEF PromptReturns, VerdictHolds, TurnRecord
  <1>4. ASSUME NEW t \in Turns, ResumeCheck(t) \/ ResumeSubmit(t) PROVE VerdictHolds'
    BY <1>4, <1>e DEF ResumeCheck, ResumeSubmit, sessionVars
  <1>5. ASSUME NEW output \in Outputs, AgentReports(output) PROVE VerdictHolds'
    BY <1>5, <1>e DEF AgentReports, AgentOnly, sessionVars
  <1>6. CASE AgentAsks \/ AgentDies
    BY <1>6, <1>e DEF AgentAsks, AgentDies, AgentOnly
  <1>7. CASE Answered
    BY <1>a, <1>7, <1>e DEF Answered, AgentOnly, TaskRecord
  <1>8. ASSUME NEW c \in Stoppers, StopFlushes(c) \/ Stopper(c) PROVE VerdictHolds'
    <2>1. CASE StopTransitions(c)
      BY <1>a, <1>e, <1>f, <2>1 DEF StopTransitions, TurnRecord, sessionVars
    <2>2. CASE Remove(c)
      BY <1>a, <1>e, <2>2 DEF Remove, StopOnly, TaskRecord, sessionVars
    <2> QED BY <1>8, <1>e, <1>g, <2>1, <2>2
         DEF StopFlushes, Stopper, StopChoosesPath, StopDetaches, StopUnwires, StopOnly, sessionVars
  <1>9. CASE ReaperPicks \/ ReaperCloses
    BY <1>9, <1>e, <1>g
       DEF ReaperPicks, ReaperCloses, ReaperDetaches, ReaperUnwires, ReaperOnly, sessionVars
  <1>10. CASE Crash
    BY <1>10 DEF Crash, NoTurn, VerdictHolds
  <1>11. CASE Write \/ Register
    <2>1. ASSUME NEW what, Reaches(what)
          PROVE  /\ turn'.pc = turn.pc /\ turn'.result = turn.result
                 /\ turn.pc = "commit" => turn'.late = turn.late \cup {what}
      BY <1>a, <2>1 DEF Reaches, TurnRecord
    <2>2. CASE Write
      BY <1>a, <1>11, <2>1, <2>2 DEF Write, VerdictHolds, Earned, sessionVars
    <2>3. CASE Register
      <3>1. CASE UNCHANGED <<task, asked, turn>>
        BY <1>e, <3>1
      <3>2. CASE Reaches("request") /\ task' = [task EXCEPT !.status = "waiting_input"]
        BY <1>a, <2>1, <3>2 DEF VerdictHolds, Earned, TaskRecord
      <3> QED BY <2>3, <3>1, <3>2 DEF Register
    <2> QED BY <1>11, <2>2, <2>3
  <1> QED BY <1>1, <1>2, <1>3, <1>4, <1>5, <1>6, <1>7, <1>8, <1>9, <1>10, <1>11 DEF Next

LEMMA TypedStep == TInv /\ [Next]_vars => TInv'
  <1> SUFFICES ASSUME TInv, [Next]_vars PROVE TInv'
    OBVIOUS
  <1>1. TaskOK' /\ SessionOK' /\ TurnOK' /\ QueueOK' /\ HandlersOK' /\ VerdictHolds'
    BY TaskStep, SessionStep, TurnPCStep, QueueStep, HandlersStep, VerdictStep
  <1> QED BY <1>1
       DEF TInv, TypeOK, TaskOK, SessionOK, TurnOK, QueueOK, HandlersOK, TurnRecord, TaskRecord

LEMMA TypedAlways == Spec => []TInv
  <1>1. Init => TInv
    BY InitIInv DEF IInv
  <1> QED BY <1>1, TypedStep, PTL DEF Spec

\* Every variable keeps its range: the drainer's turn, its queue, the session, the
\* handlers and the reaper never reach a combination the code has no branch for; in
\* particular a turn is in progress exactly when the queue has an active one.
THEOREM TypeCorrect == Spec => []TypeOK
  BY TypedAlways, PTL DEF TInv

\* Whatever the number of turns, cancels and crashes: an outcome gives way only to a
\* turn that starts or to a resumption that finds no agent (transition's guard, and
\* forceFailTask past it).
THEOREM OutcomesFinal == Spec => OutcomeIsFinal
  <1> DEFINE A == task.status \in Terminal /\ task'.status # task.status =>
                     \/ task'.status = "running" /\ turn.pc = "prompt"
                     \/ task'.status = "failed" /\ turn.pc = "open" /\ ResumesFrom
  <1>1. TInv /\ [Next]_vars => [A]_vars
    <2> SUFFICES ASSUME TInv, Next, task.status \in Terminal, task'.status # task.status
                 PROVE  \/ task'.status = "running" /\ turn.pc = "prompt"
                        \/ task'.status = "failed" /\ turn.pc = "open" /\ ResumesFrom
      BY DEF A
    <2>a. task \in TaskRecord
      BY Groups DEF TaskOK
    <2>b. ASSUME NEW target, Transition(target) PROVE target = "running" /\ task'.status = "running"
      BY <2>a, <2>b DEF Transition, Guarded, TaskRecord
    <2>c. ASSUME UNCHANGED task PROVE FALSE
      BY <2>c
    <2>1. CASE TurnStep
      <3>1. CASE Worktree \/ WireSession
        BY <2>a, <3>1 DEF Worktree, WireSession, TaskRecord
      <3>2. CASE WorktreeFails \/ FailTurn
        BY <2>b, <3>2 DEF WorktreeFails, FailTurn, Conclude
      <3>3. CASE OpenFails
        BY <2>a, <2>b, <3>3 DEF OpenFails, ForceFail, Conclude, TaskRecord
      <3>4. CASE SetRunning
        BY <2>b, <3>4 DEF SetRunning
      <3>5. CASE Commit
        <4>1. turn.result # "running"
          BY <3>5, Groups DEF Commit, VerdictHolds
        <4> QED BY <2>b, <3>5, <4>1 DEF Commit, Conclude
      <3> QED BY <2>1, <2>c, <3>1, <3>2, <3>3, <3>4, <3>5
           DEF TurnStep, Begin, Lookup, UseAdapter, OpenSession, CheckAdapter, SendPrompt,
               PromptInterrupted, Ended, Judge, TurnEnds, TurnCloses, TurnUnwires
    <2>2. CASE Write
      BY <2>2, <2>a DEF Write, TaskRecord
    <2>3. CASE Register \/ Answered
      BY <2>3, <2>c DEF Register, Answered, Terminal
    <2>4. ASSUME NEW c \in Stoppers, StopFlushes(c) \/ Stopper(c) PROVE FALSE
      BY <2>4, <2>a, <2>b, <2>c
         DEF StopFlushes, Stopper, StopChoosesPath, StopTransitions, StopDetaches, StopUnwires,
             Remove, TaskRecord
    <2>5. CASE Crash
      BY <2>5, <2>a DEF Crash, Loaded, Terminal, TaskRecord
    <2> QED BY <2>1, <2>2, <2>3, <2>4, <2>5, <2>c
         DEF Next, ResumeCheck, ResumeSubmit, PromptReturns, AgentReports, AgentAsks, AgentDies,
             ReaperPicks, ReaperCloses, ReaperDetaches, ReaperUnwires, ReaperOnly
  <1>2. Spec => [][A]_vars
    BY <1>1, TypedAlways, PTL DEF Spec
  <1> QED BY <1>2 DEF OutcomeIsFinal

\* However its goroutines meet, a task becomes completed in Commit alone, and what
\* Judge read of it (soft_complete.go:78) still holds then, whoever cancels, closes,
\* answers or reaps in between: there is a result, and nobody waits for an approval who
\* had been asked before, late after the prompt or in an earlier turn.  Only what
\* reaches the task after Judge has looked goes unseen (NobodyIsPassedOver).
THEOREM CompletionsEarned == Spec => CompletedIsEarned
  <1> DEFINE A == task.status # "completed" /\ task'.status = "completed" =>
                     /\ task.output = "result" \/ "report" \in turn.late
                     /\ asked => "request" \in turn.late
  <1>1. TInv /\ [Next]_vars => [A]_vars
    <2> SUFFICES ASSUME TInv, Next, task.status # "completed", task'.status = "completed"
                 PROVE  Earned
      BY DEF A, Earned
    <2>a. task \in TaskRecord
      BY Groups DEF TaskOK
    <2>b. ASSUME NEW target, Transition(target) PROVE target = "completed"
      BY <2>a, <2>b DEF Transition, Guarded, TaskRecord
    <2>c. ASSUME UNCHANGED task PROVE FALSE
      BY <2>c
    <2>1. CASE TurnStep
      <3>1. CASE Commit
        BY <2>b, <3>1, Groups DEF Commit, Conclude, VerdictHolds
      <3>2. CASE Worktree \/ WireSession
        BY <2>a, <3>2 DEF Worktree, WireSession, TaskRecord
      <3>3. CASE WorktreeFails \/ FailTurn \/ SetRunning
        BY <2>b, <3>3 DEF WorktreeFails, FailTurn, SetRunning, Conclude
      <3>4. CASE OpenFails
        BY <2>a, <2>b, <3>4 DEF OpenFails, ForceFail, Conclude, TaskRecord
      <3> QED BY <2>1, <2>c, <3>1, <3>2, <3>3, <3>4
           DEF TurnStep, Begin, Lookup, UseAdapter, OpenSession, CheckAdapter, SendPrompt,
               PromptInterrupted, Ended, Judge, TurnEnds, TurnCloses, TurnUnwires
    <2>2. CASE Write
      BY <2>2, <2>a DEF Write, TaskRecord
    <2>3. CASE Register \/ Answered
      BY <2>a, <2>c, <2>3 DEF Register, Answered, TaskRecord
    <2>4. ASSUME NEW c \in Stoppers, StopFlushes(c) \/ Stopper(c) PROVE FALSE
      BY <2>4, <2>a, <2>b, <2>c
         DEF StopFlushes, Stopper, StopChoosesPath, StopTransitions, StopDetaches, StopUnwires,
             Remove, TaskRecord
    <2>5. CASE Crash
      BY <2>5, <2>a DEF Crash, Loaded, TaskRecord
    <2> QED BY <2>1, <2>2, <2>3, <2>4, <2>5, <2>c
         DEF Next, ResumeCheck, ResumeSubmit, PromptReturns, AgentReports, AgentAsks, AgentDies,
             ReaperPicks, ReaperCloses, ReaperDetaches, ReaperUnwires, ReaperOnly
  <1>2. Spec => [][A]_vars
    BY <1>1, TypedAlways, PTL DEF Spec
  <1> QED BY <1>2 DEF CompletedIsEarned

-----------------------------------------------------------------------------
(* A live status is owned, without a fallback *)

\* Without a fallback a session is kept between turns, and no conversation is lost.
LEMMA KeepsAliveStep ==
  ASSUME TInv, KeepsAlive, ~Fallback, [Next]_vars
  PROVE  KeepsAlive'
  <1> USE DEF KeepsAlive
  <1>a. turn \in TurnRecord /\ ~oneShot /\ turn.keepAlive /\ turn.result # "lost"
    BY Groups DEF TurnOK
  <1>b. ASSUME NEW pc, Goto(pc) PROVE turn'.keepAlive /\ turn'.result # "lost"
    BY <1>a, <1>b DEF Goto, TurnRecord
  <1>c. ASSUME Finish PROVE turn'.keepAlive /\ turn'.result # "lost"
    BY <1>c DEF Finish, NoTurn
  <1>d. (Detach \/ Unwire) => ~oneShot'
    BY <1>a DEF Detach, Unwire
  <1>1. CASE UNCHANGED <<sessionVars, turn>>
    BY <1>1, <1>a DEF sessionVars
  <1>2. CASE TurnStep
    <2>1. CASE Begin
      BY <1>a, <2>1 DEF Begin, NoTurn, sessionVars
    <2>2. CASE Lookup \/ Worktree \/ WorktreeFails \/ OpenFails \/ CheckAdapter \/ SetRunning
               \/ FailTurn \/ Commit
      BY <1>a, <1>b, <1>c, <2>2
         DEF Lookup, Worktree, WorktreeFails, OpenFails, CheckAdapter, SetRunning, FailTurn, Commit,
             sessionVars
    <2>3. CASE TurnCloses \/ TurnUnwires \/ WireSession
      BY <1>a, <1>b, <1>c, <1>d, <2>3 DEF TurnCloses, TurnUnwires, WireSession, Continue, sessionVars
    <2>4. CASE UseAdapter
      <3>1. session \in {"live", "dead", "none"}
        BY Groups DEF SessionOK
      <3> QED BY <1>a, <2>4, <3>1 DEF UseAdapter, TurnRecord, sessionVars
    <2>5. ASSUME NEW fellBack \in BOOLEAN, OpenSession(fellBack) PROVE KeepsAlive'
      BY <1>a, <2>5 DEF OpenSession, TurnRecord
    <2>6. CASE SendPrompt \/ PromptInterrupted
      BY <1>a, <2>6 DEF SendPrompt, PromptInterrupted, TurnRecord, sessionVars
    <2>7. CASE Ended
      BY <1>a, <2>7 DEF Ended, TurnRecord, sessionVars
    <2>8. CASE Judge
      BY <1>a, <2>8 DEF Judge, Verdict, TurnRecord, sessionVars
    <2>9. CASE TurnEnds
      BY <1>a, <1>c, <2>9 DEF TurnEnds, sessionVars
    <2> QED BY <1>2, <2>1, <2>2, <2>3, <2>4, <2>5, <2>6, <2>7, <2>8, <2>9 DEF TurnStep
  <1>3. ASSUME NEW result \in {"ok", "error", "lost"}, PromptReturns(result) PROVE KeepsAlive'
    BY <1>a, <1>3 DEF PromptReturns, TurnRecord, sessionVars
  <1>4. ASSUME NEW output \in Outputs, AgentReports(output) PROVE KeepsAlive'
    BY <1>1, <1>4 DEF AgentReports, AgentOnly
  <1>5. CASE AgentAsks \/ Answered \/ AgentDies \/ Write \/ Register
    BY <1>a, <1>5
       DEF AgentAsks, Answered, AgentDies, Write, Register, Reaches, AgentOnly, TurnRecord, sessionVars
  <1>6. ASSUME NEW c \in Stoppers, StopFlushes(c) \/ Stopper(c) PROVE KeepsAlive'
    <2>1. CASE StopTransitions(c)
      BY <1>a, <2>1 DEF StopTransitions, TurnRecord, sessionVars
    <2> QED BY <1>1, <1>6, <1>a, <1>d, <2>1
         DEF StopFlushes, Stopper, StopChoosesPath, StopDetaches, StopUnwires, Remove, StopOnly
  <1>7. CASE ReaperPicks \/ ReaperCloses
    BY <1>1, <1>7, <1>a, <1>d DEF ReaperPicks, ReaperCloses, ReaperDetaches, ReaperUnwires, ReaperOnly
  <1>8. CASE Crash
    BY <1>8 DEF Crash, NoTurn
  <1> QED BY <1>1, <1>2, <1>3, <1>4, <1>5, <1>6, <1>7, <1>8
       DEF Next, vars, ResumeCheck, ResumeSubmit

LEMMA NotPendingStep ==
  ASSUME TInv, NotPending, [Next]_vars
  PROVE  NotPending'
  <1> USE DEF NotPending
  <1>a. turn \in TurnRecord /\ task \in TaskRecord
    BY Groups DEF TurnOK, TaskOK
  <1>b. ASSUME NEW target, target # "pending", Transition(target)
        PROVE  /\ task'.exists = task.exists
               /\ task.exists => task'.status # "pending" \/ task'.status = task.status
               /\ task.exists /\ target = "running" => task'.status = "running"
    BY <1>a, <1>b DEF Transition, Guarded, TaskRecord
  \* A step that keeps the status, sends nothing and brings no turn to its prompt.
  <1>c. ASSUME sent' # "none" => sent # "none",
               turn'.pc \in {"send", "run"} => turn.pc \in {"send", "run"},
               task'.exists => task.exists,
               task'.exists /\ task'.status = "pending" => task.status = "pending"
        PROVE  NotPending'
    BY <1>c
  <1>d. ASSUME NEW pc, Goto(pc) PROVE turn'.pc = pc
    BY <1>a, <1>d DEF Goto, TurnRecord
  <1>e. (Detach \/ Unwire) => (sent' # "none" => sent # "none")
    BY DEF Detach, Unwire
  <1>f. Finish => turn'.pc = "idle"
    BY DEF Finish, NoTurn
  <1>g. Continue => turn'.pc \in {"idle", "open", "fail"}
    BY <1>a, <1>d, <1>f DEF Continue, TurnRecord, Then
  <1>1. CASE UNCHANGED vars
    BY <1>1, <1>c DEF vars, sessionVars
  <1>2. CASE TurnStep
    <2> USE DEF sessionVars, TurnOnly
    <2>1. CASE Begin
      BY <1>c, <2>1 DEF Begin, NoTurn
    <2>2. CASE Lookup \/ CheckAdapter \/ TurnEnds
      BY <1>a, <1>c, <1>d, <1>f, <2>2 DEF Lookup, CheckAdapter, TurnEnds, TurnRecord
    <2>3. CASE Worktree \/ WireSession
      BY <1>a, <1>c, <1>d, <2>3 DEF Worktree, WireSession, TaskRecord
    <2>4. CASE WorktreeFails \/ FailTurn
      BY <1>b, <1>c, <1>f, <2>4 DEF WorktreeFails, FailTurn, Conclude
    <2>5. CASE OpenFails
      BY <1>a, <1>b, <1>c, <1>f, <2>5 DEF OpenFails, ForceFail, Conclude, TaskRecord
    <2>6. ASSUME NEW fellBack \in BOOLEAN, OpenSession(fellBack) PROVE NotPending'
      BY <1>a, <1>c, <2>6 DEF OpenSession, TurnRecord
    <2>7. CASE SetRunning
      BY <1>b, <2>7 DEF SetRunning
    <2>8. CASE UseAdapter
      <3>1. session \in {"live", "dead", "none"}
        BY Groups DEF SessionOK
      <3> QED BY <1>a, <1>c, <2>8, <3>1 DEF UseAdapter, TurnRecord
    <2>9. CASE SendPrompt \/ PromptInterrupted
      BY <1>a, <1>c, <2>9 DEF SendPrompt, PromptInterrupted, TurnRecord
    <2>10. CASE Ended \/ Judge
      BY <1>a, <1>c, <2>10 DEF Ended, Judge, TurnRecord
    <2>11. CASE Commit
      <3>1. turn.result # "pending"
        BY <2>11, Groups DEF Commit, VerdictHolds
      <3> QED BY <1>b, <1>c, <1>d, <2>11, <3>1 DEF Commit, Conclude
    <2>12. CASE TurnCloses \/ TurnUnwires
      BY <1>c, <1>d, <1>e, <1>g, <2>12 DEF TurnCloses, TurnUnwires
    <2> QED BY <1>2, <2>1, <2>2, <2>3, <2>4, <2>5, <2>6, <2>7, <2>8, <2>9, <2>10, <2>11, <2>12
         DEF TurnStep
  <1>3. ASSUME NEW result \in {"ok", "error", "lost"}, PromptReturns(result) PROVE NotPending'
    BY <1>a, <1>c, <1>3 DEF PromptReturns, TurnRecord, sessionVars
  <1>4. ASSUME NEW t \in Turns, ResumeCheck(t) \/ ResumeSubmit(t) PROVE NotPending'
    BY <1>4, <1>c DEF ResumeCheck, ResumeSubmit, sessionVars
  <1>5. ASSUME NEW output \in Outputs, AgentReports(output) PROVE NotPending'
    BY <1>5, <1>c DEF AgentReports, sessionVars
  <1>6. CASE AgentAsks
    BY <1>6 DEF AgentAsks, Prompting
  <1>7. CASE Answered \/ AgentDies
    BY <1>a, <1>c, <1>7 DEF Answered, AgentDies, TaskRecord
  <1>8. CASE Write \/ Register
    BY <1>a, <1>c, <1>8 DEF Write, Register, Reaches, TaskRecord, TurnRecord, sessionVars
  <1>9. ASSUME NEW c \in Stoppers, StopFlushes(c) \/ Stopper(c) PROVE NotPending'
    <2>1. CASE StopTransitions(c)
      BY <1>a, <1>b, <1>c, <2>1 DEF StopTransitions, TurnRecord, sessionVars
    <2>2. CASE Remove(c)
      BY <1>a, <2>2 DEF Remove, TaskRecord
    <2> QED BY <1>9, <1>c, <1>e, <2>1, <2>2
         DEF StopFlushes, Stopper, StopChoosesPath, StopDetaches, StopUnwires, StopOnly, sessionVars
  <1>10. CASE ReaperPicks \/ ReaperCloses
    BY <1>10, <1>c, <1>e
       DEF ReaperPicks, ReaperCloses, ReaperDetaches, ReaperUnwires, ReaperOnly, sessionVars
  <1>11. CASE Crash
    BY <1>11 DEF Crash, NoTurn
  <1> QED BY <1>1, <1>2, <1>3, <1>4, <1>5, <1>6, <1>7, <1>8, <1>9, <1>10, <1>11 DEF Next

\* A status becomes live only where the turn sends its prompt, or by a request that
\* was sent under one; and the turn that has it settles it before it ends.
LEMMA SettledStep ==
  ASSUME TInv, KeepsAlive, NotPending, LiveIsSettled, ~Fallback, [Next]_vars
  PROVE  LiveIsSettled'
  <1> USE DEF LiveIsSettled, Live
  <1>a. turn \in TurnRecord /\ task \in TaskRecord /\ turn.keepAlive /\ turn.result # "lost"
    BY Groups DEF TurnOK, TaskOK, KeepsAlive
  <1>b. ASSUME NEW pc, Goto(pc) PROVE turn' = [turn EXCEPT !.pc = pc] /\ turn'.pc = pc
    BY <1>a, <1>b DEF Goto, TurnRecord
  <1>c. ASSUME NEW target \in Terminal, Transition(target) PROVE ~Live'
    BY <1>a, <1>c DEF Transition, Guarded, TaskRecord, Terminal
  \* A step that makes nothing live, and after which the turn settles as before.
  <1>d. ASSUME Live' => Live, Settling => Settling' PROVE LiveIsSettled'
    BY <1>d
  <1>e. ASSUME Live' => Live, ~Settling PROVE LiveIsSettled'
    BY <1>e
  <1>f. ASSUME UNCHANGED turn PROVE Settling => Settling'
    BY <1>f DEF Settling
  <1>1. CASE UNCHANGED <<task, turn>>
    BY <1>1, <1>d, <1>f
  <1>2. CASE TurnStep
    <2>1. CASE Begin \/ Lookup \/ UseAdapter \/ CheckAdapter
      BY <1>e, <2>1 DEF Begin, Lookup, UseAdapter, CheckAdapter, Settling
    <2>2. CASE Worktree \/ WireSession
      BY <1>a, <1>e, <2>2 DEF Worktree, WireSession, Settling, TaskRecord
    <2>3. CASE WorktreeFails \/ FailTurn
      BY <1>c, <2>3 DEF WorktreeFails, FailTurn, Conclude, Terminal
    <2>4. CASE OpenFails
      BY <1>a, <1>c, <2>4 DEF OpenFails, Conclude, ForceFail, TaskRecord, Terminal
    <2>5. ASSUME NEW fellBack \in BOOLEAN, OpenSession(fellBack) PROVE LiveIsSettled'
      BY <1>e, <2>5 DEF OpenSession, Settling
    <2>6. CASE SetRunning
      BY <1>b, <2>6 DEF SetRunning, Settling
    <2>7. CASE SendPrompt \/ PromptInterrupted
      BY <1>a, <2>7 DEF SendPrompt, PromptInterrupted, Settling, TurnRecord
    <2>8. CASE Ended
      BY <1>a, <2>8 DEF Ended, Settling, TurnRecord
    <2>9. CASE Judge
      BY <1>a, <2>9 DEF Judge, Settling, TurnRecord
    <2>10. CASE Commit
      <3>1. turn.result \in {"completed", "failed"}
        BY <2>10, Groups DEF Commit, VerdictHolds
      <3> QED BY <1>c, <2>10, <3>1 DEF Commit, Conclude, Terminal
    <2>11. CASE TurnEnds
      BY <1>e, <2>11 DEF TurnEnds, Settling
    <2>12. CASE TurnCloses \/ TurnUnwires
      <3>1. turn.pc \in {"close", "unwire"} /\ UNCHANGED task
        BY <2>12 DEF TurnCloses, TurnUnwires
      <3>2. CASE turn.then = "fail"
        <4>1. Settling'
          BY <1>a, <1>b, <2>12, <3>2 DEF TurnCloses, TurnUnwires, Continue, Goto, Settling, TurnRecord
        <4> QED BY <1>d, <3>1, <4>1
      <3>3. CASE turn.then # "fail"
        BY <1>e, <3>1, <3>3 DEF Settling
      <3> QED BY <3>2, <3>3
    <2> QED BY <1>2, <2>1, <2>2, <2>3, <2>4, <2>5, <2>6, <2>7, <2>8, <2>9, <2>10, <2>11, <2>12
         DEF TurnStep
  <1>3. ASSUME NEW result \in {"ok", "error", "lost"}, PromptReturns(result) PROVE LiveIsSettled'
    BY <1>a, <1>3 DEF PromptReturns, Settling, TurnRecord
  <1>g. ASSUME NEW what, Reaches(what) PROVE Settling => Settling'
    BY <1>a, <1>g DEF Reaches, Settling, TurnRecord
  <1>4. CASE Write
    BY <1>a, <1>d, <1>g, <1>4 DEF Write, TaskRecord
  <1>5. CASE Register
    <2>1. CASE UNCHANGED <<task, turn>>
      BY <1>1, <2>1
    <2>2. CASE task.exists /\ task.status \notin Terminal /\ Reaches("request")
      <3>1. task.status \in {"running", "waiting_input"}
        BY <1>a, <1>5, <2>2 DEF NotPending, Register, TaskRecord, Status
      <3> QED BY <1>g, <2>2, <3>1
    <2> QED BY <1>5, <2>1, <2>2 DEF Register
  <1>6. CASE Answered
    BY <1>a, <1>d, <1>f, <1>6 DEF Answered, AgentOnly, TaskRecord
  <1>7. ASSUME NEW c \in Stoppers, StopFlushes(c) \/ Stopper(c) PROVE LiveIsSettled'
    <2>1. CASE StopTransitions(c)
      BY <1>c, <2>1 DEF StopTransitions, Terminal
    <2>2. CASE Remove(c)
      BY <1>a, <2>2 DEF Remove, TaskRecord
    <2> QED BY <1>1, <1>7, <2>1, <2>2
         DEF StopFlushes, Stopper, StopChoosesPath, StopDetaches, StopUnwires, StopOnly
  <1>8. CASE Crash
    BY <1>a, <1>8 DEF Crash, Loaded, TaskRecord
  <1> QED BY <1>1, <1>2, <1>3, <1>4, <1>5, <1>6, <1>7, <1>8
       DEF Next, vars, ResumeCheck, ResumeSubmit, AgentReports, AgentAsks, AgentDies, AgentOnly,
           ReaperPicks, ReaperCloses, ReaperDetaches, ReaperUnwires, ReaperOnly

\* Without a print fallback a task shown as running or as waiting for an approval has
\* a turn that still has to settle it, whatever is cancelled, deleted, reaped or
\* restarted meanwhile (task_store.go:398).  With a fallback it is false: see the
\* comment of LiveStatusIsOwned.
THEOREM LiveOwned == ASSUME ~Fallback PROVE Spec => []LiveStatusIsOwned
  <1> DEFINE J == TInv /\ KeepsAlive /\ NotPending /\ LiveIsSettled
  <1>1. Init => J
    BY InitIInv DEF IInv
  <1>2. J /\ [Next]_vars => J'
    BY ~Fallback, TypedStep, KeepsAliveStep, NotPendingStep, SettledStep
  <1>3. J => LiveStatusIsOwned
    <2>1. Settling => turn.pc \notin {"idle", "lookup", "worktree", "adapter", "tail"}
      BY DEF Settling
    <2> QED BY <2>1 DEF LiveIsSettled, Live, LiveStatusIsOwned
  <1> QED BY <1>1, <1>2, <1>3, PTL DEF Spec

=============================================================================
