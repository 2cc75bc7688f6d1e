--------------------------- MODULE TaskLifecycle ---------------------------
(***************************************************************************)
(* The life of one task driven through its agent session                   *)
(* (internal/core/task_runner.go, task_store.go, soft_complete.go and the  *)
(* task handlers of internal/api/tasks.go).                                *)
(*                                                                         *)
(* Several goroutines act on the task without a common lock: the drainer   *)
(* of its turn queue (SerialTurns), which runs one turn at a time; the     *)
(* handlers that submit turns; a user's cancel; the handler that deletes   *)
(* the task; the reaper of idle sessions; the agent itself.  Each step     *)
(* below is what one of them does between two points where another can     *)
(* come in: a store.Update is atomic, a Get followed by an Update is not.  *)
(*                                                                         *)
(* Abstracted: texts, events and notifications (only what is announced     *)
(* about the outcome is kept), turn-end snapshots, and the decision card,  *)
(* which is shown exactly in waiting_input.  The permission wire is        *)
(* reduced to its displayed request (PermissionWire details it).  What the *)
(* agent reports and asks is under way for a while before it reaches the   *)
(* task, one report and one request at a time (Streams and AcpSession).    *)
(***************************************************************************)
EXTENDS Naturals, Sequences

CONSTANTS
    Turns,          \* the turns that may be submitted
    First,          \* the turn that starts the task; the others resume it
    Stoppers,       \* the handlers that stop the task: "cancel", "delete"
    Fallback,       \* a print adapter is configured behind the ACP one
    Reaper,         \* idle sessions are closed (acp.idle_timeout > 0)
    MaxCrashes      \* bound: how often the process dies and comes back

ASSUME FirstAssumption == First \in Turns
ASSUME StoppersAssumption == Stoppers \subseteq {"cancel", "delete"}
ASSUME ConfigAssumption ==
    Fallback \in BOOLEAN /\ Reaper \in BOOLEAN /\ MaxCrashes \in Nat

VARIABLES
    task,           \* the stored task
    session,        \* the registered session: none, live, or its process died
    oneShot,        \* the registered session is the print fallback
    wires,          \* the wires of the task: those of its session, or of a past one
    asked,          \* a permission request waits for its answer
    sent,           \* a request is on its way to its wires, or to wires replaced since
    said,           \* a report is in the buffers of the wires
    pending, fate,  \* the turn queue (SerialTurns)
    turn,           \* the turn in progress; .stopped: its task was cancelled meanwhile;
                    \* .late: what reached the task between its verdict and the commit
    resume,         \* resume[t]: the handler that submits turn t
    stop,           \* stop[c]: the handlers that cancel and that delete
    reaper,         \* the idle reaper
    crashes

queueVars == <<pending, fate>>
sessionVars == <<session, oneShot, wires, asked, sent>>
vars == <<task, sessionVars, said, queueVars, turn, resume, stop, reaper, crashes>>

Queue == INSTANCE SerialTurns

-----------------------------------------------------------------------------

Terminal == {"completed", "failed", "cancelled"}
Status == {"pending", "running", "waiting_input"} \cup Terminal

\* What the task's events show: nothing, a result, or something a turn may not
\* complete with (a tool call without result, a test report that declares FAIL).
Outputs == {"none", "result", "unacceptable"}

TurnPC == {"idle", "lookup", "worktree", "adapter", "open", "wire", "check",
           "prompt", "send", "run", "ended", "fail", "judge", "commit", "tail",
           "close", "unwire"}

\* Where a turn goes on after it has closed the session.
Then == {"idle", "open", "fail"}

StopPC == {"idle", "path", "direct", "transition", "detach", "unwire",
           "sweep", "sweepUnwire", "remove", "gone"}

NoTurn == [pc |-> "idle", then |-> "idle", keepAlive |-> TRUE, again |-> FALSE,
           result |-> "none", stopped |-> FALSE, late |-> {}]

Current == CHOOSE t \in Turns : fate[t] = "active"

\* Between Create and Start the first turn is in the hands of the create handler.
Init ==
    /\ task = [exists |-> TRUE, status |-> "pending", output |-> "none",
               worktree |-> FALSE, sids |-> {}]
    /\ session = "none" /\ oneShot = FALSE
    /\ wires = "none" /\ asked = FALSE
    /\ sent = "none" /\ said = "none"
    /\ Queue!Init
    /\ turn = NoTurn
    /\ resume = [t \in Turns |-> [pc |-> IF t = First THEN "checked" ELSE "idle",
                                  sid |-> FALSE]]
    /\ stop = [c \in Stoppers |-> "idle"]
    /\ reaper = "idle"
    /\ crashes = 0

-----------------------------------------------------------------------------
(* The state changes of the stored task *)

\* Mutant of Guarded: the guard on terminal statuses is missing.
Unguarded(target) == target

\* transition: a terminal status gives way to nothing but running.
Guarded(target) ==
    IF task.status \in Terminal /\ target # "running" THEN task.status ELSE target

\* transition for a task that may be gone; nothing happens to a missing one.
Transition(target) ==
    task' = IF task.exists THEN [task EXCEPT !.status = Guarded(target)] ELSE task

\* completeTask and failTask: whether or not the transition was blocked, its
\* snapshot is announced, fed back to the requirement and used for scheduling.
Conclude(outcome) == Transition(outcome)

\* forceFailTask: past the guard.
ForceFail ==
    task' = IF task.exists THEN [task EXCEPT !.status = "failed"] ELSE task

-----------------------------------------------------------------------------
(* The registered session *)

\* AgentManager.Close, up to its callback: the session leaves the table, its
\* prompt is interrupted, its adapter closed.
Detach ==
    /\ session' = "none"
    /\ oneShot' = FALSE
    /\ wires' = IF wires = "mine" THEN "past" ELSE wires
    /\ UNCHANGED <<asked, sent>>

\* onAgentSessionClosed: whatever wires the task has now are removed, and what
\* they were asked is denied, a request on its way to them as well.
Unwire ==
    /\ wires' = "none"
    /\ asked' = FALSE
    /\ sent' = IF sent = "sent" THEN "none" ELSE sent
    /\ UNCHANGED <<session, oneShot>>

-----------------------------------------------------------------------------
(* Handlers that submit turns *)

\* isResumable: a pending task is not, nor one that waits for an approval.
Resumable == task.status \in Terminal \cup {"running"}

\* ResumeRich, its checks on a snapshot of the task.
ResumeCheck(t) ==
    /\ t # First
    /\ resume[t].pc = "idle"
    /\ task.exists /\ Resumable /\ task.worktree
    /\ resume' = [resume EXCEPT ![t] = [pc |-> "checked", sid |-> task.sids # {}]]
    /\ UNCHANGED <<task, sessionVars, queueVars, turn, stop, reaper, crashes, said>>

\* ResumeRich goes on with its snapshot (Start has nothing to check): the turn
\* is queued unless there is neither a session nor an id to load one from.
ResumeSubmit(t) ==
    /\ resume[t].pc = "checked"
    /\ IF t = First \/ session # "none" \/ resume[t].sid
       THEN /\ Queue!Submit(t)
            /\ resume' = [resume EXCEPT ![t].pc = "submitted"]
       ELSE /\ resume' = [resume EXCEPT ![t].pc = "refused"]
            /\ UNCHANGED queueVars
    /\ UNCHANGED <<task, sessionVars, turn, stop, reaper, crashes, said>>

-----------------------------------------------------------------------------
(* The turn in progress *)

TurnOnly == UNCHANGED <<queueVars, resume, stop, reaper, crashes, said>>

\* Mutant of Finish: a job that returns leaves its turn marked as running.
FinishLeavingTurn ==
    /\ Queue!Finish(Current)
    /\ turn' = turn

\* The job of the queue returns.
Finish ==
    /\ Queue!Finish(Current)
    /\ turn' = NoTurn

\* The drainer takes the next job.
Begin ==
    /\ turn.pc = "idle"
    /\ Queue!Begin
    /\ turn' = [NoTurn EXCEPT !.pc = "lookup"]
    /\ UNCHANGED <<task, sessionVars, resume, stop, reaper, crashes, said>>

Goto(pc) == turn' = [turn EXCEPT !.pc = pc] /\ UNCHANGED queueVars

\* submitTurn: a turn whose task is gone is given up.
Lookup ==
    /\ turn.pc = "lookup"
    /\ IF task.exists THEN Goto("worktree") ELSE Finish
    /\ UNCHANGED <<task, sessionVars, resume, stop, reaper, crashes, said>>

\* ensureTaskWorktree: there is one already, or it is created and stored.
Worktree ==
    /\ turn.pc = "worktree"
    /\ task.worktree \/ task.exists
    /\ task' = [task EXCEPT !.worktree = TRUE]
    /\ Goto("adapter")
    /\ UNCHANGED <<sessionVars, resume, stop, reaper, crashes, said>>

\* ensureTaskWorktree fails: Create returns an error, or the task is gone.
WorktreeFails ==
    /\ turn.pc = "worktree"
    /\ ~task.worktree
    /\ Conclude("failed")
    /\ Finish
    /\ UNCHANGED <<sessionVars, resume, stop, reaper, crashes, said>>

\* runACP: use the live session; replace a dead one; open one if there is none.
UseAdapter ==
    /\ turn.pc = "adapter"
    /\ turn' = CASE session = "live" -> [turn EXCEPT !.pc = "prompt", !.keepAlive = TRUE]
                 [] session = "dead" -> [turn EXCEPT !.pc = "close", !.then = "open"]
                 [] session = "none" -> [turn EXCEPT !.pc = "open"]
    /\ TurnOnly
    /\ UNCHANGED <<task, sessionVars>>

\* resumeFrom: a resumed turn loads the agent's session, unless the agent has
\* just said that it lost it.
ResumesFrom == Current # First /\ "acp" \in task.sids /\ ~turn.again

\* ensureACPSession: Open succeeds, with the fallback or not.
OpenSession(fellBack) ==
    /\ turn.pc = "open"
    /\ fellBack => Fallback
    /\ session' = "live"
    /\ oneShot' = fellBack
    /\ turn' = [turn EXCEPT !.pc = "wire", !.keepAlive = ~fellBack]
    /\ TurnOnly
    /\ UNCHANGED <<task, wires, asked, sent>>

\* Open fails: the turn ends, a failed resumption past the terminal guard.
OpenFails ==
    /\ turn.pc = "open"
    /\ IF ResumesFrom THEN ForceFail ELSE Conclude("failed")
    /\ Finish
    /\ UNCHANGED <<sessionVars, resume, stop, reaper, crashes, said>>

\* ensureACPSession after Open: set the wires, persist the session id (which
\* refreshResumeID replaces by a better one).  If the session has been closed in
\* between, its wires are those of a past one, and it has no id any more.
WireSession ==
    /\ turn.pc = "wire"
    /\ wires' = IF session = "none" THEN "past" ELSE "mine"
    /\ asked' = FALSE
    /\ sent' = IF sent = "none" THEN "none" ELSE "stray"
    /\ task' = [task EXCEPT !.sids =
                    IF ~task.exists \/ session = "none" THEN @
                    ELSE @ \cup {IF turn.keepAlive THEN "acp" ELSE "claude"}]
    /\ Goto("check")
    /\ UNCHANGED <<session, oneShot, resume, stop, reaper, crashes, said>>

\* runACP: no adapter after ensureACPSession ends the turn without a word.
CheckAdapter ==
    /\ turn.pc = "check"
    /\ IF session = "none" THEN Finish ELSE Goto("prompt")
    /\ UNCHANGED <<task, sessionVars, resume, stop, reaper, crashes, said>>

\* runACPTurn: setRunning.
SetRunning ==
    /\ turn.pc = "prompt"
    /\ Transition("running")
    /\ Goto("send")
    /\ UNCHANGED <<sessionVars, resume, stop, reaper, crashes, said>>

\* RunRich: send the prompt; without a session, or to a dead one, it fails.
SendPrompt ==
    /\ turn.pc = "send"
    /\ turn' = IF session = "live" THEN [turn EXCEPT !.pc = "run"]
               ELSE [turn EXCEPT !.pc = "ended", !.result = "error"]
    /\ TurnOnly
    /\ UNCHANGED <<task, sessionVars>>

\* The agent ends its turn by itself.  Only the print fallback, asked to resume
\* a session it does not know, reports that the conversation is lost.
PromptReturns(result) ==
    /\ turn.pc = "run"
    /\ result = "lost" => oneShot /\ ResumesFrom
    /\ turn' = [turn EXCEPT !.pc = "ended", !.result = result]
    /\ TurnOnly
    /\ UNCHANGED <<task, sessionVars>>

\* A closed or dead session makes RunRich return.
PromptInterrupted ==
    /\ turn.pc = "run"
    /\ session # "live"
    /\ turn' = [turn EXCEPT !.pc = "ended", !.result = "error"]
    /\ TurnOnly
    /\ UNCHANGED <<task, sessionVars>>

\* runACPTurn after the prompt: a cancelled task is only tidied up.
Ended ==
    /\ turn.pc = "ended"
    /\ turn' = CASE task.exists /\ task.status = "cancelled" ->
                        [turn EXCEPT !.pc = "close", !.then = "idle"]
                 [] turn.result = "lost" ->
                        [turn EXCEPT !.pc = "close", !.then = "open", !.again = TRUE]
                 [] turn.result = "error" ->
                        [turn EXCEPT !.pc = IF session = "dead" THEN "close" ELSE "fail",
                                     !.then = "fail"]
                 [] OTHER -> [turn EXCEPT !.pc = "judge"]
    /\ TurnOnly
    /\ UNCHANGED <<task, sessionVars>>

\* failTask after a failed prompt ends the turn; the session stays as it is.
FailTurn ==
    /\ turn.pc = "fail"
    /\ Conclude("failed")
    /\ Finish
    /\ UNCHANGED <<sessionVars, resume, stop, reaper, crashes, said>>

\* Mutant of Verdict: a request still waiting for its answer is overlooked.
VerdictIgnoringAsked == IF task.output = "result" THEN "completed" ELSE "failed"

\* completeAfterTurn: a turn completes its task only with a result, no tool
\* call without one, and nobody waiting for an approval.
Verdict == IF task.output = "result" /\ ~asked THEN "completed" ELSE "failed"

\* The outcome is read from a snapshot of the task ...
Judge ==
    /\ turn.pc = "judge"
    /\ turn' = IF task.exists /\ task.status \notin {"completed", "failed"}
               THEN [turn EXCEPT !.pc = "commit", !.result = Verdict, !.late = {}]
               ELSE [turn EXCEPT !.pc = "tail"]
    /\ TurnOnly
    /\ UNCHANGED <<task, sessionVars>>

\* ... and committed later.
Commit ==
    /\ turn.pc = "commit"
    /\ Conclude(turn.result)
    /\ Goto("tail")
    /\ UNCHANGED <<sessionVars, resume, stop, reaper, crashes, said>>

\* The end of runACPTurn: a session that is not kept alive is closed.
TurnEnds ==
    /\ turn.pc = "tail"
    /\ IF turn.keepAlive THEN Finish
       ELSE /\ turn' = [turn EXCEPT !.pc = "close", !.then = "idle"]
            /\ UNCHANGED queueVars
    /\ UNCHANGED <<task, sessionVars, resume, stop, reaper, crashes, said>>

Continue == IF turn.then = "idle" THEN Finish ELSE Goto(turn.then)

\* Mutant of TurnCloses: it waits for a session that somebody else has taken.
TurnClosesAlone ==
    /\ turn.pc = "close"
    /\ session # "none"
    /\ Detach
    /\ Goto("unwire")
    /\ UNCHANGED <<task, resume, stop, reaper, crashes, said>>

\* Close called by the turn: without a registered session it does nothing.
TurnCloses ==
    /\ turn.pc = "close"
    /\ IF session = "none"
       THEN Continue /\ UNCHANGED sessionVars
       ELSE Detach /\ Goto("unwire")
    /\ UNCHANGED <<task, resume, stop, reaper, crashes, said>>

TurnUnwires ==
    /\ turn.pc = "unwire"
    /\ Unwire
    /\ Continue
    /\ UNCHANGED <<task, resume, stop, reaper, crashes, said>>

-----------------------------------------------------------------------------
(* The agent *)

Prompting == turn.pc = "run" /\ session = "live"

AgentOnly == UNCHANGED <<queueVars, resume, stop, reaper, crashes>>

\* Something of the agent reaches the task; history of the turn that is about to
\* commit its verdict.
Reaches(what) ==
    turn' = IF turn.pc = "commit" THEN [turn EXCEPT !.late = @ \cup {what}] ELSE turn

\* Text, tool calls and their results go into the buffers of the wires ...
AgentReports(output) ==
    /\ Prompting /\ wires = "mine"
    /\ said = "none"
    /\ task.output # output
    /\ said' = output
    /\ UNCHANGED <<task, sessionVars, turn>>
    /\ AgentOnly

\* ... and from there into the task: by a timer, or by the flush when the session
\* closes.  The flush before the verdict takes neither a text that a timer has taken
\* before it nor a tool call.
Write ==
    /\ said # "none"
    /\ said' = "none"
    /\ task' = IF task.exists THEN [task EXCEPT !.output = said] ELSE task
    /\ Reaches("report")
    /\ UNCHANGED sessionVars
    /\ AgentOnly

\* RequestPermission has a goroutine of its own, which may wait for the words of the
\* tool call before it registers the request.
AgentAsks ==
    /\ Prompting /\ wires = "mine"
    /\ sent = "none"
    /\ sent' = "sent"
    /\ UNCHANGED <<task, session, oneShot, wires, asked, said, turn>>
    /\ AgentOnly

\* onPermissionRequest and show: whether or not the prompt is still in flight, the
\* request is shown unless the task is in a terminal status, where it is denied.  A
\* further request waits behind the displayed one and does not touch the task.
\* Wires that others have replaced still show it, but nobody asks them any more.
Register ==
    /\ sent # "none" /\ ~asked
    /\ sent' = "none"
    /\ IF task.exists /\ task.status \notin Terminal
       THEN /\ task' = [task EXCEPT !.status = "waiting_input"]
            /\ asked' = (sent = "sent")
            /\ Reaches("request")
       ELSE UNCHANGED <<task, asked, turn>>
    /\ UNCHANGED <<session, oneShot, wires, said>>
    /\ AgentOnly

\* The user answers, or the request times out: backToRunning.
Answered ==
    /\ asked
    /\ asked' = FALSE
    /\ task' = IF task.status = "waiting_input"
               THEN [task EXCEPT !.status = "running"] ELSE task
    /\ UNCHANGED <<session, oneShot, wires, sent, said, turn>>
    /\ AgentOnly

\* The agent's process dies: its adapter is done, the session stays registered.
AgentDies ==
    /\ session = "live" /\ ~oneShot
    /\ session' = "dead"
    /\ UNCHANGED <<task, oneShot, wires, asked, sent, said, turn>>
    /\ AgentOnly

-----------------------------------------------------------------------------
(* Cancel and delete *)

StopOnly == UNCHANGED <<queueVars, turn, resume, reaper, crashes, said>>

\* What follows Cancel: for deleteTask, CloseAgentSession.
After(c) == IF c = "cancel" THEN "idle" ELSE "sweep"

StopAt(c, pc) == stop[c] = pc
StopGoto(c, pc) == stop' = [stop EXCEPT ![c] = pc]

\* Cancel begins by dropping the turns that wait.
StopFlushes(c) ==
    /\ StopAt(c, "idle")
    /\ task.exists
    /\ StopGoto(c, "path")
    /\ IF pending # <<>> THEN Queue!Flush ELSE UNCHANGED queueVars
    /\ UNCHANGED <<task, sessionVars, turn, resume, reaper, crashes, said>>

\* isACPPath: is there a session now?
StopChoosesPath(c) ==
    /\ StopAt(c, "path")
    /\ StopGoto(c, IF session = "none" THEN "direct" ELSE "transition")
    /\ StopOnly
    /\ UNCHANGED <<task, sessionVars>>

\* Mutant of StopTransitions: the session is left alone.
StopTransitionsOnly(c) ==
    /\ stop[c] \in {"transition", "direct"}
    /\ Transition("cancelled")
    /\ turn' = [turn EXCEPT !.stopped =
                    @ \/ (turn.pc # "idle" /\ task'.status = "cancelled")]
    /\ StopGoto(c, After(c))
    /\ UNCHANGED <<sessionVars, queueVars, resume, reaper, crashes, said>>

\* The task becomes cancelled; a task that is gone cannot be.
StopTransitions(c) ==
    /\ stop[c] \in {"transition", "direct"}
    /\ Transition("cancelled")
    /\ turn' = [turn EXCEPT !.stopped =
                    @ \/ (turn.pc # "idle" /\ task'.status = "cancelled")]
    /\ StopGoto(c, IF stop[c] = "transition" /\ task.exists THEN "detach" ELSE After(c))
    /\ UNCHANGED <<sessionVars, queueVars, resume, reaper, crashes, said>>

\* agentMgr.Cancel and Close, and CloseAgentSession: interrupt and detach.
StopDetaches(c) ==
    /\ stop[c] \in {"detach", "sweep"}
    /\ LET next == IF stop[c] = "detach" THEN After(c) ELSE "remove"
           wait == IF stop[c] = "detach" THEN "unwire" ELSE "sweepUnwire"
       IN IF session = "none"
          THEN StopGoto(c, next) /\ UNCHANGED sessionVars
          ELSE StopGoto(c, wait) /\ Detach
    /\ StopOnly
    /\ UNCHANGED <<task>>

StopUnwires(c) ==
    /\ stop[c] \in {"unwire", "sweepUnwire"}
    /\ Unwire
    /\ StopGoto(c, IF stop[c] = "unwire" THEN After(c) ELSE "remove")
    /\ StopOnly
    /\ UNCHANGED <<task>>

\* TaskStore.Delete.
Remove(c) ==
    /\ StopAt(c, "remove")
    /\ task' = [task EXCEPT !.exists = FALSE]
    /\ StopGoto(c, "gone")
    /\ StopOnly
    /\ UNCHANGED <<sessionVars>>

Stopper(c) ==
    \/ StopChoosesPath(c)
    \/ StopTransitions(c)
    \/ StopDetaches(c)
    \/ StopUnwires(c)
    \/ Remove(c)

-----------------------------------------------------------------------------
(* The reaper, and a crash of the server *)

ReaperOnly == UNCHANGED <<task, queueVars, turn, resume, stop, crashes, said>>

\* CloseIdle sees a session without a prompt, idle for long enough; a session
\* that never ran has been idle for ever.
ReaperPicks ==
    /\ Reaper
    /\ reaper = "idle"
    /\ session # "none" /\ turn.pc # "run"
    /\ reaper' = "detach"
    /\ UNCHANGED sessionVars
    /\ ReaperOnly

\* It closes the session of that task, whatever that is doing by now.
ReaperDetaches ==
    /\ reaper = "detach"
    /\ IF session = "none"
       THEN reaper' = "idle" /\ UNCHANGED sessionVars
       ELSE reaper' = "unwire" /\ Detach
    /\ ReaperOnly

ReaperUnwires ==
    /\ reaper = "unwire"
    /\ Unwire
    /\ reaper' = "idle"
    /\ ReaperOnly

ReaperCloses == ReaperDetaches \/ ReaperUnwires

\* Mutant of Loaded: a waiting task is kept as it is.
LoadedKeepingWaiting(status) == IF status = "running" THEN "failed" ELSE status

\* TaskStore.load after an unplanned restart: nobody owns a live status any more.
Loaded(status) == IF status \in {"running", "waiting_input"} THEN "failed" ELSE status

\* The process dies and is started again: memory is lost, the store is loaded.
Crash ==
    /\ crashes < MaxCrashes
    /\ crashes' = crashes + 1
    /\ task' = [task EXCEPT !.status = Loaded(@)]
    /\ session' = "none" /\ oneShot' = FALSE
    /\ wires' = "none" /\ asked' = FALSE
    /\ sent' = "none" /\ said' = "none"
    /\ pending' = <<>>
    /\ fate' = [t \in Turns |-> IF fate[t] \in {"queued", "active"} THEN "dropped"
                                ELSE fate[t]]
    /\ turn' = NoTurn
    /\ resume' = [t \in Turns |-> IF resume[t].pc = "checked"
                                  THEN [resume[t] EXCEPT !.pc = "refused"]
                                  ELSE resume[t]]
    /\ stop' = [c \in Stoppers |-> IF stop[c] = "gone" THEN "gone" ELSE "idle"]
    /\ reaper' = "idle"

-----------------------------------------------------------------------------

\* What the drainer does by itself, the agent's answer to a prompt apart.
TurnStep ==
    \/ Begin \/ Lookup \/ Worktree \/ WorktreeFails \/ UseAdapter
    \/ \E fellBack \in BOOLEAN : OpenSession(fellBack)
    \/ OpenFails \/ WireSession \/ CheckAdapter \/ SetRunning \/ SendPrompt
    \/ PromptInterrupted \/ Ended \/ FailTurn \/ Judge \/ Commit \/ TurnEnds
    \/ TurnCloses \/ TurnUnwires

Next ==
    \/ \E t \in Turns : ResumeCheck(t) \/ ResumeSubmit(t)
    \/ TurnStep
    \/ \E result \in {"ok", "error", "lost"} : PromptReturns(result)
    \/ \E output \in Outputs \ {"none"} : AgentReports(output)
    \/ Write
    \/ AgentAsks
    \/ Register
    \/ Answered
    \/ AgentDies
    \/ \E c \in Stoppers : StopFlushes(c) \/ Stopper(c)
    \/ ReaperPicks
    \/ ReaperCloses
    \/ Crash

Spec == Init /\ [][Next]_vars

\* Goroutines that can go on do; users, agents and crashes owe nothing, and nothing
\* here depends on what is under way from the agent.  Open returns: its callers wait
\* for it without a bound of their own.
FairSpec ==
    /\ Spec
    /\ WF_vars(TurnStep)
    /\ \A c \in Stoppers : WF_vars(Stopper(c))
    /\ WF_vars(ReaperCloses)

-----------------------------------------------------------------------------

TypeOK ==
    /\ task \in [exists : BOOLEAN, status : Status, output : Outputs,
                 worktree : BOOLEAN, sids : SUBSET {"acp", "claude"}]
    /\ session \in {"none", "live", "dead"}
    /\ oneShot \in BOOLEAN
    /\ wires \in {"none", "mine", "past"}
    /\ asked \in BOOLEAN
    /\ sent \in {"none", "sent", "stray"}
    /\ said \in Outputs
    /\ Queue!TypeOK
    /\ turn \in [pc : TurnPC, then : Then, keepAlive : BOOLEAN, again : BOOLEAN,
                 result : {"none", "ok", "error", "lost", "completed", "failed"},
                 stopped : BOOLEAN, late : SUBSET {"report", "request"}]
    /\ turn.pc = "idle" <=> Queue!Active = {}
    /\ resume \in [Turns -> [pc : {"idle", "checked", "submitted", "refused"},
                             sid : BOOLEAN]]
    /\ stop \in [Stoppers -> StopPC]
    /\ reaper \in {"idle", "detach", "unwire"}
    /\ crashes \in 0 .. MaxCrashes

\* A task shown as running, or as waiting for an approval, has a turn that still
\* has to settle it: whoever cancels, deletes, reaps, dies or restarts, it never
\* stays there with nobody behind it (task_store.go:398, "must have a live owner").
\* With the print fallback this fails: a turn that lost its conversation, and whose
\* new session is closed under it, ends without a word (CheckAdapter).
LiveStatusIsOwned ==
    task.exists /\ task.status \in {"running", "waiting_input"} =>
        turn.pc \notin {"idle", "lookup", "worktree", "adapter", "tail"}

\* The outcome of a task is not overwritten by the turn, the cancel or the late
\* answer that lost the race: only a turn that starts, or a resumption that
\* finds no agent, changes it.
OutcomeIsFinal ==
    [][ task.status \in Terminal /\ task'.status # task.status =>
          \/ task'.status = "running" /\ turn.pc = "prompt"
          \/ task'.status = "failed" /\ turn.pc = "open" /\ ResumesFrom ]_vars

\* A task completes only with a result to show and over nobody who waits for an
\* approval, also one who was asked in an earlier turn, under wires that are being
\* closed, or after the prompt has returned (soft_complete.go:68).  What reaches the
\* task between the verdict and its commit is not looked at any more: that alone is
\* excepted, see NobodyIsPassedOver.
CompletedIsEarned ==
    [][ task.status # "completed" /\ task'.status = "completed" =>
          /\ task.output = "result" \/ "report" \in turn.late
          /\ asked => "request" \in turn.late ]_vars

\* Cancel frees the line: the prompt that is running when Cancel is about to
\* commit returns, even if the agent never ends it.
CancelEndsThePrompt ==
    \A c \in Stoppers : (stop[c] = "transition" /\ turn.pc = "run") ~> (turn.pc # "run")

\* As long as no prompt hangs, every turn accepted by a handler is run or dropped.
NoPromptHangs == []<>(turn.pc # "run")
AcceptedTurnsSettle ==
    NoPromptHangs =>
        \A t \in Turns : (fate[t] = "queued") ~> (fate[t] \in {"done", "dropped"})

-----------------------------------------------------------------------------
(* What the comments promise and the code does not do *)

\* transition, "returns nil when nothing changed": what is announced, fed back
\* and scheduled is what happened to the task.
AnnouncedIsTrue ==
    [][ turn.pc \in {"commit", "fail"} /\ turn'.pc # turn.pc /\ crashes' = crashes
          => ~task.exists \/ task'.status = IF turn.pc = "fail" THEN "failed"
                                            ELSE turn.result ]_vars

\* Cancel, "cancel means stop": a turn in progress when its task became
\* cancelled sends no prompt any more.
CancelledTurnsAreSilent ==
    [][ turn.pc = "send" /\ turn'.pc = "run" => ~turn.stopped ]_vars

\* softCompleteInterruptReason, "must not be completed": a request that still waits
\* when the task completes.
NobodyIsPassedOver ==
    [][ task.status # "completed" /\ task'.status = "completed" => ~asked ]_vars

\* deleteTask, "so that no session is left as an orphan".
NoOrphanSession == ~task.exists /\ turn.pc = "idle" => session = "none"

\* ensureACPSession, "not unwired at the end of a turn, but by the session's close".
WiresFollowSession == Prompting => wires = "mine"

=============================================================================
