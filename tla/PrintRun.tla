------------------------------- MODULE PrintRun -------------------------------
(* A task on the default path: each turn is one "claude -p" process (run and   *)
(* runClaude in core/task_runner.go), whose tool calls come back through the   *)
(* pre-tool-use subcommand and wait for the user (core/hook.go). The turns of  *)
(* the task come one after another out of its queue (TurnQueue). Four parties  *)
(* move: the goroutine of the turn, the goroutines of RegisterPending, an      *)
(* answer of the user, and a cancellation.                                     *)
EXTENDS Integers

CONSTANTS
    MaxTurns,   \* bound: turns submitted
    MaxCalls,   \* bound: tool calls that need a decision
    NoCall      \* a value that is no call

PrintAssumption == MaxTurns \in Nat \ {0} /\ MaxCalls \in Nat /\ NoCall \notin 1..MaxCalls

Calls == 1..MaxCalls
Ended == {"completed", "failed", "cancelled"}

VARIABLES
    status,     \* of the task
    card,       \* does it show an approval
    submitted,  \* turns submitted so far
    first,      \* is the first turn of the task still to come
    ahead,      \* turns in the queue
    turn,       \* where the goroutine of the turn is
    resumed,    \* does the process resume a conversation
    stopped,    \* has the context of the turn been cancelled
    proc,       \* the claude process
    live,       \* is it in TaskRunner.running
    said,       \* events of the task so far
    used,       \* calls made so far
    asked,      \* calls the process waits for
    handler,    \* the goroutine of RegisterPending for each call
    choice,     \* choiceCh of each call
    entry,      \* pending[task] of the hook service
    answering,  \* has an answer been delivered whose status is still to be set
    cancelling  \* the same for a cancellation that has killed the process

runVars == <<status, card, submitted, first, ahead, turn, resumed, stopped, proc, live, said, used,
             asked, handler, choice, entry, answering, cancelling>>
taskVars == <<status, card>>
turnVars == <<first, turn, resumed, stopped, live>>
hookVars == <<handler, choice, entry>>
userVars == <<answering, cancelling>>

TypeOK ==
    /\ status \in {"pending", "running", "waiting"} \cup Ended /\ card \in BOOLEAN
    /\ submitted \in 0..MaxTurns /\ first \in BOOLEAN /\ ahead \in 0..MaxTurns
    /\ turn \in {"idle", "slot", "spawn", "spawned", "read", "settle"}
    /\ resumed \in BOOLEAN /\ stopped \in BOOLEAN /\ live \in BOOLEAN
    /\ proc \in {"none", "alive", "done", "failed", "lost"}
    /\ said \in {"nothing", "settled", "hung"}
    /\ used \in 0..MaxCalls /\ asked \in SUBSET Calls
    /\ handler \in [Calls -> {"none", "placed", "waiting", "expired", "done"}]
    /\ choice \in [Calls -> {"none", "approve", "deny"}] /\ entry \in Calls \cup {NoCall}
    /\ answering \in BOOLEAN /\ cancelling \in BOOLEAN

\* A task that has just been created, or one that has had its first turn.
Init ==
    /\ \/ status = "pending" /\ said = "nothing" /\ first = TRUE
       \/ status = "completed" /\ said = "settled" /\ first = FALSE
    /\ card = FALSE /\ submitted = 0 /\ ahead = 0
    /\ turn = "idle" /\ resumed = FALSE /\ stopped = FALSE /\ live = FALSE /\ proc = "none"
    /\ used = 0 /\ asked = {}
    /\ handler = [c \in Calls |-> "none"] /\ choice = [c \in Calls |-> "none"] /\ entry = NoCall
    /\ answering = FALSE /\ cancelling = FALSE

------------------------------------------------------------------------------
(* transition: a task that has ended only leaves that state to run again.      *)

SetStatus(s, shown) ==
    IF status \in Ended /\ s # "running" THEN UNCHANGED taskVars
    ELSE status' = s /\ card' = shown

SetRunning == SetStatus("running", FALSE)
FailTask == SetStatus("failed", FALSE)

\* completeAfterTurn: a tool call without a result makes the turn a failure.
CompleteAfterTurn == IF said = "hung" THEN FailTask ELSE SetStatus("completed", FALSE)

------------------------------------------------------------------------------
(* The goroutine of a turn.                                                    *)

\* Start, or ResumeRich once the task is not pending.
Submit ==
    /\ submitted < MaxTurns
    /\ \/ status = "pending" /\ submitted = 0
       \/ status \in Ended \cup {"running"}
       \/ status = "waiting" /\ ~card
    /\ submitted' = submitted + 1 /\ ahead' = ahead + 1
    /\ UNCHANGED <<taskVars, turnVars, proc, said, used, asked, hookVars, userVars>>

\* The queue begins the next turn, which waits for a slot of its project.
Begin ==
    /\ turn = "idle" /\ ahead > 0 /\ ahead' = ahead - 1
    /\ turn' = "slot" /\ stopped' = FALSE /\ resumed' = ~first /\ first' = FALSE
    /\ UNCHANGED <<taskVars, submitted, live, proc, said, used, asked, hookVars, userVars>>

\* It has the slot: the worktree, the first copy and the settings of the hook.
Prepare ==
    /\ turn = "slot"
    /\ \/ turn' = "spawn" /\ UNCHANGED taskVars
       \/ turn' = "idle" /\ FailTask
    /\ UNCHANGED <<submitted, first, ahead, resumed, stopped, live, proc, said, used, asked,
                   hookVars, userVars>>

\* The context of the turn begins with the spawn.
Spawn ==
    /\ turn = "spawn"
    /\ \/ /\ ~stopped /\ turn' = "spawned" /\ proc' = "alive" /\ live' = TRUE
          /\ UNCHANGED taskVars
       \/ /\ turn' = "idle" /\ FailTask /\ UNCHANGED <<proc, live>>
    /\ UNCHANGED <<submitted, first, ahead, resumed, stopped, said, used, asked, hookVars,
                   userVars>>

Spawned ==
    /\ turn = "spawned" /\ turn' = "read" /\ SetRunning
    /\ UNCHANGED <<submitted, first, ahead, resumed, stopped, live, proc, said, used, asked,
                   hookVars, userVars>>

\* Lines of the stream: text and results, a tool call, and the result of the turn.
ReadLine ==
    /\ turn = "read" /\ proc = "alive"
    /\ \/ said' \in {"settled", "hung"} /\ said' # said /\ UNCHANGED taskVars
       \/ said' = said /\ (FailTask \/ CompleteAfterTurn)
    /\ UNCHANGED <<submitted, ahead, turnVars, proc, used, asked, hookVars, userVars>>

\* Without the entry of the process in TaskRunner.running.
EndOfStream ==
    /\ turn = "read" /\ proc # "alive" /\ turn' = "settle" /\ live' = FALSE
    /\ UNCHANGED <<taskVars, submitted, first, ahead, resumed, stopped, proc, said, used, asked,
                   hookVars,
                   userVars>>

\* A lost conversation is tried once more with a new one.
Settle ==
    /\ turn = "settle"
    /\ \/ /\ proc = "lost" /\ resumed /\ turn' = "spawn" /\ resumed' = FALSE
          /\ UNCHANGED taskVars
       \/ /\ proc = "failed" \/ (proc = "lost" /\ ~resumed)
          /\ turn' = "idle" /\ FailTask /\ UNCHANGED resumed
       \/ /\ proc = "done" /\ turn' = "idle" /\ UNCHANGED resumed
          /\ CASE status \in {"completed", "failed"} -> UNCHANGED taskVars
               [] status \notin {"completed", "failed"} /\ said = "nothing" -> FailTask
               [] OTHER -> CompleteAfterTurn
    /\ proc' = "none"
    /\ UNCHANGED <<submitted, first, ahead, stopped, live, said, used, asked, hookVars, userVars>>

------------------------------------------------------------------------------
(* The process. Its calls go with it, the goroutines that wait for them stay.  *)

Exit ==
    /\ proc = "alive"
    /\ \/ proc' = "done" /\ asked = {}
       \/ proc' = "failed"
       \/ proc' = "lost" /\ resumed
    /\ asked' = {}
    /\ UNCHANGED <<taskVars, submitted, ahead, turnVars, said, used, hookVars, userVars>>

\* runPreToolUse and hookCallback: one decision of a task at a time.
Ask ==
    /\ turn = "read" /\ proc = "alive" /\ used < MaxCalls /\ used' = used + 1
    /\ IF entry = NoCall
       THEN /\ entry' = used' /\ handler' = [handler EXCEPT ![used'] = "placed"]
            /\ asked' = asked \cup {used'}
       ELSE UNCHANGED <<asked, entry, handler>>
    /\ UNCHANGED <<taskVars, submitted, ahead, turnVars, proc, said, choice, userVars>>

------------------------------------------------------------------------------
(* RegisterPending.                                                            *)

ShowCard(c) ==
    /\ handler[c] = "placed" /\ handler' = [handler EXCEPT ![c] = "waiting"]
    /\ SetStatus("waiting", TRUE)
    /\ UNCHANGED <<submitted, ahead, turnVars, proc, said, used, asked, choice, entry, userVars>>

\* The answer reaches the process if it still runs. What it does with it is its
\* own matter.
Reply(c) == handler' = [handler EXCEPT ![c] = "done"] /\ asked' = asked \ {c}

Hear(c) ==
    /\ handler[c] = "waiting" /\ choice[c] # "none"
    /\ Reply(c) /\ choice' = [choice EXCEPT ![c] = "none"]
    /\ UNCHANGED <<taskVars, submitted, ahead, turnVars, proc, said, used, entry, userVars>>

\* The select takes the timer, and the entry is deleted after that, whichever it
\* is by then.
TimeUp(c) ==
    /\ handler[c] = "waiting" /\ handler' = [handler EXCEPT ![c] = "expired"]
    /\ UNCHANGED <<taskVars, submitted, ahead, turnVars, proc, said, used, asked, choice, entry,
                   userVars>>

\* As Expire, for a timeout that does not delete.
ExpireKeeping(c) ==
    /\ handler[c] = "expired" /\ Reply(c) /\ choice' = [choice EXCEPT ![c] = "none"]
    /\ UNCHANGED <<taskVars, submitted, ahead, turnVars, proc, said, used, entry, userVars>>

Expire(c) ==
    /\ handler[c] = "expired" /\ entry' = NoCall
    /\ Reply(c) /\ choice' = [choice EXCEPT ![c] = "none"]
    /\ UNCHANGED <<taskVars, submitted, ahead, turnVars, proc, said, used, userVars>>

------------------------------------------------------------------------------
(* The user.                                                                   *)

\* intervene and HookService.Resolve; the id of the decision is not compared.
Answer(x) ==
    /\ status \in {"running", "waiting"} /\ entry # NoCall /\ ~answering
    /\ choice' = [choice EXCEPT ![entry] = x] /\ entry' = NoCall /\ answering' = TRUE
    /\ UNCHANGED <<taskVars, submitted, ahead, turnVars, proc, said, used, asked, handler,
                   cancelling>>

\* The rest of Intervene, whatever has become of the task.
Answered ==
    /\ answering /\ answering' = FALSE /\ SetRunning
    /\ UNCHANGED <<submitted, ahead, turnVars, proc, said, used, asked, hookVars, cancelling>>

\* A message on the standard input of the process.
Message ==
    /\ status = "waiting" /\ live /\ proc = "alive" /\ SetRunning
    /\ UNCHANGED <<submitted, ahead, turnVars, proc, said, used, asked, hookVars, userVars>>

\* Cancel: a process is killed, and the status is set after that.
Cancel ==
    /\ ~cancelling /\ ahead' = 0 /\ first' = (first /\ submitted = 0)
    /\ IF live
       THEN /\ cancelling' = TRUE /\ stopped' = TRUE
            /\ proc' = (IF proc = "alive" THEN "failed" ELSE proc) /\ asked' = {}
            /\ UNCHANGED taskVars
       ELSE /\ SetStatus("cancelled", card) /\ UNCHANGED <<cancelling, stopped, proc, asked>>
    /\ UNCHANGED <<submitted, turn, resumed, live, said, used, hookVars, answering>>

Cancelled ==
    /\ cancelling /\ cancelling' = FALSE
    /\ status' = IF status \in {"running", "waiting"} THEN "cancelled" ELSE status
    /\ UNCHANGED <<card, submitted, ahead, turnVars, proc, said, used, asked, hookVars, answering>>

TurnStep == Begin \/ Prepare \/ Spawn \/ Spawned \/ EndOfStream \/ Settle
HandlerStep(c) == ShowCard(c) \/ Hear(c) \/ TimeUp(c) \/ Expire(c)

Next ==
    \/ Submit \/ TurnStep \/ ReadLine \/ Exit \/ Ask \/ Answered \/ Message \/ Cancel \/ Cancelled
    \/ \E c \in Calls : HandlerStep(c)
    \/ \E x \in {"approve", "deny"} : Answer(x)

\* Each hook's goroutine goes on, its timer included.
Fairness == \A c \in Calls : WF_runVars(HandlerStep(c))

Spec == Init /\ [][Next]_runVars /\ Fairness

------------------------------------------------------------------------------
\* A decision that is pending does not stay so: it is answered, or its time runs
\* out, also when the process it was for has been killed in the meantime. As long
\* as it stays, every call of the task is denied (RegisterPending and Resolve in
\* core/hook.go).
PendingClears == (entry # NoCall) ~> (entry = NoCall)

\* Whoever is asked is listened to: the decision that is pending belongs to a
\* handler that has not returned, and no answer has been given to it before
\* (RegisterPending, Resolve and the timeout in core/hook.go).
PendingHasAHandler ==
    entry # NoCall =>
        handler[entry] \in {"placed", "waiting", "expired"} /\ choice[entry] = "none"
===============================================================================
