---------------------------- MODULE AgentManager ----------------------------
(***************************************************************************)
(* The table of agent sessions and the slots of one project                *)
(* (internal/agent/manager.go): Open takes a slot, creates an adapter and  *)
(* registers a session, RunRich prompts it, Close, called by users and by  *)
(* the reaper of idle sessions, takes it from the table, interrupts it,    *)
(* closes its adapter and gives the slot back.                             *)
(*                                                                         *)
(* m.mu covers the table only, runMu the running flag of one session.  A   *)
(* step is what one goroutine does under one of them, or one call of an    *)
(* adapter, which may be slow.  The turn queue (TurnQueue) makes the turns *)
(* of a task come one by one, but nothing here relies on it: calls of the  *)
(* same task may be concurrent.                                            *)
(*                                                                         *)
(* A call opens a session for its task, prompts the registered session and *)
(* returns, so a session bears the name of the call that opened it.  Only  *)
(* one project is modelled: projects share nothing but the table.          *)
(* Abstracted: which adapter it is (the primary or the fallback), models,  *)
(* images; time, in that an idle session may be idle for long enough.      *)
(***************************************************************************)
EXTENDS Naturals, FiniteSets

CONSTANTS
    Calls,          \* the calls of Open that are ever made
    Tasks,          \* the tasks they are made for
    TaskOf,         \* the task of each call
    Slots,          \* MaxConcurrent: the slots of the project
    NoSession,      \* no session
    NoTask          \* no task

ASSUME CallsAssumption == IsFiniteSet(Calls) /\ TaskOf \in [Calls -> Tasks]
ASSUME SlotsAssumption == Slots \in Nat \ {0}
ASSUME NoSessionAssumption == NoSession \notin Calls
ASSUME NoTaskAssumption == NoTask \notin Tasks

VARIABLES
    table,          \* the registered session of each task
    held,           \* how many values the channel of the semaphore holds
    adapter,        \* the adapter of each session: none, open, closed
    running,        \* the sessions with a prompt (managedSession.running)
    interrupted,    \* the sessions whose prompt was cancelled
    pc,             \* where each call is
    sess,           \* the session a call has looked up
    closing,        \* where the Close of each session is
    reaper          \* the task whose session the reaper has found idle

vars == <<table, held, adapter, running, interrupted, pc, sess, closing, reaper>>

Init ==
    /\ table = [t \in Tasks |-> NoSession]
    /\ held = 0
    /\ adapter = [c \in Calls |-> "none"]
    /\ running = {}
    /\ interrupted = {}
    /\ pc = [c \in Calls |-> "idle"]
    /\ sess = [c \in Calls |-> NoSession]
    /\ closing = [c \in Calls |-> "no"]
    /\ reaper = NoTask

Goto(c, label) == pc' = [pc EXCEPT ![c] = label]

-----------------------------------------------------------------------------
(* Open *)

\* There is no session yet, or the call finds the task busy.
Check(c) ==
    /\ pc[c] = "idle"
    /\ Goto(c, IF table[TaskOf[c]] = NoSession THEN "acquire" ELSE "lookup")
    /\ UNCHANGED <<table, held, adapter, running, interrupted, sess, closing, reaper>>

\* Mutant of Acquire: the bound is not looked at.
AcquireUnbounded(c) ==
    /\ pc[c] = "acquire"
    /\ held' = held + 1
    /\ Goto(c, "create")
    /\ UNCHANGED <<table, adapter, running, interrupted, sess, closing, reaper>>

\* semaphore.acquire blocks on a full channel, whatever becomes of the task.
Acquire(c) ==
    /\ pc[c] = "acquire"
    /\ held < Slots
    /\ held' = held + 1
    /\ Goto(c, "create")
    /\ UNCHANGED <<table, adapter, running, interrupted, sess, closing, reaper>>

\* createAdapterWithFallback succeeds.
Create(c) ==
    /\ pc[c] = "create"
    /\ adapter' = [adapter EXCEPT ![c] = "open"]
    /\ Goto(c, "register")
    /\ UNCHANGED <<table, held, running, interrupted, sess, closing, reaper>>

\* Mutant of CreateFails: the slot is kept.
CreateFailsKeepingSlot(c) ==
    /\ pc[c] = "create"
    /\ Goto(c, "done")
    /\ UNCHANGED <<table, held, adapter, running, interrupted, sess, closing, reaper>>

\* It fails, fallback included: give the slot back.
CreateFails(c) ==
    /\ pc[c] = "create"
    /\ held' = held - 1
    /\ Goto(c, "done")
    /\ UNCHANGED <<table, adapter, running, interrupted, sess, closing, reaper>>

\* Mutant of Register: the table is not looked at a second time.
RegisterBlindly(c) ==
    /\ pc[c] = "register"
    /\ table' = [table EXCEPT ![TaskOf[c]] = c]
    /\ Goto(c, "lookup")
    /\ UNCHANGED <<held, adapter, running, interrupted, sess, closing, reaper>>

\* Register the session, unless somebody else has registered one meanwhile.
Register(c) ==
    /\ pc[c] = "register"
    /\ IF table[TaskOf[c]] = NoSession
       THEN /\ table' = [table EXCEPT ![TaskOf[c]] = c]
            /\ Goto(c, "lookup")
       ELSE /\ Goto(c, "withdraw")
            /\ UNCHANGED table
    /\ UNCHANGED <<held, adapter, running, interrupted, sess, closing, reaper>>

\* The loser closes its adapter and gives its slot back.
Withdraw(c) ==
    /\ pc[c] = "withdraw"
    /\ adapter' = [adapter EXCEPT ![c] = "closed"]
    /\ held' = held - 1
    /\ Goto(c, "lookup")
    /\ UNCHANGED <<table, running, interrupted, sess, closing, reaper>>

-----------------------------------------------------------------------------
(* RunRich *)

\* Find the session of the task.
LookUp(c) ==
    /\ pc[c] = "lookup"
    /\ sess' = [sess EXCEPT ![c] = table[TaskOf[c]]]
    /\ Goto(c, IF table[TaskOf[c]] = NoSession THEN "done" ELSE "start")
    /\ UNCHANGED <<table, held, adapter, running, interrupted, closing, reaper>>

\* Mutant of Start: a prompt may be running already.
StartBlindly(c) ==
    /\ pc[c] = "start"
    /\ running' = running \cup {sess[c]}
    /\ Goto(c, "run")
    /\ UNCHANGED <<table, held, adapter, interrupted, sess, closing, reaper>>

\* Take the session for a prompt.
Start(c) ==
    /\ pc[c] = "start"
    /\ sess[c] \notin running
    /\ running' = running \cup {sess[c]}
    /\ interrupted' = interrupted \ {sess[c]}
    /\ Goto(c, "run")
    /\ UNCHANGED <<table, held, adapter, sess, closing, reaper>>

\* A second prompt is refused; its caller tries again, and gives up at last.
Refuse(c, next) ==
    /\ pc[c] = "start"
    /\ sess[c] \in running
    /\ Goto(c, next)
    /\ UNCHANGED <<table, held, adapter, running, interrupted, sess, closing, reaper>>

Return(c) ==
    /\ running' = running \ {sess[c]}
    /\ Goto(c, "done")
    /\ UNCHANGED <<table, held, adapter, interrupted, sess, closing, reaper>>

\* The agent ends its turn.
PromptReturns(c) == pc[c] = "run" /\ Return(c)

\* The prompt fails: it was interrupted, or the adapter is closed.
PromptFails(c) ==
    /\ pc[c] = "run"
    /\ sess[c] \in interrupted \/ adapter[sess[c]] = "closed"
    /\ Return(c)

-----------------------------------------------------------------------------
(* Close *)

\* Close takes the session from the table: only one of several does.
Detach(t) ==
    /\ table' = [table EXCEPT ![t] = NoSession]
    /\ closing' = [closing EXCEPT ![table[t]] = "interrupt"]

\* A user, or a turn, closes the session of a task: Cancel, deleteTask,
\* CloseAll on a shutdown.
Close(t) ==
    /\ table[t] # NoSession
    /\ Detach(t)
    /\ UNCHANGED <<held, adapter, running, interrupted, pc, sess, reaper>>

\* runCancel, if there is a prompt now.
Interrupt(s) ==
    /\ closing[s] = "interrupt"
    /\ interrupted' = interrupted \cup ({s} \cap running)
    /\ closing' = [closing EXCEPT ![s] = "close"]
    /\ UNCHANGED <<table, held, adapter, running, pc, sess, reaper>>

CloseAdapter(s) ==
    /\ closing[s] = "close"
    /\ adapter' = [adapter EXCEPT ![s] = "closed"]
    /\ closing' = [closing EXCEPT ![s] = "release"]
    /\ UNCHANGED <<table, held, running, interrupted, pc, sess, reaper>>

\* Mutant of Release: the slot goes with the session.
ReleaseNothing(s) ==
    /\ closing[s] = "release"
    /\ closing' = [closing EXCEPT ![s] = "done"]
    /\ UNCHANGED <<table, held, adapter, running, interrupted, pc, sess, reaper>>

\* semaphore.release (it gives up on an empty channel), and the callback.
Release(s) ==
    /\ closing[s] = "release"
    /\ held' = IF held > 0 THEN held - 1 ELSE held
    /\ closing' = [closing EXCEPT ![s] = "done"]
    /\ UNCHANGED <<table, adapter, running, interrupted, pc, sess, reaper>>

-----------------------------------------------------------------------------
(* CloseIdle *)

\* The reaper finds a session without a prompt ...
ReaperPicks(t) ==
    /\ reaper = NoTask
    /\ table[t] # NoSession /\ table[t] \notin running
    /\ reaper' = t
    /\ UNCHANGED <<table, held, adapter, running, interrupted, pc, sess, closing>>

\* ... and closes the session that its task has by now.
ReaperCloses ==
    /\ reaper # NoTask
    /\ IF table[reaper] = NoSession THEN UNCHANGED <<table, closing>> ELSE Detach(reaper)
    /\ reaper' = NoTask
    /\ UNCHANGED <<held, adapter, running, interrupted, pc, sess>>

-----------------------------------------------------------------------------

\* What a call does by itself; it waits for a slot, and for its prompt.
CallStep(c) ==
    \/ Check(c) \/ Acquire(c) \/ Create(c) \/ CreateFails(c) \/ Register(c)
    \/ Withdraw(c) \/ LookUp(c) \/ Start(c) \/ PromptFails(c)
    \/ \E next \in {"lookup", "done"} : Refuse(c, next)

CloseStep(s) == Interrupt(s) \/ CloseAdapter(s) \/ Release(s)

Next ==
    \/ \E c \in Calls : CallStep(c) \/ PromptReturns(c) \/ CloseStep(c)
    \/ \E t \in Tasks : Close(t) \/ ReaperPicks(t)
    \/ ReaperCloses

Spec == Init /\ [][Next]_vars

\* Goroutines go on, and a session that stays idle is found by one of the
\* ticks of the reaper.  Nobody has to close a session, and no agent has to end
\* its turn.
FairSpec ==
    /\ Spec
    /\ \A c \in Calls : WF_vars(CallStep(c)) /\ WF_vars(CloseStep(c))
    /\ \A t \in Tasks : WF_vars(ReaperPicks(t))
    /\ WF_vars(ReaperCloses)

-----------------------------------------------------------------------------

TypeOK ==
    /\ table \in [Tasks -> Calls \cup {NoSession}]
    /\ held \in 0 .. Slots
    /\ adapter \in [Calls -> {"none", "open", "closed"}]
    /\ running \subseteq Calls
    /\ interrupted \subseteq Calls
    /\ pc \in [Calls -> {"idle", "acquire", "create", "register", "withdraw", "lookup",
                         "start", "run", "done"}]
    /\ sess \in [Calls -> Calls \cup {NoSession}]
    /\ closing \in [Calls -> {"no", "interrupt", "close", "release", "done"}]
    /\ reaper \in Tasks \cup {NoTask}
    /\ \A t \in Tasks : table[t] # NoSession => TaskOf[table[t]] = t

Registered(s) == table[TaskOf[s]] = s

\* The calls and sessions that owe a slot.
Owners == {s \in Calls : \/ pc[s] \in {"create", "register", "withdraw"}
                         \/ Registered(s)
                         \/ closing[s] \in {"interrupt", "close", "release"}}

\* A slot is owed by exactly one call or session: none leaks with a failed Open,
\* a lost race or a Close, and none is given back twice, which would let the
\* project run more agents than it may.
SlotsAreOwed == held = Cardinality(Owners)

\* An adapter is open only while its call registers it, while its session is
\* registered, or while that is being closed: no agent process is forgotten,
\* also when two calls open a session for the same task.
NoAdapterIsForgotten ==
    \A s \in Calls : adapter[s] = "open" =>
        \/ pc[s] \in {"register", "withdraw"}
        \/ Registered(s)
        \/ closing[s] \in {"interrupt", "close"}

\* A session has one prompt at a time, whoever runs it, and its running flag is
\* not reset by another call.
OnePromptPerSession ==
    /\ \A c, d \in Calls : pc[c] = "run" /\ pc[d] = "run" /\ sess[c] = sess[d] => c = d
    /\ \A c \in Calls : pc[c] = "run" => sess[c] \in running

\* As long as no prompt hangs, a call that waits for a slot gets one, although
\* sessions keep theirs when their turn is over: the reaper frees it.
NoPromptHangs == \A c \in Calls : []<>(pc[c] # "run")
SlotsComeFree ==
    NoPromptHangs => \A c \in Calls : (pc[c] = "acquire") ~> (pc[c] # "acquire")

\* CloseIdle, "sessions that are running are skipped".
ReaperSparesPrompts ==
    [][ \A t \in Tasks : ReaperCloses /\ reaper = t => table[t] \notin running ]_vars

=============================================================================
