----------------------------- MODULE TurnQueue -----------------------------
(***************************************************************************)
(* The turn queue of one task (internal/core/turn_queue.go), at the grain  *)
(* of its mutex: push, one iteration of drain and flush are each one       *)
(* critical section; the goroutine that push launches after it has         *)
(* unlocked, the look-up of the task at the start of a turn and the turn   *)
(* itself happen outside the mutex and are steps of their own.             *)
(*                                                                         *)
(* Queues of different tasks share nothing but the table they are found in *)
(* (turnQueueFor creates an entry under turnMu and never removes it), so   *)
(* one queue is modelled.                                                  *)
(***************************************************************************)
EXTENDS Naturals, Sequences, FiniteSets

CONSTANTS
    Turns,          \* the turns submitted to this task; each is pushed once
    NoTurn          \* not a turn: nothing in the hands of a drainer

ASSUME NoTurnAssumption == NoTurn \notin Turns

VARIABLES
    busy,           \* turnQueue.busy
    jobs,           \* turnQueue.jobs, the turn of each queued closure
    push,           \* push[t]: where the call of push for turn t is
    drain,          \* drain[t]: where the drain goroutine launched by push(t) is
    job,            \* job[d]: the turn drainer d took from the queue
    exists,         \* the task is still in the store
    fate,           \* what became of each turn
    ahead,          \* ahead[t]: the value push(t) returned
    front           \* front[t]: the turns that really were before t at push(t)

vars == <<busy, jobs, push, drain, job, exists, fate, ahead, front>>

-----------------------------------------------------------------------------

PushPC == {"idle", "launch", "returned"}
DrainPC == {"none", "fetch", "lookup", "run", "exited"}
Fates == {"new", "queued", "active", "done", "dropped"}

Init ==
    /\ busy = FALSE
    /\ jobs = <<>>
    /\ push = [t \in Turns |-> "idle"]
    /\ drain = [t \in Turns |-> "none"]
    /\ job = [t \in Turns |-> NoTurn]
    /\ exists = TRUE
    /\ fate = [t \in Turns |-> "new"]
    /\ ahead = [t \in Turns |-> 0]
    /\ front = [t \in Turns |-> {}]

\* The turns a job of the queue stands for.
Queued == {jobs[i] : i \in DOMAIN jobs}

\* The turns some drainer took and has not finished.
InHand == {t \in Turns : fate[t] = "active"}

\* Mutants of AheadOf: the turn in progress forgotten; counted after the append.
AheadWithoutRunning == Len(jobs)
AheadLessOne == IF busy THEN Len(jobs) ELSE Len(jobs) - 1

\* The number push returns: the turn in progress and those queued behind it.
AheadOf == IF busy THEN 1 + Len(jobs) ELSE 0

\* Mutant of Push: every push launches a drainer.
PushAlwaysLaunching(t) ==
    /\ push[t] = "idle"
    /\ ahead' = [ahead EXCEPT ![t] = AheadOf]
    /\ front' = [front EXCEPT ![t] = InHand \cup Queued]
    /\ jobs' = Append(jobs, t)
    /\ fate' = [fate EXCEPT ![t] = "queued"]
    /\ busy' = TRUE
    /\ push' = [push EXCEPT ![t] = "launch"]
    /\ UNCHANGED <<drain, job, exists>>

\* push: append, and become the one to launch the drainer of an idle queue.
Push(t) ==
    /\ push[t] = "idle"
    /\ ahead' = [ahead EXCEPT ![t] = AheadOf]
    /\ front' = [front EXCEPT ![t] = InHand \cup Queued]
    /\ jobs' = Append(jobs, t)
    /\ fate' = [fate EXCEPT ![t] = "queued"]
    /\ busy' = TRUE
    /\ push' = [push EXCEPT ![t] = IF busy THEN "returned" ELSE "launch"]
    /\ UNCHANGED <<drain, job, exists>>

\* The `go q.drain()` after the unlock.
Launch(t) ==
    /\ push[t] = "launch"
    /\ push' = [push EXCEPT ![t] = "returned"]
    /\ drain' = [drain EXCEPT ![t] = "fetch"]
    /\ UNCHANGED <<busy, jobs, job, exists, fate, ahead, front>>

\* One iteration of drain on an empty queue: reset busy and return.
DrainExit(d) ==
    /\ drain[d] = "fetch"
    /\ jobs = <<>>
    /\ busy' = FALSE
    /\ drain' = [drain EXCEPT ![d] = "exited"]
    /\ UNCHANGED <<jobs, push, job, exists, fate, ahead, front>>

\* Mutant of DrainTake: the last job is taken.
DrainTakeLast(d) ==
    /\ drain[d] = "fetch"
    /\ jobs # <<>>
    /\ jobs' = SubSeq(jobs, 1, Len(jobs) - 1)
    /\ job' = [job EXCEPT ![d] = jobs[Len(jobs)]]
    /\ fate' = [fate EXCEPT ![jobs[Len(jobs)]] = "active"]
    /\ drain' = [drain EXCEPT ![d] = "lookup"]
    /\ UNCHANGED <<busy, push, exists, ahead, front>>

\* One iteration of drain: take the first job.
DrainTake(d) ==
    /\ drain[d] = "fetch"
    /\ jobs # <<>>
    /\ jobs' = Tail(jobs)
    /\ job' = [job EXCEPT ![d] = Head(jobs)]
    /\ fate' = [fate EXCEPT ![Head(jobs)] = "active"]
    /\ drain' = [drain EXCEPT ![d] = "lookup"]
    /\ UNCHANGED <<busy, push, exists, ahead, front>>

\* submitTurn's closure finds the task and starts the turn.
StartTurn(d) ==
    /\ drain[d] = "lookup"
    /\ exists
    /\ drain' = [drain EXCEPT ![d] = "run"]
    /\ UNCHANGED <<busy, jobs, push, job, exists, fate, ahead, front>>

\* job() is over: the drainer goes back for the next one.
Release(d) ==
    /\ fate' = [fate EXCEPT ![job[d]] = "done"]
    /\ job' = [job EXCEPT ![d] = NoTurn]
    /\ drain' = [drain EXCEPT ![d] = "fetch"]
    /\ UNCHANGED <<busy, jobs, push, exists, ahead, front>>

\* Mutant of SkipTurn: the closure's return ends the drainer, busy stays set.
SkipEndsDrainer(d) ==
    /\ drain[d] = "lookup"
    /\ ~exists
    /\ fate' = [fate EXCEPT ![job[d]] = "done"]
    /\ job' = [job EXCEPT ![d] = NoTurn]
    /\ drain' = [drain EXCEPT ![d] = "exited"]
    /\ UNCHANGED <<busy, jobs, push, exists, ahead, front>>

\* submitTurn's closure finds that the task is gone and gives the turn up.
SkipTurn(d) == drain[d] = "lookup" /\ ~exists /\ Release(d)

\* The turn's run (print or ACP) returns.
EndTurn(d) == drain[d] = "run" /\ Release(d)

\* Mutant of Flush: it resets busy as drain does when it leaves.
FlushResettingBusy ==
    /\ jobs # <<>>
    /\ jobs' = <<>>
    /\ busy' = FALSE
    /\ fate' = [t \in Turns |-> IF t \in Queued THEN "dropped" ELSE fate[t]]
    /\ UNCHANGED <<push, drain, job, exists, ahead, front>>

\* flushTurns, called by Cancel: drop what has not been taken.
Flush ==
    /\ jobs # <<>>
    /\ jobs' = <<>>
    /\ fate' = [t \in Turns |-> IF t \in Queued THEN "dropped" ELSE fate[t]]
    /\ UNCHANGED <<busy, push, drain, job, exists, ahead, front>>

\* TaskStore.Delete.
DeleteTask ==
    /\ exists
    /\ exists' = FALSE
    /\ UNCHANGED <<busy, jobs, push, drain, job, fate, ahead, front>>

Drainer(d) ==
    \/ Launch(d)
    \/ DrainExit(d)
    \/ DrainTake(d)
    \/ StartTurn(d)
    \/ SkipTurn(d)

Next ==
    \/ \E t \in Turns : Push(t) \/ Drainer(t) \/ EndTurn(t)
    \/ Flush
    \/ DeleteTask

Spec == Init /\ [][Next]_vars

\* The Go scheduler runs every goroutine that is ready.  Nothing makes a turn
\* end: it lasts as long as its agent does, so EndTurn has no fairness.
FairSpec == Spec /\ \A d \in Turns : WF_vars(Drainer(d))

-----------------------------------------------------------------------------

TypeOK ==
    /\ busy \in BOOLEAN
    /\ jobs \in Seq(Turns)
    /\ push \in [Turns -> PushPC]
    /\ drain \in [Turns -> DrainPC]
    /\ job \in [Turns -> Turns \cup {NoTurn}]
    /\ exists \in BOOLEAN
    /\ fate \in [Turns -> Fates]
    /\ ahead \in [Turns -> Nat]
    /\ front \in [Turns -> SUBSET Turns]

\* A goroutine that will look at the queue again: launched, or about to be.
Serving(d) == push[d] = "launch" \/ drain[d] \in {"fetch", "lookup", "run"}

\* busy is exact: it is set as long as, and only as long as, one goroutine is
\* committed to drain the queue, and a queue with jobs is busy.  Were busy reset
\* late, nobody would serve the next turn; were it reset early, a second drainer
\* would run turns side by side, or a queued turn would be stranded.
BusyIsExact ==
    /\ busy <=> \E d \in Turns : Serving(d)
    /\ \A d, e \in Turns : Serving(d) /\ Serving(e) => d = e
    /\ jobs # <<>> => busy

\* Two turns of one task never run at the same time, whoever drains them: the
\* agent session of a task accepts one prompt at a time.
OneTurnAtATime ==
    \A d, e \in Turns : drain[d] = "run" /\ drain[e] = "run" => d = e

\* The receipt push returns may count one turn that is not there (busy covers
\* the moments before the first and after the last turn of a drainer), but it
\* never hides one, and a turn told 0 has nothing before it.
ReceiptNeverShort ==
    \A t \in Turns : push[t] # "idle" =>
        ahead[t] \in {Cardinality(front[t]), Cardinality(front[t]) + 1}

\* push and submitTurn (turn_queue.go:30, :40 and :121) promise the number of
\* turns in front, the one running and those queued, and 0 to a turn that starts
\* at once.  busy counts as a running turn also when the turn it announces is
\* still in jobs, or is over.
ReceiptIsExact ==
    \A t \in Turns : push[t] # "idle" => ahead[t] = Cardinality(front[t])

\* The queue implements the serial line of turns.
Line == INSTANCE SerialTurns WITH pending <- jobs
SerialLine == Line!Spec

\* As long as no turn hangs, every submitted turn is run, skipped with its
\* deleted task, or dropped by a flush: push loses none of them.
NoTurnHangs == \A d \in Turns : []<>(drain[d] # "run")
Settled(t) == fate[t] \in {"done", "dropped"}
EveryTurnSettles ==
    NoTurnHangs => \A t \in Turns : (push[t] # "idle") ~> Settled(t)

=============================================================================
