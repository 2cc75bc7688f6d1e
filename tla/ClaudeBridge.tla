---------------------------- MODULE ClaudeBridge ----------------------------
(* A session with Claude through the resident bridge: the Node service        *)
(* (services/claude-sdk-bridge), whose event loop runs one handler at a time, *)
(* the stream of its events with the history that a late reader is given, and *)
(* the session on the side of the program (agent/claude/session.go and        *)
(* factory.go under agent/sessionadapter.go), which waits on a condition      *)
(* variable for the end of its turn.                                          *)
(* The SDK behind the bridge takes messages from a generator, asks for        *)
(* permission and gives one result per turn. A request to the bridge may be   *)
(* lost, or its answer, and so may the stream.                                *)
EXTENDS Naturals, Sequences

CONSTANTS
    MaxPrompts,     \* bound: prompts of the session
    MaxAsks,        \* bound: permissions asked for
    MaxFaults,      \* bound: requests, answers and streams lost
    HistoryMax      \* events kept for a late reader

BridgeAssumption ==
    /\ MaxPrompts \in Nat /\ MaxAsks \in Nat /\ MaxFaults \in Nat
    /\ HistoryMax \in Nat \ {0}

VARIABLES
    opening,        \* how far openSession and NewSession are
    known,          \* the bridge has the session in its table
    closed, state,  \* SessionRuntime.closed, .state
    queue,          \* prompts not yet taken by the SDK
    idleSdk,        \* the SDK waits in the generator
    current,        \* currentClientRef, 0 for none
    inFlight,       \* turnInFlight
    pending,        \* pendingPerms
    history,        \* the newest events
    turn,           \* the prompt the SDK works on, 0 for none
    asks,           \* permissions asked for so far
    cancelling,     \* a cancel waits for the SDK's answer to the interrupt
    stream,         \* the stream of events as the program sees it
    line,           \* events sent and not yet read
    cards,          \* permissions that wait for a decision on this side
    heard,          \* OnEvent has been called
    fatal, gone,    \* session.fatal, session.closed
    done,           \* sessionBackedAdapter.done is closed
    ends,           \* session.turnEnds: the prompts whose end has arrived
    prompt,         \* where the call of Prompt is
    stop,           \* how far the manager's Cancel and Close are
    ctxDone, watch, \* the prompt's context is done; its watcher has yet to broadcast
    faults

nodeVars == <<known, closed, state, queue, idleSdk, current, inFlight, pending, turn, asks, cancelling>>
sentVars == <<history, line>>
goVars == <<opening, heard, fatal, gone, done, ends, cards>>
callVars == <<prompt, ctxDone, watch>>
bridgeVars == <<nodeVars, sentVars, stream, goVars, callVars, stop, faults>>

Prompts == 1..MaxPrompts
Events == [kind : {"end", "perm", "error", "closed"}, ref : 0..MaxPrompts + MaxAsks]
Event(kind, ref) == [kind |-> kind, ref |-> ref]

TypeOK ==
    /\ opening \in {"health", "create", "hear", "open", "print"}
    /\ {known, closed, idleSdk, inFlight, cancelling, heard, fatal, gone, done, ctxDone, watch} \subseteq BOOLEAN
    /\ state \in {"idle", "running", "waiting", "closed"}
    /\ queue \in Seq(Prompts)
    /\ current \in 0..MaxPrompts /\ turn \in {0, current} /\ ends \subseteq Prompts
    /\ asks \in 0..MaxAsks /\ pending \subseteq 1..asks
    /\ history \in Seq(Events) /\ Len(history) <= HistoryMax /\ line \in Seq(Events)
    /\ stream \in {"none", "open", "ended", "over"} /\ cards \subseteq 1..asks
    /\ prompt \in [Prompts -> {"new", "check", "drop", "asleep", "back"}]
    /\ stop \in {"no", "interrupt", "close", "delete", "out"}
    /\ faults \in 0..MaxFaults

Init ==
    /\ opening = "health" /\ known = FALSE /\ closed = FALSE /\ state = "idle" /\ queue = <<>>
    /\ idleSdk = FALSE /\ current = 0 /\ inFlight = FALSE /\ pending = {} /\ history = <<>>
    /\ turn = 0 /\ asks = 0 /\ cancelling = FALSE
    /\ stream = "none" /\ line = <<>> /\ cards = {}
    /\ heard = FALSE /\ fatal = FALSE /\ gone = FALSE /\ done = FALSE
    /\ ends = {} /\ prompt = [p \in Prompts |-> "new"]
    /\ ctxDone = FALSE /\ watch = FALSE /\ stop = "no" /\ faults = 0

------------------------------------------------------------------------------
(* The bridge. What it says goes into the history and to the reader.          *)

Emit(events) ==
    LET all == history \o events
        n == Len(all)
    IN  /\ history' = IF n > HistoryMax THEN SubSeq(all, n - HistoryMax + 1, n) ELSE all
        /\ line' = IF stream = "open" THEN line \o events ELSE line

Quiet == UNCHANGED <<sentVars, stream>>
GoStays == UNCHANGED <<goVars, callVars, stop, faults>>
Fault == faults < MaxFaults /\ faults' = faults + 1

\* promptStream hands a message to the SDK.
Take(p) == current' = p /\ inFlight' = TRUE /\ turn' = p

\* _nextPrompt.
SdkPulls ==
    /\ known /\ ~closed /\ ~idleSdk /\ turn = 0
    /\ IF queue = <<>> THEN idleSdk' = TRUE /\ UNCHANGED <<current, inFlight, turn, queue>>
       ELSE Take(Head(queue)) /\ queue' = Tail(queue) /\ UNCHANGED idleSdk
    /\ UNCHANGED <<known, closed, state, pending, asks, cancelling>> /\ Quiet /\ GoStays

\* pushPrompt, which a closed session refuses.
Push(p) ==
    /\ known /\ ~closed
    /\ IF idleSdk THEN Take(p) /\ idleSdk' = FALSE /\ UNCHANGED queue
       ELSE queue' = Append(queue, p) /\ UNCHANGED <<current, inFlight, turn, idleSdk>>
    /\ state' = "running"
    /\ UNCHANGED <<known, closed, pending, asks, cancelling>>

\* The result of a turn is told under the reference taken last.
ResultArrives ==
    /\ known /\ turn # 0 /\ pending = {}
    /\ turn' = 0 /\ inFlight' = FALSE /\ state' = "idle"
    /\ Emit(<<Event("end", current)>>)
    /\ UNCHANGED <<known, closed, queue, idleSdk, current, pending, asks, cancelling, stream>> /\ GoStays

\* _canUseTool, for a tool that is not let pass.
SdkAsks ==
    /\ known /\ ~closed /\ turn # 0 /\ asks < MaxAsks
    /\ asks' = asks + 1 /\ pending' = pending \cup {asks + 1} /\ state' = "waiting"
    /\ Emit(<<Event("perm", asks + 1)>>)
    /\ UNCHANGED <<known, closed, queue, idleSdk, current, inFlight, turn, cancelling, stream>> /\ GoStays

\* cancel interrupts, which releases what the turn asks for, and waits.
Interrupt ==
    /\ known /\ ~closed /\ cancelling' = TRUE /\ pending' = {}
    /\ UNCHANGED <<known, closed, state, queue, idleSdk, current, inFlight, turn, asks>>

\* A turn without a result by then is given an end of the bridge's own.
CancelReturns ==
    /\ cancelling /\ cancelling' = FALSE
    /\ IF inFlight THEN inFlight' = FALSE /\ state' = "idle" /\ Emit(<<Event("end", current)>>)
       ELSE UNCHANGED <<inFlight, state, sentVars>>
    /\ UNCHANGED <<known, closed, queue, idleSdk, current, pending, turn, asks, stream>> /\ GoStays

\* close.
CloseRuntime ==
    /\ IF known /\ ~closed
       THEN closed' = TRUE /\ state' = "closed" /\ pending' = {} /\ Emit(<<Event("closed", 0)>>)
       ELSE UNCHANGED <<closed, state, pending, sentVars>>
    /\ UNCHANGED <<known, queue, idleSdk, current, inFlight, turn, asks, cancelling>>

\* The timer closes what has been silent for half an hour and does not run.
Reclaim ==
    /\ known /\ ~closed /\ state # "running"
    /\ CloseRuntime /\ UNCHANGED stream /\ GoStays

Forget ==
    /\ known' = FALSE /\ idleSdk' = FALSE /\ turn' = 0 /\ pending' = {} /\ cancelling' = FALSE
    /\ queue' = <<>> /\ inFlight' = FALSE /\ history' = <<>>
    /\ stream' = IF stream = "open" THEN "ended" ELSE stream
    /\ UNCHANGED <<closed, current, asks>>

\* _consume ends: the SDK's process was closed, has ended, or has died with an
\* error (_cleanup, cleanupSession).
SdkEnds ==
    /\ known /\ Forget /\ state' = "closed"
    /\ \E words \in {<<>>} \cup (IF closed THEN {} ELSE {<<Event("error", 0)>>}) :
          line' = IF stream = "open" THEN line \o Append(words, Event("closed", 0)) ELSE line
    /\ GoStays

\* The whole bridge is gone.
BridgeDies ==
    /\ known /\ Fault /\ Forget /\ UNCHANGED <<state, line, goVars, callVars, stop>>

------------------------------------------------------------------------------
(* Opening (openSession, NewSession): the event loop is started before        *)
(* OnEvent is called.                                                         *)

Opened == opening \in {"hear", "open"}
OpeningStays == UNCHANGED <<heard, fatal, gone, done, ends, cards, callVars, stop>>

Healthy ==
    /\ opening = "health" /\ opening' = "create"
    /\ OpeningStays /\ UNCHANGED <<nodeVars, sentVars, stream, faults>>

Created == known' = TRUE /\ UNCHANGED <<closed, state, queue, idleSdk, current, inFlight, pending,
                                        turn, asks, cancelling>>

CreateSession ==
    /\ opening = "create" /\ Created /\ opening' = "hear"
    /\ OpeningStays /\ Quiet /\ UNCHANGED faults

\* The bridge does not answer, or not any more: claude -p instead.
FallBack ==
    /\ Fault /\ opening' = "print"
    /\ \/ opening \in {"health", "create"} /\ UNCHANGED nodeVars
       \/ opening = "create" /\ Created
    /\ OpeningStays /\ Quiet

OnEvent ==
    /\ opening = "hear" /\ opening' = "open" /\ heard' = TRUE
    /\ UNCHANGED <<fatal, gone, done, ends, cards, callVars, stop, nodeVars, faults>> /\ Quiet

------------------------------------------------------------------------------
(* The event loop. It changes the session under the lock on which Prompt      *)
(* waits, and wakes whoever sleeps there.                                     *)

Unlocked == \A p \in Prompts : prompt[p] # "drop"
Broadcast == prompt' = [p \in Prompts |-> IF prompt[p] = "asleep" THEN "check" ELSE prompt[p]]

\* fail tells the layer above if it listens; nobody tells it later.
Fail ==
    /\ Unlocked /\ Broadcast
    /\ fatal' = TRUE /\ done' = (done \/ heard)

LoopStays == UNCHANGED <<opening, heard, gone, ctxDone, watch, stop, nodeVars, history>>

\* runEventLoop: the history first; a session that is unknown, or closed by us, fails.
OpenStream ==
    /\ Opened /\ stream = "none"
    /\ IF known /\ ~gone
       THEN stream' = "open" /\ line' = history /\ UNCHANGED <<fatal, done, prompt>>
       ELSE stream' = "over" /\ Fail /\ UNCHANGED line
    /\ UNCHANGED <<ends, cards, faults>> /\ LoopStays

\* The stream cannot be opened, or breaks off: a lost connection, or a line that
\* is longer than the reader takes.
StreamBreaks ==
    /\ Opened /\ Fault
    /\ \/ stream = "none" /\ stream' = "over" /\ Fail
       \/ stream = "open" /\ stream' = "ended" /\ UNCHANGED <<fatal, done, prompt>>
    /\ line' = <<>>
    /\ UNCHANGED <<ends, cards>> /\ LoopStays

\* handleEvent.
Read ==
    /\ line # <<>> /\ line' = Tail(line)
    /\ LET e == Head(line) IN
       \/ e.kind = "end" /\ Unlocked /\ Broadcast
             /\ ends' = ends \cup {e.ref} /\ UNCHANGED <<fatal, done, cards>>
       \/ e.kind = "error" /\ Fail /\ UNCHANGED <<ends, cards>>
       \/ e.kind = "perm" /\ cards' = cards \cup {e.ref} /\ UNCHANGED <<ends, fatal, done, prompt>>
       \/ e.kind = "closed" /\ UNCHANGED <<ends, fatal, done, cards, prompt>>
    /\ UNCHANGED <<stream, faults>> /\ LoopStays

StreamEnds ==
    /\ stream = "ended" /\ line = <<>> /\ stream' = "over"
    /\ IF gone THEN UNCHANGED <<fatal, done, prompt>> ELSE Fail
    /\ UNCHANGED <<line, ends, cards, faults>> /\ LoopStays

------------------------------------------------------------------------------
(* Prompt, RespondPermission, Cancel and Close.                               *)

Waits(p) == prompt[p] \in {"check", "drop", "asleep"}
CallStays == UNCHANGED <<goVars, stop>>

\* One prompt at a time, as the manager sees to; each has a context of its own.
Sends(p) ==
    /\ opening = "open" /\ stop \in {"no", "interrupt", "close"} /\ prompt[p] = "new"
    /\ \A q \in 1..(p - 1) : prompt[q] = "back"
    /\ ctxDone' = FALSE /\ watch' = FALSE
    /\ CallStays /\ Quiet

Becomes(p, place) == prompt' = [prompt EXCEPT ![p] = place]

SendPrompt(p) ==
    /\ Sends(p) /\ UNCHANGED faults
    /\ \/ Push(p) /\ Becomes(p, "check")
       \/ (~known \/ closed) /\ UNCHANGED nodeVars /\ Becomes(p, "back")

\* The request is lost, or only its answer.
SendFails(p) ==
    /\ Sends(p) /\ Fault /\ Becomes(p, "back")
    /\ Push(p) \/ UNCHANGED nodeVars

\* waitTurn looks for the end of the turn before anything else.
Look(p) ==
    /\ prompt[p] = "check"
    /\ Becomes(p, IF p \in ends \/ fatal \/ gone \/ ctxDone THEN "back" ELSE "drop")
    /\ UNCHANGED <<ctxDone, watch, nodeVars, faults>> /\ CallStays /\ Quiet

\* cond.Wait lets go of the lock.
Sleep(p) ==
    /\ prompt[p] = "drop" /\ Becomes(p, "asleep")
    /\ UNCHANGED <<ctxDone, watch, nodeVars, faults>> /\ CallStays /\ Quiet

\* The watcher of the context broadcasts without the lock.
WatchContext ==
    /\ watch /\ watch' = FALSE /\ Broadcast
    /\ UNCHANGED <<ctxDone, nodeVars, faults>> /\ CallStays /\ Quiet

\* A decision, or the end of its time. One that is lost is not made again.
Decide(a) ==
    /\ a \in cards /\ cards' = cards \ {a} /\ stop \in {"no", "interrupt", "close"}
    /\ \/ a \in pending /\ pending' = pending \ {a} /\ state' = "running" /\ UNCHANGED faults
       \/ a \notin pending /\ UNCHANGED <<pending, state, faults>>
       \/ Fault /\ UNCHANGED <<pending, state>>
    /\ UNCHANGED <<known, closed, queue, idleSdk, current, inFlight, turn, asks, cancelling,
                   opening, heard, fatal, gone, done, ends, callVars, stop>> /\ Quiet

\* The manager ends the context of a prompt, then cancels and closes, or closes at
\* once. It waits for the answer to the cancel no longer than the client's timeout.
EndContext ==
    /\ opening = "open" /\ stop = "no" /\ stop' \in {"interrupt", "close"}
    /\ ctxDone' = (\E p \in Prompts : Waits(p)) /\ watch' = ctxDone'
    /\ UNCHANGED <<prompt, nodeVars, goVars, faults>> /\ Quiet

PostCancel ==
    /\ stop = "interrupt" /\ stop' = "close"
    /\ \/ Interrupt /\ UNCHANGED faults
       \/ (~known \/ closed) /\ UNCHANGED <<nodeVars, faults>>
       \/ Fault /\ UNCHANGED nodeVars
    /\ UNCHANGED <<callVars, goVars>> /\ Quiet

CloseSession ==
    /\ stop = "close" /\ stop' = "delete"
    /\ Unlocked /\ Broadcast /\ gone' = TRUE /\ done' = TRUE
    /\ stream' = IF stream = "none" THEN stream ELSE "over"
    /\ line' = <<>>
    /\ UNCHANGED <<opening, heard, fatal, ends, cards, ctxDone, watch, nodeVars, history, faults>>

PostDelete ==
    /\ stop = "delete" /\ stop' = "out"
    /\ \/ CloseRuntime /\ UNCHANGED faults
       \/ Fault /\ UNCHANGED <<nodeVars, sentVars>>
    /\ UNCHANGED <<stream, callVars, goVars>>

------------------------------------------------------------------------------
CallStep(p) == Look(p) \/ Sleep(p)
LoopStep == OpenStream \/ Read \/ StreamEnds
StopStep == PostCancel \/ CloseSession \/ PostDelete

Next ==
    \/ SdkPulls \/ ResultArrives \/ SdkAsks \/ CancelReturns \/ Reclaim \/ SdkEnds \/ BridgeDies
    \/ Healthy \/ CreateSession \/ FallBack \/ OnEvent \/ StreamBreaks \/ LoopStep
    \/ \E p \in Prompts : SendPrompt(p) \/ SendFails(p) \/ CallStep(p)
    \/ WatchContext \/ EndContext \/ StopStep
    \/ \E a \in 1..MaxAsks : Decide(a)

\* Goroutines and the bridge go on, cards are decided or time out, what is silent
\* is reclaimed, and a process that was closed ends. An SDK may take for ever.
Fairness ==
    /\ \A p \in Prompts : WF_bridgeVars(CallStep(p))
    /\ \A a \in 1..MaxAsks : WF_bridgeVars(Decide(a))
    /\ WF_bridgeVars(OnEvent) /\ WF_bridgeVars(LoopStep) /\ WF_bridgeVars(WatchContext)
    /\ WF_bridgeVars(StopStep) /\ WF_bridgeVars(SdkPulls) /\ WF_bridgeVars(CancelReturns)
    /\ WF_bridgeVars(Reclaim) /\ WF_bridgeVars(closed /\ SdkEnds)

Spec == Init /\ [][Next]_bridgeVars /\ Fairness

------------------------------------------------------------------------------
\* The SDK gives a result for each turn once what it asked for is decided.
TurnsEnd == WF_bridgeVars(ResultArrives)

\* A prompt returns when its session is stopped or forgotten, and, if turns end,
\* in any case (waitTurn, Close and fail in session.go, cancel in session.js).
PromptsReturn ==
    /\ \A p \in Prompts : (Waits(p) /\ (stop # "no" \/ ~known)) ~> ~Waits(p)
    /\ TurnsEnd => \A p \in Prompts : Waits(p) ~> ~Waits(p)

\* No wake-up is lost: who sleeps, or still holds the lock on his way there, has
\* nothing to wake up for but the end of his context, although his look and his
\* sleep are apart (waitTurn; handleEvent, fail and Close change the session and
\* broadcast under its lock, which the watcher of the context does not take).
WakeUpsReach ==
    \A p \in Prompts : prompt[p] \in {"drop", "asleep"} => p \notin ends /\ ~fatal /\ ~gone

\* A session that the program has left is closed in the end, also when it was not
\* told so: by the timer of index.js, which passes over what runs, so that it
\* takes a turn that ends and no permission that is waited for while another
\* decision, or another prompt, makes the state running.
LeftSessionsEnd ==
    (TurnsEnd /\ [](pending # {} => state # "running")) =>
        ((stop = "out" \/ opening = "print") ~> ~known)

\* index.js says of the timer that it keeps orphans away: not when one of two
\* permissions was decided before the program left, which makes the state running.
OrphansEnd == TurnsEnd => ((stop = "out" \/ opening = "print") ~> ~known)

\* The comment of fail says that the layer above learns of the death by the event:
\* not when it comes before OnEvent, since nothing is delivered later.
DeathIsHeard == (fatal /\ heard) ~> done
===============================================================================
