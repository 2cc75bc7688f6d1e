------------------------------- MODULE EventBus -------------------------------
(* How a browser is told of the changes of a task: the event bus               *)
(* (core/event_bus.go), the loop that serves one websocket (api/ws.go) and the *)
(* client's watch over the numbers of the events (web seqTracker.ts).          *)
(* The store is changed first and the event published later, by goroutines     *)
(* that do not wait for each other. A subscriber whose buffer is full is not   *)
(* waited for: the event is lost and the subscription marked.                  *)
EXTENDS Naturals, Sequences, FiniteSets

CONSTANTS
    Publishers,     \* goroutines that change the task
    MaxVersions,    \* bound: changes of the task
    MaxLinks,       \* bound: connections made by the client
    Buffer,         \* events that a subscription holds
    PingTicks       \* the interval of the ping, in intervals of the resync

EventBusAssumption ==
    /\ Buffer \in Nat \ {0} /\ MaxVersions \in Nat /\ MaxLinks \in Nat
    /\ PingTicks \in Nat /\ PingTicks > 1

VARIABLES
    version,        \* of the task in the store
    publishing,     \* what each publisher still has to publish
    seq,            \* number of the last event
    queue,          \* the subscription's channel
    dropped,        \* the subscription's mark
    loop,           \* where the serving loop is
    frame,          \* what it is about to write
    idle,           \* time since it began to wait
    line,           \* the TCP connection
    links,          \* connections made so far
    last,           \* the client's baseline, 0 when there is none
    refetch,        \* the client has found a gap
    shown           \* the newest version the client has been told of

busVars == <<version, publishing, seq, queue, dropped, loop, frame, idle, line, links,
             last, refetch, shown>>
serverVars == <<queue, dropped, loop, frame, idle>>
clientVars == <<last, refetch, shown>>

Versions == 0..MaxVersions
Larger(a, b) == IF a > b THEN a ELSE b

\* A publisher has changed the store to "version"; its event has no number yet (0)
\* or the number "seq".
Nothing == [version |-> 0, seq |-> 0]
Frames == [kind : {"event", "snapshot"}, seq : 0..MaxVersions, version : Versions]
NoFrame == [kind |-> "snapshot", seq |-> 0, version |-> 0]

TypeOK ==
    /\ version \in Versions /\ seq \in 0..MaxVersions /\ shown \in Versions
    /\ publishing \in [Publishers -> [version : Versions, seq : 0..MaxVersions]]
    /\ queue \in Seq([version : Versions, seq : 0..MaxVersions]) /\ Len(queue) <= Buffer
    /\ loop \in {"none", "number", "list", "write", "wait"} /\ frame \in Frames
    /\ idle \in 0..PingTicks /\ line \in {"up", "dead"} /\ links \in 0..MaxLinks
    /\ last \in 0..MaxVersions /\ dropped \in BOOLEAN /\ refetch \in BOOLEAN

Init ==
    /\ version = 0 /\ publishing = [p \in Publishers |-> Nothing] /\ seq = 0
    /\ queue = <<>> /\ dropped = FALSE /\ loop = "none" /\ frame = NoFrame /\ idle = 0
    /\ line = "up" /\ links = 0
    /\ last = 0 /\ refetch = FALSE /\ shown = 0

------------------------------------------------------------------------------
(* The publishers: the store, the number, and the subscribers.                 *)

Update(p) ==
    /\ publishing[p] = Nothing /\ version < MaxVersions
    /\ version' = version + 1
    /\ publishing' = [publishing EXCEPT ![p].version = version + 1]
    /\ UNCHANGED <<seq, line, links, serverVars, clientVars>>

Number(p) ==
    /\ publishing[p].version # 0 /\ publishing[p].seq = 0
    /\ seq' = seq + 1
    /\ publishing' = [publishing EXCEPT ![p].seq = seq + 1]
    /\ UNCHANGED <<version, line, links, serverVars, clientVars>>

Deliver(p) ==
    /\ publishing[p].seq # 0
    /\ IF loop = "none" THEN UNCHANGED <<queue, dropped>>
       ELSE IF Len(queue) < Buffer THEN queue' = Append(queue, publishing[p]) /\ UNCHANGED dropped
       ELSE dropped' = TRUE /\ UNCHANGED queue
    /\ publishing' = [publishing EXCEPT ![p] = Nothing]
    /\ UNCHANGED <<version, seq, loop, frame, idle, line, links, clientVars>>

------------------------------------------------------------------------------
(* The serving loop. It subscribes before it reads the store.                  *)

Connect ==
    /\ loop = "none" /\ links < MaxLinks
    /\ links' = links + 1 /\ line' = "up"
    /\ loop' = "number" /\ queue' = <<>> /\ dropped' = FALSE /\ idle' = 0
    /\ UNCHANGED <<version, publishing, seq, frame, clientVars>>

\* WithSeqHeld: the lock is the readers', so it keeps no publisher out, and the
\* number is read before the list.
ReadSeq ==
    /\ loop = "number" /\ loop' = "list"
    /\ frame' = [kind |-> "snapshot", seq |-> seq, version |-> 0]
    /\ UNCHANGED <<version, publishing, seq, queue, dropped, idle, line, links, clientVars>>

ReadList ==
    /\ loop = "list" /\ loop' = "write"
    /\ frame' = [frame EXCEPT !.version = version]
    /\ UNCHANGED <<version, publishing, seq, queue, dropped, idle, line, links, clientVars>>

Take ==
    /\ loop = "wait" /\ queue # <<>> /\ loop' = "write"
    /\ frame' = [kind |-> "event", seq |-> Head(queue).seq, version |-> Head(queue).version]
    /\ queue' = Tail(queue)
    /\ UNCHANGED <<version, publishing, seq, dropped, idle, line, links, clientVars>>

\* SeqTracker: a snapshot, and a number that is not above the last, make a new
\* baseline; a number that was jumped over is a gap.
Observe ==
    /\ last' = IF frame.seq = 0 THEN last ELSE frame.seq
    /\ refetch' = (refetch \/ (frame.kind = "event" /\ last # 0 /\ frame.seq > last + 1))
    /\ shown' = Larger(shown, frame.version)

\* As Write, when the mark is cleared only now.
WriteAndClear ==
    /\ loop = "write" /\ loop' = "wait" /\ idle' = 0 /\ frame' = NoFrame
    /\ IF line = "up" THEN Observe ELSE UNCHANGED clientVars
    /\ dropped' = (dropped /\ frame.kind = "event")
    /\ UNCHANGED <<version, publishing, seq, queue, line, links>>

\* What is written into a dead connection is lost, and the writer does not know.
Write ==
    /\ loop = "write" /\ loop' = "wait" /\ idle' = 0 /\ frame' = NoFrame
    /\ IF line = "up" THEN Observe ELSE UNCHANGED clientVars
    /\ UNCHANGED <<version, publishing, seq, queue, dropped, line, links>>

\* Both timers are made anew whenever the loop comes back to its select.
Resync ==
    /\ loop = "wait" /\ idle >= 1 /\ idle' = 0
    /\ loop' = IF dropped THEN "number" ELSE "wait"
    /\ dropped' = FALSE
    /\ UNCHANGED <<version, publishing, seq, queue, frame, line, links, clientVars>>

\* Without an answer the loop ends, which unsubscribes and closes.
Ping ==
    /\ loop = "wait" /\ idle >= PingTicks /\ idle' = 0
    /\ loop' = IF line = "up" THEN "wait" ELSE "none"
    /\ UNCHANGED <<version, publishing, seq, queue, dropped, frame, line, links, clientVars>>

Tick ==
    /\ loop = "wait" /\ idle < PingTicks /\ idle' = idle + 1
    /\ UNCHANGED <<version, publishing, seq, queue, dropped, loop, frame, line, links, clientVars>>

------------------------------------------------------------------------------
(* The client and the network.                                                 *)

ClientCloses ==
    /\ loop # "none" /\ line = "up" /\ loop' = "none" /\ frame' = NoFrame
    /\ UNCHANGED <<version, publishing, seq, queue, dropped, idle, line, links, clientVars>>

LineDies ==
    /\ loop # "none" /\ line = "up" /\ line' = "dead"
    /\ UNCHANGED <<version, publishing, seq, links, serverVars, clientVars>>

Refetch ==
    /\ refetch /\ refetch' = FALSE /\ shown' = version
    /\ UNCHANGED <<version, publishing, seq, line, links, serverVars, last>>

PublishStep(p) == Number(p) \/ Deliver(p)
LoopStep == ReadSeq \/ ReadList \/ Take \/ Write \/ Resync \/ Ping

Next ==
    \/ \E p \in Publishers : Update(p) \/ PublishStep(p)
    \/ LoopStep \/ Connect \/ Tick \/ ClientCloses \/ LineDies \/ Refetch

\* Publishers and the loop go on; time passes while the loop waits; and a select
\* with several cases ready takes each of them in the end, so that one whose
\* readiness comes again and again is not passed over for ever.
Fairness ==
    /\ \A p \in Publishers : WF_busVars(PublishStep(p))
    /\ WF_busVars(LoopStep) /\ WF_busVars(Tick)
    /\ SF_busVars(Take) /\ SF_busVars(Resync)

Spec == Init /\ [][Next]_busVars /\ Fairness

\* A client that stays connected is told of every change, whatever was dropped
\* and however slowly it reads: by the event, or by a snapshot that holds it
\* (Publish and TakeDropped in core/event_bus.go, handleWS and writeSnapshot in
\* api/ws.go).
NothingIsMissed ==
    \A v \in 1..MaxVersions :
        (version >= v /\ loop # "none") ~> (shown >= v \/ loop = "none" \/ line = "dead")

\* The newest version of a task is never out of sight of a client that is
\* connected: the client has it, or an event that holds it is still to come, or
\* the loop will yet read the store, because it has not done so since or because
\* the subscription is marked (Publish and TakeDropped in core/event_bus.go, the
\* order of Subscribe and writeSnapshot in api/ws.go).
NewestIsOnTheWay ==
    loop # "none" /\ line = "up" =>
        \/ shown >= version \/ dropped \/ loop \in {"number", "list"}
        \/ loop = "write" /\ frame.version >= version
        \/ \E i \in DOMAIN queue : queue[i].version = version
        \/ \E p \in Publishers : publishing[p].version = version

\* A connection that has died silently is found by the ping and closed (the
\* comment of the heartbeat in api/ws.go).
DeadLinksAreFound == (line = "dead") ~> (loop = "none")
===============================================================================
