-------------------------------- MODULE Streams --------------------------------
(* What an agent sends during a turn, on its way into the task: text and       *)
(* thoughts (core/agent_stream.go) and tool calls (core/agent_toolcall.go) are *)
(* held back for 200 ms, each kind in its own buffer with its own timer; plans,*)
(* usage and goals (agent_plan.go, agent_usage.go, agent_goal.go) are written  *)
(* at once. The end of the turn empties the buffer of texts and judges what    *)
(* the task then holds (runACPTurn and completeTask in core/task_runner.go).   *)
(* Chunks are numbered in the order in which the connection hands them over.   *)
EXTENDS Naturals, Sequences, SequencesExt

CONSTANT MaxChunks      \* bound: chunks of the turn

StreamsAssumption == MaxChunks \in Nat \ {0}

Chunks == 1..MaxChunks
Texts == {"text", "thought"}
Tools == {"use", "todo", "more", "result"}      \* "more": an update that completes the input
Kinds == Texts \cup Tools \cup {"plan", "usage", "goal"}
Flushers == {"timer", "turn"}

VARIABLES
    heard,      \* kinds of the chunks so far
    texts,      \* contentDeltaWire.pending: blocks of one kind
    textTimer,
    taken,      \* blocks that a flush has taken and not yet written
    tools,      \* toolCallWire.pending
    toolTimer,
    events,     \* Task.Events: blocks of text, and single events
    output,     \* Task.Output: numbers of the texts
    plan,       \* Task.Plan: number of the chunk it is from
    usage,      \* Task.Usage, likewise
    turn,       \* where the goroutine of the turn is
    seen        \* the output it has read

streamVars == <<heard, texts, textTimer, taken, tools, toolTimer, events, output, plan, usage,
                turn, seen>>

Block == [kind : Kinds, of : Seq(Chunks)]
Numbers(blocks) == FlattenSeq([i \in DOMAIN blocks |-> blocks[i].of])

TypeOK ==
    /\ heard \in Seq(Kinds) /\ Len(heard) <= MaxChunks
    /\ texts \in Seq(Block) /\ textTimer \in BOOLEAN /\ taken \in [Flushers -> Seq(Block)]
    /\ tools \in Seq(Chunks) /\ toolTimer \in BOOLEAN
    /\ events \in Seq(Block) /\ output \in Seq(Chunks) /\ plan \in 0..MaxChunks
    /\ usage \in 0..MaxChunks
    /\ turn \in {"prompt", "flush", "look", "judge", "complete", "commit", "completed", "failed",
                 "closed"}
    /\ seen \in Seq(Chunks)

Init ==
    /\ heard = <<>> /\ texts = <<>> /\ textTimer = FALSE /\ taken = [f \in Flushers |-> <<>>]
    /\ tools = <<>> /\ toolTimer = FALSE
    /\ events = <<>> /\ output = <<>> /\ plan = 0 /\ usage = 0
    /\ turn = "prompt" /\ seen = <<>>

------------------------------------------------------------------------------
(* SessionUpdate.                                                              *)

Count == Len(heard)
Hear(k) == turn = "prompt" /\ Count < MaxChunks /\ heard' = Append(heard, k)
Called == \E i \in DOMAIN heard : heard[i] \in {"use", "todo"}

\* A chunk joins the last block if that is of its kind.
Joined(blocks, k, n) ==
    IF blocks # <<>> /\ Last(blocks).kind = k
    THEN [blocks EXCEPT ![Len(blocks)].of = Append(@, n)]
    ELSE Append(blocks, [kind |-> k, of |-> <<n>>])

\* As HearText, for a buffer whose timer is only set when it is new.
HearTextUntimed(k) ==
    /\ Hear(k) /\ texts' = Joined(texts, k, Count') /\ textTimer' = (textTimer \/ events = <<>>)
    /\ UNCHANGED <<taken, tools, toolTimer, events, output, plan, usage, turn, seen>>

\* onDelta and buffer.
HearText(k) ==
    /\ Hear(k) /\ texts' = Joined(texts, k, Count') /\ textTimer' = TRUE
    /\ UNCHANGED <<taken, tools, toolTimer, events, output, plan, usage, turn, seen>>

\* onUpdate.
HearTool(k) ==
    /\ Hear(k) /\ (k \in {"use", "todo"} <=> ~Called)
    /\ tools' = Append(tools, Count') /\ toolTimer' = TRUE
    /\ UNCHANGED <<texts, textTimer, taken, events, output, plan, usage, turn, seen>>

\* onPlan, onUsage and onGoal.
HearPlan ==
    /\ Hear("plan") /\ plan' = Count' /\ events' = Append(events, [kind |-> "plan", of |-> <<Count'>>])
    /\ UNCHANGED <<texts, textTimer, taken, tools, toolTimer, output, usage, turn, seen>>

HearUsage ==
    /\ Hear("usage") /\ usage' = Count'
    /\ UNCHANGED <<texts, textTimer, taken, tools, toolTimer, events, output, plan, turn, seen>>

HearGoal ==
    /\ Hear("goal") /\ events' = Append(events, [kind |-> "goal", of |-> <<Count'>>])
    /\ UNCHANGED <<texts, textTimer, taken, tools, toolTimer, output, plan, usage, turn, seen>>

------------------------------------------------------------------------------
(* contentDeltaWire.Flush: the blocks are taken under the lock and written     *)
(* without it.                                                                 *)

Take(f) == taken' = [taken EXCEPT ![f] = texts] /\ texts' = <<>> /\ textTimer' = FALSE

\* appendChunk: the first block may join the last event.
Merged(blocks, block) ==
    IF blocks # <<>> /\ Last(blocks).kind = block.kind
    THEN [blocks EXCEPT ![Len(blocks)].of = @ \o block.of]
    ELSE Append(blocks, block)

TextsOf(blocks) ==
    FlattenSeq([i \in DOMAIN blocks |-> IF blocks[i].kind = "text" THEN blocks[i].of ELSE <<>>])

\* persist.
Persist(f) ==
    /\ events' = FoldLeft(Merged, events, taken[f]) /\ output' = output \o TextsOf(taken[f])
    /\ taken' = [taken EXCEPT ![f] = <<>>]

TimerTakes ==
    /\ textTimer /\ taken["timer"] = <<>> /\ Take("timer")
    /\ UNCHANGED <<heard, tools, toolTimer, events, output, plan, usage, turn, seen>>

TimerPersists ==
    /\ taken["timer"] # <<>> /\ Persist("timer")
    /\ UNCHANGED <<heard, texts, textTimer, tools, toolTimer, plan, usage, turn, seen>>

------------------------------------------------------------------------------
(* toolCallWire.Flush, under its lock throughout. An update of a call whose    *)
(* event is there is merged into it; a list of things to do becomes the plan.  *)

CallsIn(evs) == {i \in DOMAIN evs : evs[i].kind \in {"use", "todo"}}

\* mergeToolUseIntoTask and attachToolDescription.
Merge(evs, n) == [evs EXCEPT ![CHOOSE i \in CallsIn(evs) : TRUE].of = Append(@, n)]

\* mapToolCallEvent.
EventOf(n) == [kind |-> heard[n], of |-> <<n>>]

\* applyToolCallUpdate.
Applied(evs, n) ==
    IF heard[n] = "more" /\ CallsIn(evs) # {} THEN Merge(evs, n) ELSE Append(evs, EventOf(n))

PlanOf(p, n) == IF heard[n] = "todo" THEN n ELSE p

FlushTools ==
    /\ events' = FoldLeft(Applied, events, tools) /\ plan' = FoldLeft(PlanOf, plan, tools)
    /\ tools' = <<>> /\ toolTimer' = FALSE

ToolTimer ==
    /\ toolTimer /\ FlushTools
    /\ UNCHANGED <<heard, texts, textTimer, taken, output, usage, turn, seen>>

------------------------------------------------------------------------------
(* The end of the turn.                                                        *)

\* flushDelta, before the task is looked at and once more before it is completed.
FlushDelta(from, to) ==
    /\ turn = from /\ turn' = to /\ Take("turn")
    /\ UNCHANGED <<heard, tools, toolTimer, events, output, plan, usage, seen>>

Flushed == turn \in {"look", "commit", "closed"} /\ taken["turn"] # <<>> /\ Persist("turn")
           /\ UNCHANGED <<heard, texts, textTimer, tools, toolTimer, plan, usage, turn, seen>>

PromptReturns == FlushDelta("prompt", "look")

\* No content at all is a failure (taskHasContent).
Look ==
    /\ turn = "look" /\ taken["turn"] = <<>> /\ seen' = output
    /\ turn' = IF \E i \in DOMAIN events : events[i].kind \in {"text", "use", "todo", "result"}
               THEN "judge" ELSE "failed"
    /\ UNCHANGED <<heard, texts, textTimer, taken, tools, toolTimer, events, output, plan, usage>>

\* completeAfterTurn: so is a tool call without a result (toolHungWithoutResult).
Hung ==
    LET kinds == {events[i].kind : i \in DOMAIN events}
    IN  kinds \cap {"use", "todo"} # {} /\ "result" \notin kinds

Judge ==
    /\ turn = "judge" /\ turn' = IF Hung THEN "failed" ELSE "complete"
    /\ UNCHANGED <<heard, texts, textTimer, taken, tools, toolTimer, events, output, plan, usage, seen>>

\* completeTask: the output that was read replaces the one of the task.
Complete == FlushDelta("complete", "commit")

Commit ==
    /\ turn = "commit" /\ taken["turn"] = <<>> /\ turn' = "completed"
    /\ output' = IF seen = <<>> THEN output ELSE seen
    /\ UNCHANGED <<heard, texts, textTimer, taken, tools, toolTimer, events, plan, usage, seen>>

\* onAgentSessionClosed: Unwire of both.
Close ==
    /\ turn \in {"completed", "failed"} /\ turn' = "closed"
    /\ Take("turn") /\ FlushTools
    /\ UNCHANGED <<heard, output, usage, seen>>

TimerStep == TimerTakes \/ TimerPersists \/ ToolTimer
TurnStep == PromptReturns \/ Flushed \/ Look \/ Judge \/ Complete \/ Commit \/ Close

Next ==
    \/ TimerStep \/ TurnStep \/ HearPlan \/ HearUsage \/ HearGoal
    \/ \E k \in Texts : HearText(k)
    \/ \E k \in Tools : HearTool(k)

\* A timer that was set fires, and a flush that has taken its blocks writes them.
Fairness ==
    /\ WF_streamVars(TimerTakes) /\ WF_streamVars(TimerPersists)
    /\ WF_streamVars(ToolTimer) /\ WF_streamVars(Flushed)

Spec == Init /\ [][Next]_streamVars /\ Fairness

------------------------------------------------------------------------------
\* Everything that an agent says or does in a turn comes to stand in the events of
\* the task, and exactly once, whichever of the timers, the end of the turn and
\* the closing of the session writes it (Flush in agent_stream.go and in
\* agent_toolcall.go).
TimesIn(blocks, n) == Len(SelectSeq(Numbers(blocks), LAMBDA m : m = n))

EverythingIsWritten ==
    \A n \in Chunks : (n <= Count /\ heard[n] # "usage") ~> [](TimesIn(events, n) = 1)

\* Before that, it is in exactly one place: in the buffer of its kind, in the hands
\* of one flush, or in the events; and it stands there once.
Held(blocks) == UNION {Range(blocks[i].of) : i \in DOMAIN blocks}

HeldOnce(blocks) ==
    \A i, j \in DOMAIN blocks : \A a \in DOMAIN blocks[i].of, b \in DOMAIN blocks[j].of :
        blocks[i].of[a] = blocks[j].of[b] => i = j /\ a = b

Places == <<texts, taken["timer"], taken["turn"], events>>

EachInOnePlace ==
    /\ (UNION {Held(Places[p]) : p \in 1..4}) \cup Range(tools)
         = {n \in 1..Count : heard[n] # "usage"}
    /\ \A p \in 1..4 :
          /\ HeldOnce(Places[p]) /\ Held(Places[p]) \cap Range(tools) = {}
          /\ \A q \in 1..4 : p # q => Held(Places[p]) \cap Held(Places[q]) = {}
    /\ \A i, j \in DOMAIN tools : tools[i] = tools[j] => i = j

\* A turn that has done something, and whose call has its result, is not taken for
\* one that did nothing or was cut off (the comment before flushDelta in
\* runACPTurn).
Productive == \E i \in DOMAIN heard : heard[i] \in {"text", "use", "todo", "result"}
CutOff == Called /\ \A i \in DOMAIN heard : heard[i] # "result"

JudgedOnTheWhole == [][(turn \in {"look", "judge"} /\ turn' = "failed") => (~Productive \/ CutOff)]_streamVars
===============================================================================
