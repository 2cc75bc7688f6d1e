----------------------------- MODULE Checkpoints ------------------------------
(* What a rewind gives back (core/checkpoint.go, the derivation of changes in  *)
(* core/feedback.go, postRewind in api/feedback.go). Before the agent begins,  *)
(* the files that differ from HEAD are copied; when a turn ends, the files     *)
(* that the events say it changed are. A rewind to turn n takes each file that *)
(* was changed since then from the newest copy of an earlier turn, else from   *)
(* the first copy, else from HEAD. Turns are counted by the user's messages in *)
(* the events, which come in while an earlier turn still runs, and a copy that *)
(* exists is never made again. The events of the tool calls come late: they    *)
(* wait in the wire for up to 200 ms (toolCallWire in agent_toolcall.go), and  *)
(* the end of a turn does not write them out.                                  *)
(* The agent changes files by its file tools only: what a shell command does   *)
(* is not derived (the header of feedback.go says so).                         *)
EXTENDS Integers, FiniteSets, FiniteSetsExt

CONSTANTS
    Files,
    MaxTurns,       \* bound: messages of the user, the first included
    MaxMessages,    \* bound: messages sent while a turn runs
    MaxCancels,     \* bound: cancelled turns
    MaxRewinds,     \* bound: rewinds
    MaxEdits        \* bound: changes made by the user between two turns

CheckpointsAssumption ==
    /\ MaxTurns \in Nat \ {0}
    /\ MaxMessages \in Nat /\ MaxCancels \in Nat /\ MaxRewinds \in Nat /\ MaxEdits \in Nat

\* Contents: that of HEAD, two of the user, and one for each turn of the agent.
None == -1
Absent == 0
OfHead == 1
OfUser == 2
EditOfUser == 3
OfTurn(k) == 3 + k
Contents == Absent..OfTurn(MaxTurns)
Turns == 1..MaxTurns

VARIABLES
    head,           \* HEAD when the task began
    tree,           \* the worktree
    pre,            \* copies made before the task
    snaps,          \* copies made of each turn, Absent for a file in its list of deleted ones
    claims,         \* what the tool calls in the events of each turn say of a file
    pending,        \* what the tool calls that wait in the wire will say of it
    turn,           \* messages of the user in the events
    serving,        \* the message that is, or was last, worked on
    status,         \* of the task
    agent,          \* the agent's process
    messages, cancels, rewinds, edits,      \* how often so far
    began,          \* history: the worktree when the work on a message began
    worked,         \* history: the files changed by the work on a message
    late            \* history: files with a call in the wire when a turn ended

checkVars == <<head, tree, pre, snaps, claims, pending, turn, serving, status, agent, messages,
               cancels, rewinds, edits, began, worked, late>>
copies == <<head, pre, snaps>>
calls == <<claims, pending>>
counts == <<messages, cancels, rewinds, edits>>
history == <<began, worked, late>>

\* A call has been made and has no result, or it has succeeded. One that failed
\* says nothing (effectiveFileOp).
Sayings == {"none", "called", "done"}
Unclaimed == [f \in Files |-> "none"]
NoCopy == [f \in Files |-> None]

TypeOK ==
    /\ head \in [Files -> {Absent, OfHead}] /\ tree \in [Files -> Contents]
    /\ pre \in [Files -> Contents \cup {None}]
    /\ snaps \in [Turns -> [Files -> Contents \cup {None}]]
    /\ claims \in [Turns -> [Files -> Sayings]] /\ pending \in [Files -> Sayings]
    /\ turn \in 0..MaxTurns /\ serving \in 0..turn
    /\ status \in {"new", "running", "waiting", "ended"} /\ agent \in {"gone", "working"}
    /\ messages \in 0..MaxMessages /\ cancels \in 0..MaxCancels
    /\ rewinds \in 0..MaxRewinds /\ edits \in 0..MaxEdits

Init ==
    /\ head \in [Files -> {Absent, OfHead}]
    /\ \E dirty \in SUBSET Files, gone \in SUBSET Files :
           tree = [f \in Files |-> IF f \in gone THEN Absent ELSE IF f \in dirty THEN OfUser ELSE head[f]]
    /\ pre = NoCopy /\ snaps = [k \in Turns |-> NoCopy]
    /\ claims = [k \in Turns |-> Unclaimed] /\ pending = Unclaimed
    /\ turn = 0 /\ serving = 0 /\ status = "new" /\ agent = "gone"
    /\ messages = 0 /\ cancels = 0 /\ rewinds = 0 /\ edits = 0
    /\ began = [k \in Turns |-> tree] /\ worked = [k \in Turns |-> {}] /\ late = {}

------------------------------------------------------------------------------
(* Copies.                                                                     *)

\* CaptureBaseline: the files that "git status" lists; one that the user deleted
\* cannot be copied.
CaptureBaseline ==
    pre' = [f \in Files |-> IF tree[f] # head[f] /\ tree[f] # Absent THEN tree[f] ELSE None]

\* DeriveFileChanges: the files of a turn for which not every call failed.
Changed(k) == {f \in Files : claims[k][f] # "none"}

\* CaptureTurnEnd, for the number of messages in the events.
CaptureTurnEnd ==
    snaps' = IF turn = 0 \/ snaps[turn] # NoCopy THEN snaps
             ELSE [snaps EXCEPT ![turn] = [f \in Files |-> IF f \in Changed(turn) THEN tree[f] ELSE None]]

\* As Before, for a reader that does not look into the list of deleted files.
BeforeWithoutDeleted(n, f) ==
    LET held == {k \in 1..(n - 1) : snaps[k][f] \notin {None, Absent}}
    IN  IF held # {} THEN snaps[Max(held)][f] ELSE IF pre[f] # None THEN pre[f] ELSE head[f]

\* assembledBefore: the file before turn n.
Before(n, f) ==
    LET held == {k \in 1..(n - 1) : snaps[k][f] # None}
    IN  IF held # {} THEN snaps[Max(held)][f] ELSE IF pre[f] # None THEN pre[f] ELSE head[f]

ChangedSince(n) == UNION {Changed(k) : k \in n..MaxTurns}

------------------------------------------------------------------------------
(* Turns.                                                                      *)

\* The first turn: the baseline is taken before the agent starts.
Begin ==
    /\ status = "new" /\ CaptureBaseline
    /\ turn' = 1 /\ serving' = 1 /\ status' = "running" /\ agent' = "working"
    /\ began' = [began EXCEPT ![1] = tree]
    /\ UNCHANGED <<head, tree, snaps, calls, counts, worked, late>>

\* onUpdate: the agent calls a tool that writes or deletes a file. What it says of
\* the file waits in the wire.
Call(f) ==
    /\ agent = "working" /\ status # "waiting" /\ pending[f] = "none"
    /\ pending' = [pending EXCEPT ![f] = "called"]
    /\ UNCHANGED <<copies, tree, claims, turn, serving, status, agent, counts, history>>

\* The events that may hold a call which the agent has made in the work on its message.
Current == serving..turn

\* The tool does its work. The call waits in the wire, or is in the events already.
Edit(f, c) ==
    /\ agent = "working" /\ status # "waiting"
    /\ \/ /\ pending[f] # "none"
          /\ pending' = [pending EXCEPT ![f] = "done"] /\ UNCHANGED claims
       \/ \E k \in Current :
             /\ claims[k][f] = "called"
             /\ claims' = [claims EXCEPT ![k][f] = "done"] /\ UNCHANGED pending
    /\ tree' = [tree EXCEPT ![f] = c]
    /\ worked' = [worked EXCEPT ![serving] = @ \cup {f}]
    /\ UNCHANGED <<copies, turn, serving, status, agent, counts, began, late>>

\* A call has failed: its result joins it in the wire, or in the events, where it may
\* come after the turn has ended.
CallFails(f) ==
    /\ \/ /\ pending[f] = "called"
          /\ pending' = [pending EXCEPT ![f] = "none"] /\ UNCHANGED claims
       \/ \E k \in Turns :
             /\ claims[k][f] = "called"
             /\ claims' = [claims EXCEPT ![k][f] = "none"] /\ UNCHANGED pending
    /\ UNCHANGED <<copies, tree, turn, serving, status, agent, counts, history>>

\* Flush of toolCallWire, 200 ms after the first call that waits: the calls count for
\* the turn of the last message in the events. No end of a turn waits for it.
Flush ==
    /\ pending # Unclaimed /\ pending' = Unclaimed
    /\ claims' = [claims EXCEPT ![turn] =
          [f \in Files |-> IF pending[f] = "none" \/ claims[turn][f] = "done" THEN claims[turn][f]
                           ELSE pending[f]]]
    /\ UNCHANGED <<copies, tree, turn, serving, status, agent, counts, history>>

\* The agent asks for permission, and is answered.
Ask ==
    /\ status = "running" /\ status' = "waiting"
    /\ UNCHANGED <<copies, tree, calls, turn, serving, agent, counts, history>>

Answer ==
    /\ status = "waiting" /\ status' = "running"
    /\ UNCHANGED <<copies, tree, calls, turn, serving, agent, counts, history>>

\* ResumeRich while the task runs: the message is in the events at once, its turn
\* waits in the queue.
Message ==
    /\ status = "running" /\ turn < MaxTurns /\ messages < MaxMessages
    /\ turn' = turn + 1 /\ messages' = messages + 1
    /\ UNCHANGED <<copies, tree, calls, serving, status, agent, cancels, rewinds, edits, history>>

\* transition to a terminal state, after the agent has returned. What waits in the wire
\* stays there (flushDelta writes out the text only).
Finish ==
    /\ status = "running" /\ status' = "ended" /\ agent' = "gone" /\ CaptureTurnEnd
    /\ late' = late \cup {f \in Files : pending[f] # "none"}
    /\ UNCHANGED <<head, tree, pre, calls, turn, serving, counts, began, worked>>

\* Cancel: the terminal state, with its copy, comes before the agent is stopped.
\* Turns that wait are dropped.
Cancel ==
    /\ status \in {"running", "waiting"} /\ cancels < MaxCancels /\ cancels' = cancels + 1
    /\ status' = "ended" /\ serving' = turn /\ CaptureTurnEnd
    /\ UNCHANGED <<head, tree, pre, calls, turn, agent, messages, rewinds, edits, history>>

AgentStops ==
    /\ status = "ended" /\ agent = "working" /\ agent' = "gone"
    /\ UNCHANGED <<copies, tree, calls, turn, serving, status, counts, history>>

\* The next message of the queue, or a new one (ResumeRich, which takes the copy
\* of the turn before if there is none).
Resume ==
    /\ status = "ended" /\ agent = "gone"
    /\ \/ serving < turn /\ UNCHANGED <<snaps, turn>>
       \/ serving = turn /\ turn < MaxTurns /\ turn' = turn + 1 /\ CaptureTurnEnd
    /\ serving' = serving + 1 /\ status' = "running" /\ agent' = "working"
    /\ began' = [began EXCEPT ![serving + 1] = tree]
    /\ UNCHANGED <<head, tree, pre, calls, counts, worked, late>>

UserEdits(f) ==
    /\ status = "ended" /\ edits < MaxEdits /\ edits' = edits + 1
    /\ tree' = [tree EXCEPT ![f] = EditOfUser]
    /\ UNCHANGED <<copies, calls, turn, serving, status, agent, messages, cancels, rewinds, history>>

------------------------------------------------------------------------------
(* postRewind, of everything that was changed since or of one such file. The   *)
(* copies stay as they are.                                                    *)

Restore(n, set) ==
    /\ status \in {"ended", "waiting"} /\ n <= turn /\ rewinds < MaxRewinds
    /\ rewinds' = rewinds + 1
    /\ tree' = [f \in Files |-> IF f \in set THEN Before(n, f) ELSE tree[f]]
    /\ UNCHANGED <<copies, calls, turn, serving, status, agent, messages, cancels, edits, history>>

RewindToTurn(n) == Restore(n, ChangedSince(n))
RewindFileToTurn(n, f) == f \in ChangedSince(n) /\ Restore(n, {f})

Next ==
    \/ Begin \/ Ask \/ Answer \/ Message \/ Flush \/ Finish \/ Cancel \/ AgentStops \/ Resume
    \/ \E f \in Files :
           \/ Call(f) \/ Edit(f, OfTurn(serving)) \/ Edit(f, Absent) \/ CallFails(f) \/ UserEdits(f)
           \/ \E n \in Turns : RewindFileToTurn(n, f)
    \/ \E n \in Turns : RewindToTurn(n)

Spec == Init /\ [][Next]_checkVars

------------------------------------------------------------------------------
\* Every turn had its message to itself, and none was cut off. A file that the
\* user had deleted before the task was in no copy.
Calm == messages = 0 /\ cancels = 0
Copied(f) == began[1][f] # Absent \/ head[f] = Absent
WorkedOn(n, f) == \E k \in n..MaxTurns : f \in worked[k]

Called(n, f) == \E k \in n..MaxTurns : claims[k][f] = "called"

\* No call on the file is in the wire, or was when a turn ended.
Told(f) == pending[f] = "none" /\ f \notin late

\* The first rewind to a turn gives every file that the agent changed since then
\* the content it had when the work on that turn began, and leaves a file that the
\* agent neither changed nor is about to as the user has it now. This is claimed of
\* a file whose calls were all written to the events before their turn ended
\* (RewindToTurn and CaptureTurnEnd in core/checkpoint.go, DeriveFileChanges in
\* core/feedback.go).
RewindIsExact ==
    [][\A n \in Turns : (RewindToTurn(n) /\ Calm /\ rewinds = 0) =>
           \A f \in Files : Told(f) =>
               IF WorkedOn(n, f) THEN (edits = 0 /\ Copied(f)) => tree'[f] = began[n][f]
               ELSE ~Called(n, f) => tree'[f] = tree[f]]_checkVars

\* The same of every file, once no call waits in the wire (the comment of
\* CaptureTurnEnd in core/checkpoint.go: what the turn really touched is copied). It
\* does not hold: a change that comes into the events when its turn has been copied
\* counts for a turn without a copy of it, or for the next turn.
EveryRewindIsExact ==
    [][\A n \in Turns :
           (RewindToTurn(n) /\ Calm /\ rewinds = 0 /\ edits = 0 /\ pending = Unclaimed) =>
           \A f \in Files : (WorkedOn(n, f) /\ Copied(f)) => tree'[f] = began[n][f]]_checkVars

\* The same of a rewind that comes after other rewinds (the comment of
\* RewindToTurn in core/checkpoint.go).
RewindsCompose ==
    [][\A n \in Turns : (RewindToTurn(n) /\ Calm /\ edits = 0) =>
           \A f \in Files : (Told(f) /\ WorkedOn(n, f) /\ Copied(f)) =>
               tree'[f] = began[n][f]]_checkVars
===============================================================================
