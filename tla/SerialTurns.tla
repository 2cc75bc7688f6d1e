---------------------------- MODULE SerialTurns ----------------------------
(***************************************************************************)
(* What the turn queue of one task promises its callers, with no mutex, no *)
(* busy flag and no goroutine: submitted turns wait in one line, at most   *)
(* one of them is active, they become active in the order in which they    *)
(* were submitted, and a flush drops exactly those that still wait.        *)
(*                                                                         *)
(* TurnQueue (internal/core/turn_queue.go) implements this module, and     *)
(* TaskLifecycle uses it as the queue of its task.                         *)
(***************************************************************************)
EXTENDS Sequences

CONSTANT Turns      \* the turns a caller may submit

VARIABLES
    pending,        \* the turns that wait, in submission order
    fate            \* where each turn is in its life

vars == <<pending, fate>>

Fates == {"new", "queued", "active", "done", "dropped"}

\* The turns that are in progress.
Active == {t \in Turns : fate[t] = "active"}

Waiting == {pending[i] : i \in DOMAIN pending}

TypeOK ==
    /\ pending \in Seq(Turns)
    /\ fate \in [Turns -> Fates]

Init ==
    /\ pending = <<>>
    /\ fate = [t \in Turns |-> "new"]

\* A caller adds turn t to the end of the line.
Submit(t) ==
    /\ fate[t] = "new"
    /\ pending' = Append(pending, t)
    /\ fate' = [fate EXCEPT ![t] = "queued"]

\* The first turn of the line becomes the active one.
Begin ==
    /\ pending # <<>>
    /\ Active = {}
    /\ pending' = Tail(pending)
    /\ fate' = [fate EXCEPT ![Head(pending)] = "active"]

\* The active turn ends.
Finish(t) ==
    /\ fate[t] = "active"
    /\ fate' = [fate EXCEPT ![t] = "done"]
    /\ UNCHANGED pending

\* Everything that still waits is dropped; the active turn is left alone.
Flush ==
    /\ pending # <<>>
    /\ pending' = <<>>
    /\ fate' = [t \in Turns |-> IF t \in Waiting THEN "dropped" ELSE fate[t]]

Next ==
    \/ \E t \in Turns : Submit(t) \/ Finish(t)
    \/ Begin
    \/ Flush

Spec == Init /\ [][Next]_vars

=============================================================================
