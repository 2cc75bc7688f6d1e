--------------------------- MODULE PermissionWire ---------------------------
(***************************************************************************)
(* The permission wire of one agent session (internal/core/agent_perm.go): *)
(* it turns the permission requests of the agent into decision cards of    *)
(* the task, one at a time, and carries the user's decision, or the        *)
(* timeout, back to the agent.                                             *)
(*                                                                         *)
(* Three kinds of goroutines run on each request: the agent's callback     *)
(* ("ask"), the handler of a user's decision ("solve") and the timer       *)
(* ("expire").  pw.mu covers the tables of the wire only; the card is in   *)
(* the task store, under the store's own mutex, and the adapter is called  *)
(* with no mutex held.  One step is what happens between two of those.     *)
(*                                                                         *)
(* Abstracted: a request's tool, recipes and summary are its kind, which   *)
(* stands for the fingerprint as well as for what "approve all of these"   *)
(* remembers; the 256 entries of the settled table never run out.          *)
(***************************************************************************)
EXTENDS Naturals, Sequences, FiniteSets, SequencesExt

CONSTANTS
    Reqs,           \* the permission requests of the session
    Kinds,          \* what they ask for
    KindOf,         \* the kind of each request
    NoReq,          \* no request
    Offered,        \* the decisions users send
    Faults,         \* what may go wrong: "adapter" (its Approve or Deny fails,
                    \* or there is no option to allow), "choice" (a choice that
                    \* is none of those offered)
    MaxTurns        \* bound: turns of the task that begin during the session

ASSUME NoReqAssumption == NoReq \notin Reqs
ASSUME KindAssumption == KindOf \in [Reqs -> Kinds]
ASSUME OfferedAssumption ==
    Offered \subseteq {"approve", "approve_session", "approve_same", "approve_turn", "deny"}
ASSUME FaultsAssumption == Faults \subseteq {"adapter", "choice"}
ASSUME MaxTurnsAssumption == MaxTurns \in Nat \ {0}

VARIABLES
    pending,        \* requests that wait for an answer
    queue,          \* those not displayed yet
    displayed,      \* the one whose card is shown, or about to be
    settled,        \* how each request was settled
    timer,          \* its timeout
    remembered,     \* kinds approved for the session and for the turn, and cooling
    closed,         \* Unwire was called
    status, card,   \* the task: its status and its current decision
    shown,          \* requests whose card has been shown: users know their ids
    answer,         \* what the agent was told
    pc,             \* where the goroutines are
    at,             \* the request whose card each of them is going to show
    choice,         \* the decision each handler carries
    turns           \* how many turns have begun

wire == <<pending, queue, displayed, settled, timer, remembered, closed>>
store == <<status, card, shown>>
vars == <<wire, store, answer, pc, at, choice, turns>>

-----------------------------------------------------------------------------

Roles == {"ask", "solve", "expire"}
Procs == Roles \X Reqs

Init ==
    /\ pending = {} /\ queue = <<>> /\ displayed = NoReq
    /\ settled = [r \in Reqs |-> "no"]
    /\ timer = [r \in Reqs |-> "none"]
    /\ remembered = [session |-> {}, turn |-> {}, cooling |-> {}]
    /\ closed = FALSE
    /\ status = "running" /\ card = NoReq /\ shown = {}
    /\ answer = [r \in Reqs |-> "none"]
    /\ pc = [p \in Procs |-> IF p[1] = "ask" THEN "new" ELSE "idle"]
    /\ at = [p \in Procs |-> NoReq]
    /\ choice = [r \in Reqs |-> "none"]
    /\ turns = 1

Goto(p, label) == pc' = [pc EXCEPT ![p] = label]

\* A goroutine that has shown its card, or its decision, is through with it.
Forget(p) == at' = [at EXCEPT ![p] = NoReq]
Decided(r) == choice' = [choice EXCEPT ![r] = "none"]

\* The agent is told; once it has been, it does not listen any more.
Tell(rs, what) ==
    answer' = [r \in Reqs |-> IF r \in rs /\ answer[r] = "none" THEN what ELSE answer[r]]

Settle(r, how) == settled' = [settled EXCEPT ![r] = how]

\* What an approval makes the wire remember: for its kind, and its scope.
Remember(r, ch) ==
    remembered' =
        CASE ch \in {"approve_session", "approve_same"} -> [remembered EXCEPT !.session = @ \cup {KindOf[r]}]
          [] ch = "approve_turn" -> [remembered EXCEPT !.turn = @ \cup {KindOf[r]}]
          [] OTHER -> remembered

-----------------------------------------------------------------------------
(* onPermissionRequest *)

Covered(r) == KindOf[r] \in remembered.session \cup remembered.turn

\* A request that goes on past tryAutoApprove: not covered, or its Approve failed.
Uncovered(r) == Covered(r) => "adapter" \in Faults

\* tryAutoApprove.
AutoApprove(r) ==
    /\ pc[<<"ask", r>>] = "new"
    /\ Covered(r)
    /\ Tell({r}, "approved")
    /\ Settle(r, "approved")
    /\ Goto(<<"ask", r>>, "done")
    /\ UNCHANGED <<pending, queue, displayed, timer, remembered, closed, store, at,
                   choice, turns>>

\* denyIfTimeoutCooldown: the same was just left unanswered for too long.
CoolDown(r) ==
    /\ pc[<<"ask", r>>] = "new"
    /\ Uncovered(r)
    /\ KindOf[r] \in remembered.cooling
    /\ Tell({r}, "denied")
    /\ Settle(r, "denied")
    /\ Goto(<<"ask", r>>, "done")
    /\ UNCHANGED <<pending, queue, displayed, timer, remembered, closed, store, at,
                   choice, turns>>

\* The cooldown of a kind runs out.
CoolDownEnds(k) ==
    /\ k \in remembered.cooling
    /\ remembered' = [remembered EXCEPT !.cooling = @ \ {k}]
    /\ UNCHANGED <<pending, queue, displayed, settled, timer, closed, store, answer, pc,
                   at, choice, turns>>

\* Mutant of Register: the displayed request is not looked at.
RegisterDisplaying(r) ==
    /\ pc[<<"ask", r>>] = "new"
    /\ Uncovered(r) /\ KindOf[r] \notin remembered.cooling /\ ~closed
    /\ pending' = pending \cup {r}
    /\ displayed' = r
    /\ at' = [at EXCEPT ![<<"ask", r>>] = r]
    /\ Goto(<<"ask", r>>, "show")
    /\ UNCHANGED <<queue, settled, timer, remembered, closed, store, answer, choice, turns>>

\* Register the request: behind the displayed one, or to be displayed.
Register(r) ==
    /\ pc[<<"ask", r>>] = "new"
    /\ Uncovered(r) /\ KindOf[r] \notin remembered.cooling /\ ~closed
    /\ pending' = pending \cup {r}
    /\ IF displayed # NoReq
       THEN /\ queue' = Append(queue, r)
            /\ Goto(<<"ask", r>>, "done")
            /\ UNCHANGED <<displayed, at>>
       ELSE /\ displayed' = r
            /\ at' = [at EXCEPT ![<<"ask", r>>] = r]
            /\ Goto(<<"ask", r>>, "show")
            /\ UNCHANGED queue
    /\ UNCHANGED <<settled, timer, remembered, closed, store, answer, choice, turns>>

-----------------------------------------------------------------------------
(* show, called by onPermissionRequest and by advance *)

\* setWaitingApproval: not for a task in a terminal status.
Show(p) ==
    /\ pc[p] = "show"
    /\ IF status = "terminal"
       THEN /\ Goto(p, "unshown")
            /\ UNCHANGED store
       ELSE /\ status' = "waiting_input"
            /\ card' = at[p]
            /\ shown' = shown \cup {at[p]}
            /\ Goto(p, "arm")
    /\ UNCHANGED <<wire, answer, at, choice, turns>>

\* show starts the timer of a request that nobody has answered meanwhile.
Arm(p) ==
    /\ pc[p] = "arm"
    /\ timer' = IF ~closed /\ at[p] \in pending /\ timer[at[p]] = "none"
                THEN [timer EXCEPT ![at[p]] = "armed"] ELSE timer
    /\ Goto(p, IF p[1] = "solve" THEN "idle" ELSE "done")
    /\ Forget(p)
    /\ UNCHANGED <<pending, queue, displayed, settled, remembered, closed, store,
                   answer, choice, turns>>

\* onPermissionRequest when show refuses: forget the request, deny it.
Unshown(r) ==
    /\ pc[<<"ask", r>>] = "unshown"
    /\ pending' = pending \ {r}
    /\ displayed' = NoReq
    /\ Tell({r}, "denied")
    /\ Goto(<<"ask", r>>, "done")
    /\ Forget(<<"ask", r>>)
    /\ UNCHANGED <<queue, settled, timer, remembered, closed, store, choice, turns>>

-----------------------------------------------------------------------------
(* advance, called by Resolve and by handleTimeout *)

\* Where advance returns to, and where it does when it could not go on.
Advanced(p) == IF p[1] = "solve" THEN "idle" ELSE "done"
NotAdvanced(p) == IF p[1] = "expire" THEN "clear" ELSE Advanced(p)

\* Mutant of Advance: the promoted request is left in the queue.
AdvanceKeepingHead(p) ==
    LET r == p[2] IN
    /\ pc[p] = "advance"
    /\ ~closed /\ displayed = r
    /\ IF queue = <<>>
       THEN /\ displayed' = NoReq
            /\ Goto(p, "back")
            /\ UNCHANGED at
       ELSE /\ displayed' = Head(queue)
            /\ at' = [at EXCEPT ![p] = Head(queue)]
            /\ Goto(p, "show")
    /\ UNCHANGED <<pending, queue, settled, timer, remembered, closed, store, answer,
                   choice, turns>>

\* advance, under pw.mu.
Advance(p) ==
    LET r == p[2] IN
    /\ pc[p] = "advance"
    /\ CASE closed \/ displayed # r ->
              /\ Goto(p, NotAdvanced(p))
              /\ UNCHANGED <<displayed, queue, at>>
         [] ~closed /\ displayed = r /\ queue = <<>> ->
              /\ displayed' = NoReq
              /\ Goto(p, "back")
              /\ UNCHANGED <<queue, at>>
         [] OTHER ->
              /\ displayed' = Head(queue)
              /\ queue' = Tail(queue)
              /\ at' = [at EXCEPT ![p] = Head(queue)]
              /\ Goto(p, "show")
    /\ UNCHANGED <<pending, settled, timer, remembered, closed, store, answer, choice, turns>>

\* backToRunning: only from the card of this request.
Back(p) ==
    LET applies == status = "waiting_input" /\ card = p[2] IN
    /\ pc[p] = "back"
    /\ status' = IF applies THEN "running" ELSE status
    /\ card' = IF applies THEN NoReq ELSE card
    /\ Goto(p, IF applies THEN Advanced(p) ELSE NotAdvanced(p))
    /\ UNCHANGED <<wire, shown, answer, at, choice, turns>>

\* advance when show refuses: deny the promoted request and all behind it.
GiveUp(p) ==
    LET lost == {at[p]} \cup ToSet(queue) IN
    /\ p[1] # "ask"
    /\ pc[p] = "unshown"
    /\ pending' = pending \ lost
    /\ queue' = <<>>
    /\ displayed' = NoReq
    /\ Tell(lost, "denied")
    /\ Goto(p, NotAdvanced(p))
    /\ Forget(p)
    /\ UNCHANGED <<settled, timer, remembered, closed, store, choice, turns>>

-----------------------------------------------------------------------------
(* Resolve *)

\* The request is taken out of the tables; whoever does that answers it.
Take(r) ==
    /\ pending' = pending \ {r}
    /\ timer' = [timer EXCEPT ![r] = IF @ = "armed" THEN "stopped" ELSE @]
    /\ queue' = IF displayed = r THEN queue ELSE RemoveFirst(queue, r)

\* Mutant of Resolve: the timer goes on and may still fire.
ResolveUntaken(r, ch) ==
    /\ pc[<<"solve", r>>] = "idle"
    /\ r \in shown /\ r \in pending
    /\ choice' = [choice EXCEPT ![r] = ch]
    /\ Goto(<<"solve", r>>, "drive")
    /\ UNCHANGED <<wire, store, answer, at, turns>>

\* A user decides about a card that was shown.
Resolve(r, ch) ==
    /\ pc[<<"solve", r>>] = "idle"
    /\ r \in shown /\ r \in pending
    /\ ch = "invalid" => "choice" \in Faults
    /\ Take(r)
    /\ choice' = [choice EXCEPT ![r] = ch]
    /\ Goto(<<"solve", r>>, "drive")
    /\ UNCHANGED <<displayed, settled, remembered, closed, store, answer, at, turns>>

\* The decision reaches the agent,
Drive(r) ==
    /\ pc[<<"solve", r>>] = "drive"
    /\ choice[r] # "invalid"
    /\ Tell({r}, IF choice[r] = "deny" THEN "denied" ELSE "approved")
    /\ Goto(<<"solve", r>>, "record")
    /\ UNCHANGED <<wire, store, at, choice, turns>>

\* and is recorded.
Record(r) ==
    /\ pc[<<"solve", r>>] = "record"
    /\ Settle(r, IF choice[r] = "deny" THEN "denied" ELSE "approved")
    /\ Remember(r, choice[r])
    /\ Goto(<<"solve", r>>, "advance")
    /\ Decided(r)
    /\ UNCHANGED <<pending, queue, displayed, timer, closed, store, answer, at, turns>>

\* It does not: settled as denied, and the display is not advanced.
DriveFails(r) ==
    /\ pc[<<"solve", r>>] = "drive"
    /\ choice[r] # "invalid"
    /\ "adapter" \in Faults
    /\ Settle(r, "denied")
    /\ Goto(<<"solve", r>>, "idle")
    /\ Decided(r)
    /\ UNCHANGED <<pending, queue, displayed, timer, remembered, closed, store, answer,
                   at, turns>>

\* A choice that is none: the request is put back, its timer stays stopped.
\* (The request of a card that was shown is the displayed one.)
DriveRefuses(r) ==
    /\ pc[<<"solve", r>>] = "drive"
    /\ choice[r] = "invalid"
    /\ pending' = pending \cup {r}
    /\ displayed' = r
    /\ Goto(<<"solve", r>>, "idle")
    /\ Decided(r)
    /\ UNCHANGED <<queue, settled, timer, remembered, closed, store, answer, at, turns>>

\* A decision on a settled request: nothing reaches the agent; an approval is
\* remembered for the next of its kind, for the session if it was denied.
Redeliver(r, ch) ==
    /\ pc[<<"solve", r>>] = "idle"
    /\ r \in shown /\ r \notin pending /\ settled[r] # "no"
    /\ Remember(r, IF ch = "approve" /\ settled[r] = "denied" THEN "approve_session"
                   ELSE IF ch = "approve_session" /\ settled[r] = "approved" THEN "approve"
                   ELSE ch)
    /\ Goto(<<"solve", r>>, "advance")
    /\ UNCHANGED <<pending, queue, displayed, settled, timer, closed, store, answer, at,
                   choice, turns>>

-----------------------------------------------------------------------------
(* handleTimeout *)

\* Mutant of Expire: a timer that fired just before it was stopped does not
\* look whether the request still waits.
ExpireUnchecked(r) ==
    /\ timer[r] # "none"
    /\ pc[<<"expire", r>>] = "idle"
    /\ timer' = [timer EXCEPT ![r] = "stopped"]
    /\ pending' = pending \ {r}
    /\ Settle(r, "denied")
    /\ Goto(<<"expire", r>>, "deny")
    /\ UNCHANGED <<queue, displayed, remembered, closed, store, answer, at, choice, turns>>

\* The timer fires; one that fired just before it was stopped finds nothing.
Expire(r) ==
    /\ timer[r] = "armed" /\ r \in pending
    /\ pc[<<"expire", r>>] = "idle"
    /\ timer' = [timer EXCEPT ![r] = "stopped"]
    /\ pending' = pending \ {r}
    /\ Settle(r, "denied")
    /\ Goto(<<"expire", r>>, "deny")
    /\ UNCHANGED <<queue, displayed, remembered, closed, store, answer, at, choice, turns>>

\* Deny, at best, and the cooldown of the kind.
ExpireDenies(r) ==
    /\ pc[<<"expire", r>>] = "deny"
    /\ Tell({r}, "denied")
    /\ remembered' = [remembered EXCEPT !.cooling = @ \cup {KindOf[r]}]
    /\ Goto(<<"expire", r>>, "advance")
    /\ UNCHANGED <<pending, queue, displayed, settled, timer, closed, store, at, choice,
                   turns>>

\* forceClearDecision: the card goes, whatever became of the wire.
ForceClear(r) ==
    /\ pc[<<"expire", r>>] = "clear"
    /\ card' = IF card = r THEN NoReq ELSE card
    /\ status' = IF card = r /\ status = "waiting_input" THEN "running" ELSE status
    /\ Goto(<<"expire", r>>, "done")
    /\ UNCHANGED <<wire, shown, answer, at, choice, turns>>

-----------------------------------------------------------------------------
(* The task and its session *)

\* The task is cancelled, with its card, or it completes or fails, without.
\* Either way transition makes the wire forget what was approved for the turn.
TurnEnds(keepsCard) ==
    /\ status # "terminal"
    /\ status' = "terminal"
    /\ card' = IF keepsCard THEN card ELSE NoReq
    /\ remembered' = [remembered EXCEPT !.turn = {}]
    /\ UNCHANGED <<pending, queue, displayed, settled, timer, closed, shown, answer, pc,
                   at, choice, turns>>

\* ResumeRich and setRunning.
TurnBegins ==
    /\ status = "terminal" /\ ~closed
    /\ turns < MaxTurns
    /\ turns' = turns + 1
    /\ status' = "running"
    /\ card' = NoReq
    /\ remembered' = [remembered EXCEPT !.turn = {}]
    /\ UNCHANGED <<pending, queue, displayed, settled, timer, closed, shown, answer, pc,
                   at, choice>>

\* Mutant of Unwire: what waits is left waiting.
UnwireSilently ==
    /\ ~closed
    /\ closed' = TRUE
    /\ pending' = {} /\ queue' = <<>> /\ displayed' = NoReq
    /\ timer' = [r \in Reqs |-> IF r \in pending /\ timer[r] = "armed" THEN "stopped"
                               ELSE timer[r]]
    /\ remembered' = [remembered EXCEPT !.turn = {}]
    /\ UNCHANGED <<settled, store, answer, pc, at, choice, turns>>

\* Unwire, when the session closes: what waits is denied.
Unwire ==
    /\ ~closed
    /\ closed' = TRUE
    /\ pending' = {} /\ queue' = <<>> /\ displayed' = NoReq
    /\ timer' = [r \in Reqs |-> IF r \in pending /\ timer[r] = "armed" THEN "stopped"
                               ELSE timer[r]]
    /\ remembered' = [remembered EXCEPT !.turn = {}]
    /\ Tell(pending, "denied")
    /\ UNCHANGED <<settled, store, pc, at, choice, turns>>

-----------------------------------------------------------------------------

\* The steps a goroutine takes once it has begun; the timer begins by itself.
Proceed(p) ==
    \/ Show(p) \/ Arm(p) \/ Advance(p) \/ Back(p) \/ GiveUp(p)
    \/ p[1] = "ask" /\ Unshown(p[2])
    \/ p[1] = "solve" /\ (Drive(p[2]) \/ Record(p[2]) \/ DriveRefuses(p[2]))
    \/ p[1] = "expire" /\ (Expire(p[2]) \/ ExpireDenies(p[2]) \/ ForceClear(p[2]))

Next ==
    \/ \E r \in Reqs :
          \/ AutoApprove(r) \/ CoolDown(r) \/ Register(r)
          \/ \E ch \in Offered \cup {"invalid"} : Resolve(r, ch)
          \/ \E ch \in Offered : Redeliver(r, ch)
          \/ DriveFails(r)
    \/ \E p \in Procs : Proceed(p)
    \/ \E k \in Kinds : CoolDownEnds(k)
    \/ \E keepsCard \in BOOLEAN : TurnEnds(keepsCard)
    \/ TurnBegins
    \/ Unwire

Spec == Init /\ [][Next]_vars

\* Goroutines go on and timers fire; nobody has to decide, and nothing has to
\* be asked, to end or to be closed.
FairSpec == Spec /\ \A p \in Procs : WF_vars(Proceed(p))

-----------------------------------------------------------------------------

TypeOK ==
    /\ pending \subseteq Reqs
    /\ queue \in Seq(Reqs)
    /\ displayed \in Reqs \cup {NoReq}
    /\ settled \in [Reqs -> {"no", "approved", "denied"}]
    /\ timer \in [Reqs -> {"none", "armed", "stopped"}]
    /\ remembered \in [session : SUBSET Kinds, turn : SUBSET Kinds, cooling : SUBSET Kinds]
    /\ closed \in BOOLEAN
    /\ status \in {"running", "waiting_input", "terminal"}
    /\ card \in Reqs \cup {NoReq}
    /\ shown \subseteq Reqs
    /\ answer \in [Reqs -> {"none", "approved", "denied"}]
    /\ pc \in [Procs -> {"new", "idle", "show", "arm", "unshown", "drive", "record",
                         "deny", "advance", "back", "clear", "done"}]
    /\ at \in [Procs -> Reqs \cup {NoReq}]
    /\ choice \in [Reqs -> Offered \cup {"invalid", "none"}]
    /\ turns \in 1 .. MaxTurns
    /\ \A i, j \in DOMAIN queue : queue[i] = queue[j] => i = j
    /\ ToSet(queue) \subseteq pending

\* Somebody is working on request r.
Busy(r) == \E role \in Roles : pc[<<role, r>>] \notin {"new", "idle", "done"}

\* What the wire reports as approved, the agent was told: a decision is never
\* crossed by the timeout, by the end of the session or by a second click.
ApprovedIsTold == \A r \in Reqs : settled[r] = "approved" => answer[r] = "approved"

\* A card that asks for a decision leads on: its request waits, or it is the
\* displayed one and a second click advances past it, or an answer is on its way.
CardLeadsOn ==
    status = "waiting_input" /\ ~closed =>
        \/ card \in pending
        \/ displayed = card /\ settled[card] # "no"
        \/ \E r \in Reqs : Busy(r)

\* What was settled stays settled, although every path overwrites the record:
\* neither a late timer nor a second click reverses a decision.
SettledOnce == [][\A r \in Reqs : settled[r] # "no" => settled'[r] = settled[r]]_vars

\* Every request is answered in the end, by a user, by its timeout, or because
\* the session is closed: the agent, which waits for it, does not hang as long
\* as its turn is not ended under it.  (An unusable choice stops the timeout.)
ChoicesAreUsable == \A r \in Reqs : [](choice[r] # "invalid")
EveryRequestIsAnswered ==
    ChoicesAreUsable =>
        \A r \in Reqs : (r \in pending) ~> (answer[r] # "none" \/ status = "terminal")

=============================================================================
