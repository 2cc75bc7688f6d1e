------------------------------- MODULE AcpPlan -------------------------------
(* Plans and modes of a session with the Cursor agent (agent/acp_cursor.go,    *)
(* agent/acp_cursor_plan.go, applyMode in agent/acp.go).                       *)
(*                                                                             *)
(* Cursor sends its extension requests on the same stdout as the answers to    *)
(* the program's own requests. The bridge in front of the SDK handles an       *)
(* extension request on the reading path itself: while the card of a plan is   *)
(* undecided, nothing the agent writes is read. A switch of mode is a request  *)
(* whose answer must be read, so it is queued and sent after the reply. The    *)
(* agent may exit at any moment; a card that is open then is given up.         *)
EXTENDS Naturals, Sequences, SequencesExt

CONSTANTS
    MaxPlans,       \* bound: plans of the agent
    MaxSwitches,    \* bound: modes switched by the agent itself
    MaxWrites       \* bound: lists of todos written

PlanAssumption == {MaxPlans, MaxSwitches, MaxWrites} \subseteq Nat

Plans == 1..MaxPlans
Modes == {"agent", "plan", "ask"}
NoMode == "none"
Ids == {"t1", "t2"}
Statuses == {"pending", "completed"}

VARIABLES
    stdout,         \* lines the agent wrote and the bridge has not read
    handled,        \* the plan on the reading path, or 0
    card,           \* its card: "none", "shown", "approve", "decline" or "gone"
    fromMode,       \* ACPAgent.modeState.CurrentID when it was read
    plan,           \* what became of each plan
    setter,         \* the goroutine that sets the mode after a plan
    want,           \* the mode it sets
    asks,           \* plans whose session/set_mode the agent has not taken yet
    gone,           \* ACPAgent.done: the agent has exited
    agentMode,      \* the mode the agent is in
    currentID,      \* ACPAgent.modeState.CurrentID
    switches,       \* switches of the agent so far
    todos,          \* ACPAgent.cursorTodos: sequence of <<id, status>>
    last,           \* ghost: status of each id as the agent last gave it
    writes          \* lists of todos sent so far

planVars == <<stdout, handled, card, fromMode, plan, setter, want, asks, gone,
              agentMode, currentID, switches, todos, last, writes>>
todoVars == <<todos, last, writes>>

Answer(k) == <<"answer", k>>
CreatePlan(k) == <<"create_plan", k>>
ModeUpdate(m) == <<"mode", m>>
Lines == ({"answer", "create_plan"} \X Plans) \cup ({"mode"} \X Modes)

TypeOK ==
    /\ stdout \in Seq(Lines) /\ handled \in {0} \cup Plans
    /\ card \in {"none", "shown", "approve", "decline", "gone"} /\ fromMode \in Modes
    /\ plan \in [Plans -> {"no", "sent", "accepted", "cancelled", "failed"}]
    /\ setter \in [Plans -> {"no", "queued", "started", "asked", "answered", "done", "failed"}]
    /\ asks \subseteq Plans /\ gone \in BOOLEAN
    /\ want \in [Plans -> Modes \cup {NoMode}] /\ {agentMode, currentID} \subseteq Modes
    /\ switches \in 0..MaxSwitches /\ writes \in 0..MaxWrites
    /\ handled = 0 <=> card = "none"
    \* the list holds each id once, with the status the agent last gave it
    /\ \A i, j \in DOMAIN todos : todos[i][1] = todos[j][1] => i = j
    /\ ToSet(todos) = {<<i, last[i]>> : i \in {i \in Ids : last[i] # "no"}}

Init ==
    /\ stdout = <<>> /\ handled = 0 /\ card = "none" /\ fromMode = "plan"
    /\ plan = [k \in Plans |-> "no"] /\ setter = [k \in Plans |-> "no"]
    /\ want = [k \in Plans |-> NoMode] /\ asks = {} /\ gone = FALSE
    /\ agentMode = "plan" /\ currentID = "plan"
    /\ switches = 0 /\ todos = <<>> /\ last = [i \in Ids |-> "no"] /\ writes = 0

------------------------------------------------------------------------------
(* The agent. It goes on writing while it waits for a reply to a plan.         *)

AgentCreatesPlan(k) ==
    /\ ~gone /\ plan[k] = "no" /\ \A j \in 1..(k - 1) : plan[j] \in {"accepted", "cancelled"}
    /\ plan' = [plan EXCEPT ![k] = "sent"]
    /\ stdout' = Append(stdout, CreatePlan(k))
    /\ UNCHANGED <<handled, card, fromMode, setter, want, asks, gone, agentMode, currentID,
                   switches, todoVars>>

\* The agent changes its mode by itself and says so.
AgentSwitches(m) ==
    /\ ~gone /\ switches < MaxSwitches /\ m # agentMode
    /\ agentMode' = m /\ switches' = switches + 1
    /\ stdout' = Append(stdout, ModeUpdate(m))
    /\ UNCHANGED <<handled, card, fromMode, plan, setter, want, asks, gone, currentID, todoVars>>

\* The agent takes session/set_mode and answers, also when nobody waits any more.
AgentSetsMode(k) ==
    /\ ~gone /\ k \in asks
    /\ asks' = asks \ {k} /\ agentMode' = want[k]
    /\ stdout' = Append(stdout, Answer(k))
    /\ UNCHANGED <<handled, card, fromMode, plan, setter, want, gone, currentID, switches,
                   todoVars>>

\* What it wrote before can still be read.
AgentExits ==
    /\ ~gone /\ gone' = TRUE
    /\ UNCHANGED <<stdout, handled, card, fromMode, plan, setter, want, asks, agentMode,
                   currentID, switches, todoVars>>

------------------------------------------------------------------------------
(* The reading path (cursorExtBridge.Read and tryIntercept).                   *)

Read(line) == handled = 0 /\ stdout # <<>> /\ Head(stdout) = line /\ stdout' = Tail(stdout)

IdOf(t) == t[1]
At(list, id) == CHOOSE i \in DOMAIN list : IdOf(list[i]) = id
Named(list) == {IdOf(t) : t \in ToSet(list)}

\* create_plan: its list takes the place of the one that was remembered
\* (rememberCursorTodos), and a card goes up that blocks the reading path until
\* it is decided. The list names no id twice.
ReadPlan(k, list) ==
    /\ Read(CreatePlan(k))
    /\ handled' = k /\ card' = "shown" /\ fromMode' = currentID
    /\ todos' = list
    /\ last' = [i \in Ids |-> IF i \in Named(list) THEN list[At(list, i)][2] ELSE "no"]
    /\ UNCHANGED <<plan, setter, want, asks, gone, agentMode, currentID, switches, writes>>

\* awaitPlanConfirm returns with the decision of the user. An accepted plan is
\* executed in mode "agent", a declined one is worked on in mode "plan":
\* queueModeAfterExtReply.
DecidePlan(verdict) ==
    /\ card = "shown"
    /\ card' = verdict
    /\ LET m == IF verdict = "approve" THEN "agent"
                ELSE IF fromMode # "plan" THEN "plan" ELSE NoMode
       IN  /\ want' = [want EXCEPT ![handled] = m]
           /\ setter' = [setter EXCEPT ![handled] = IF m = NoMode THEN "no" ELSE "queued"]
    /\ UNCHANGED <<stdout, handled, fromMode, plan, asks, gone, agentMode, currentID, switches,
                   todoVars>>

\* It returns with an error when the agent has exited: no mode is queued. The
\* context of the reading path has no deadline.
AbandonPlan ==
    /\ card = "shown" /\ gone
    /\ card' = "gone"
    /\ UNCHANGED <<stdout, handled, fromMode, plan, setter, want, asks, gone, agentMode,
                   currentID, switches, todoVars>>

Decided == card \in {"approve", "decline", "gone"}
Outcome == CASE card = "approve" -> "accepted" [] card = "decline" -> "cancelled" [] OTHER -> "failed"

\* The switch is made by the handler, and the reply waits for it.
ReplyAfterSwitch ==
    /\ Decided
    /\ IF setter[handled] = "queued"
       THEN /\ setter' = [setter EXCEPT ![handled] = "started"]
            /\ UNCHANGED <<handled, card, plan>>
       ELSE /\ setter[handled] \in {"no", "done"}
            /\ plan' = [plan EXCEPT ![handled] = Outcome]
            /\ handled' = 0 /\ card' = "none"
            /\ UNCHANGED setter
    /\ UNCHANGED <<stdout, fromMode, want, asks, gone, agentMode, currentID, switches, todoVars>>

\* The reply is written, and the queued switch starts in a goroutine.
Reply ==
    /\ Decided
    /\ plan' = [plan EXCEPT ![handled] = Outcome]
    /\ setter' = [setter EXCEPT ![handled] = IF @ = "queued" THEN "started" ELSE @]
    /\ handled' = 0 /\ card' = "none"
    /\ UNCHANGED <<stdout, fromMode, want, asks, gone, agentMode, currentID, switches, todoVars>>

\* current_mode_update, by way of the SDK.
ReadMode(m) ==
    /\ Read(ModeUpdate(m))
    /\ currentID' = m
    /\ UNCHANGED <<handled, card, fromMode, plan, setter, want, asks, gone, agentMode, switches,
                   todoVars>>

\* An answer that comes after the time was up belongs to nobody.
ReadAnswer(k) ==
    /\ Read(Answer(k))
    /\ setter' = [setter EXCEPT ![k] = IF @ = "asked" THEN "answered" ELSE @]
    /\ UNCHANGED <<handled, card, fromMode, plan, want, asks, gone, agentMode, currentID,
                   switches, todoVars>>

------------------------------------------------------------------------------
(* applyMode: the request, and the write of CurrentID after the answer, which  *)
(* does not look at what current_mode_update wrote in between.                 *)

AskMode(k) ==
    /\ setter[k] = "started"
    /\ setter' = [setter EXCEPT ![k] = "asked"] /\ asks' = asks \cup {k}
    /\ UNCHANGED <<stdout, handled, card, fromMode, plan, want, gone, agentMode, currentID,
                   switches, todoVars>>

\* No answer: the agent does not know the mode or refuses it, it has exited, or
\* the time of the goroutine (InitTimeout) is up, which the agent does not learn.
ModeFails(k) ==
    /\ setter[k] \in {"started", "asked"}
    /\ setter' = [setter EXCEPT ![k] = "failed"]
    /\ UNCHANGED <<stdout, handled, card, fromMode, plan, want, asks, gone, agentMode, currentID,
                   switches, todoVars>>

WriteMode(k) ==
    /\ setter[k] = "answered"
    /\ setter' = [setter EXCEPT ![k] = "done"] /\ currentID' = want[k]
    /\ UNCHANGED <<stdout, handled, card, fromMode, plan, want, asks, gone, agentMode, switches,
                   todoVars>>

------------------------------------------------------------------------------
(* The list of todos (handleCursorUpdateTodos, mergeCursorTodos).              *)

\* As MergeTodos, with the patch behind the list.
AppendTodos(base, patch) == base \o patch

\* Order of first appearance, and the later entry of an id wins.
MergeTodos(base, patch) ==
    [i \in DOMAIN base |-> IF IdOf(base[i]) \in Named(patch)
                           THEN patch[At(patch, IdOf(base[i]))] ELSE base[i]]
    \o FlattenSeq([i \in DOMAIN patch |-> IF IdOf(patch[i]) \in Named(base)
                                          THEN <<>> ELSE <<patch[i]>>])

\* update_todos, with a list that names no id twice.
UpdateTodos(list, merge) ==
    /\ handled = 0 /\ writes < MaxWrites
    /\ writes' = writes + 1
    /\ todos' = IF merge THEN MergeTodos(todos, list) ELSE list
    /\ last' = [i \in Ids |-> IF i \in Named(list) THEN list[At(list, i)][2]
                              ELSE IF merge THEN last[i] ELSE "no"]
    /\ UNCHANGED <<stdout, handled, card, fromMode, plan, setter, want, asks, gone, agentMode,
                   currentID, switches>>

TodoLists == {<<>>} \cup {<<t>> : t \in Ids \X Statuses}
             \cup {<<<<"t2", s>>, <<"t1", "completed">>>> : s \in Statuses}

\* A plan comes with its own list or, as phases are not remembered, with none.
PlanLists == {<<>>, <<<<"t2", "pending">>>>}

------------------------------------------------------------------------------
Next ==
    \/ \E k \in Plans : \/ AgentCreatesPlan(k) \/ AgentSetsMode(k)
                        \/ ReadAnswer(k) \/ AskMode(k) \/ WriteMode(k) \/ ModeFails(k)
    \/ \E k \in Plans, list \in PlanLists : ReadPlan(k, list)
    \/ \E m \in Modes : AgentSwitches(m) \/ ReadMode(m)
    \/ \E v \in {"approve", "decline"} : DecidePlan(v)
    \/ AgentExits \/ AbandonPlan \/ Reply
    \/ \E list \in TodoLists, merge \in BOOLEAN : UpdateTodos(list, merge)

\* The reading path goes on unless it waits for the user, and does not wait for
\* him when the agent is gone; a request for a mode is sent, answered by the agent
\* while it lives, and its answer is processed.
ReaderStep == \/ Reply \/ AbandonPlan
              \/ \E k \in Plans : ReadAnswer(k) \/ \E list \in PlanLists : ReadPlan(k, list)
              \/ \E m \in Modes : ReadMode(m)
SetterStep(k) == AskMode(k) \/ AgentSetsMode(k) \/ WriteMode(k) \/ (gone /\ ModeFails(k))

\* Both goroutines go on, and the agent answers a request for its mode.
Fairness ==
    /\ WF_planVars(ReaderStep)
    /\ \A k \in Plans : WF_planVars(SetterStep(k))

Spec == Init /\ [][Next]_planVars /\ Fairness

\* A plan that the user has decided on, or whose agent has exited, is answered,
\* and the switch of mode that belongs to the decision happens or fails, unless a
\* later card is left open: the reply does not wait for an answer that only the
\* same reading path could bring (tryIntercept in acp_cursor.go, awaitPlanConfirm
\* and flushPendingModeAfterExtReply in acp_cursor_plan.go).
PlanIsCarriedOut ==
    \A k \in Plans :
        (handled = k /\ (card # "shown" \/ gone))
            ~> (plan[k] # "sent" /\ (setter[k] \in {"no", "done", "failed"} \/ card = "shown"))

\* Until then it is in hand: a plan without a reply is still to be read or is
\* being handled, and only so, and a queued switch of mode belongs to the plan
\* whose reply is next, which will start it (tryIntercept, queueModeAfterExtReply).
PlansAreInHand ==
    \A k \in Plans :
        /\ plan[k] = "sent" <=> handled = k \/ Contains(stdout, CreatePlan(k))
        /\ setter[k] = "queued" => handled = k /\ card \in {"approve", "decline"}
===============================================================================
