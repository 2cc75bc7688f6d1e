------------------------------ MODULE AcpSession ------------------------------
(* A session with an agent process that speaks ACP (agent/acp.go), and the     *)
(* two layers above it: sessionAdapter (agent/session.go), which turns the     *)
(* death of the process into an event, and sessionBackedAdapter                *)
(* (agent/sessionadapter.go), which the task runner holds.                     *)
(*                                                                             *)
(* The process is spawned by the first NewSession, may die at any time, and    *)
(* asks for permissions while a prompt runs. Each request is a goroutine of    *)
(* the SDK that registers a channel in the table of pending requests and       *)
(* waits on it; decisions, the end of the process and Close all reach for it.  *)
(* A request may be repeated under the id of the same tool call.               *)
EXTENDS Naturals

CONSTANTS
    Calls,          \* tool calls of the agent
    NoAsking,       \* no request is registered for a call
    MaxPrompts      \* bound: prompts of the session

\* A request for permission: the first or the second one about a call.
Askings == Calls \X (1..2)
CallOf(r) == r[1]

AcpAssumption == MaxPrompts \in Nat /\ NoAsking \notin Askings

VARIABLES
    process,        \* the agent process: "none", "up" or "down"
    done,           \* ACPAgent.done is closed
    opening,        \* how far NewSession is, or how it ended
    closing,        \* how far Close is
    layer,          \* what stands above the agent, and what it has registered
    closedByUs,     \* sessionAdapter.closed
    exited,         \* sessionAdapter.exited
    told,           \* sessionAdapter.errDelivered
    upDone,         \* sessionBackedAdapter.done is closed
    prompt,         \* the prompt in flight
    prompts,        \* prompts sent so far
    ask,            \* state of the goroutine of each request
    pending,        \* ACPAgent.pendingPerms: call -> request whose channel it holds
    channel,        \* what was sent on the channel of a request
    carded          \* requests that reached the runner and are shown as a card

acpVars == <<process, done, opening, closing, layer, closedByUs, exited, told,
             upDone, prompt, prompts, ask, pending, channel, carded>>

lifeVars == <<process, done, opening, closing>>
layerVars == <<layer, closedByUs, exited, told, upDone>>
promptVars == <<prompt, prompts>>
permVars == <<ask, pending, channel, carded>>

Ended == {"allowed", "cancelled", "auto"}

TypeOK ==
    /\ process \in {"none", "up", "down"}
    /\ opening \in {"no", "handshake", "session", "model", "mode", "open", "failed"}
    /\ closing \in {"no", "begun", "waiting", "sweep", "clear", "closed"}
    /\ layer \in {"none", "wrapped", "heard", "wired"}
    /\ {done, closedByUs, exited, told, upDone} \subseteq BOOLEAN
    /\ prompt \in {"idle", "sent", "again", "failed"} /\ prompts \in 0..MaxPrompts
    /\ ask \in [Askings -> {"no", "sent", "admitted", "registered", "waiting"} \cup Ended]
    /\ pending \in [Calls -> Askings \cup {NoAsking}]
    /\ channel \in [Askings -> {"empty", "allow", "deny"}]
    /\ carded \subseteq Askings
    \* an entry of the table belongs to a goroutine that will look at it
    /\ \A c \in Calls : pending[c] # NoAsking =>
           CallOf(pending[c]) = c /\ ask[pending[c]] \in {"registered", "waiting"}

Init ==
    /\ process = "none" /\ done = FALSE /\ opening = "no" /\ closing = "no"
    /\ layer = "none" /\ closedByUs = FALSE /\ exited = FALSE /\ told = FALSE /\ upDone = FALSE
    /\ prompt = "idle" /\ prompts = 0
    /\ ask = [r \in Askings |-> "no"] /\ pending = [c \in Calls |-> NoAsking]
    /\ channel = [r \in Askings |-> "empty"] /\ carded = {}

------------------------------------------------------------------------------
(* Opening: spawn, handshake, session, model, mode (openACPSession).           *)

\* startInternal up to the watcher; the process belongs to no turn's context.
Spawn ==
    /\ opening = "no"
    /\ process' = "up" /\ opening' = "handshake"
    /\ UNCHANGED <<done, closing, layerVars, promptVars, permVars>>

\* No such command, or no pipe: nothing was spawned.
SpawnFails ==
    /\ opening = "no"
    /\ opening' = "failed"
    /\ UNCHANGED <<process, done, closing, layerVars, promptVars, permVars>>

Handshake ==
    /\ opening = "handshake" /\ process = "up"
    /\ opening' = "session"
    /\ UNCHANGED <<process, done, closing, layerVars, promptVars, permVars>>

\* Initialize or Authenticate fails: Start closes the agent it has spawned.
HandshakeFails ==
    /\ opening = "handshake"
    /\ opening' = "failed" /\ closing' = "begun"
    /\ UNCHANGED <<process, done, layerVars, promptVars, permVars>>

\* session/load, session/resume or session/new answers.
SessionOpens ==
    /\ opening = "session" /\ process = "up"
    /\ opening' = "model"
    /\ UNCHANGED <<process, done, closing, layerVars, promptVars, permVars>>

\* applyModel: skipped, or session/set_config_option is answered.
ModelSettles ==
    /\ opening = "model" /\ process = "up"
    /\ opening' = "mode"
    /\ UNCHANGED <<process, done, closing, layerVars, promptVars, permVars>>

\* applyMode and requireAppliedMode.
ModeSettles ==
    /\ opening = "mode"
    /\ opening' = "open"
    /\ UNCHANGED <<process, done, closing, layerVars, promptVars, permVars>>

\* A lost session, an unknown model, a refused mode. openACPSession returns the
\* error and forgets the agent; sessionBackedAdapter has no session to close.
OpenFails ==
    /\ opening \in {"session", "model", "mode"}
    /\ opening' = "failed"
    /\ UNCHANGED <<process, done, closing, layerVars, promptVars, permVars>>

\* NewSessionAdapter, with its watcher of the agent's Done.
Wrap ==
    /\ opening = "open" /\ layer = "none"
    /\ layer' = "wrapped"
    /\ UNCHANGED <<lifeVars, closedByUs, exited, told, upDone, promptVars, permVars>>

\* As Hear, without looking at what came before.
HearLate ==
    /\ layer = "wrapped"
    /\ layer' = "heard"
    /\ UNCHANGED <<lifeVars, closedByUs, exited, told, upDone, promptVars, permVars>>

\* sessionAdapter.OnEvent: a death that came before is delivered now.
Hear ==
    /\ layer = "wrapped"
    /\ layer' = "heard"
    /\ told' = (told \/ exited) /\ upDone' = (upDone \/ (exited /\ ~told))
    /\ UNCHANGED <<lifeVars, closedByUs, exited, promptVars, permVars>>

\* WirePermission and its like register with sessionBackedAdapter.
Wire ==
    /\ layer = "heard" /\ closing = "no" /\ prompts = 0
    /\ layer' = "wired"
    /\ UNCHANGED <<lifeVars, closedByUs, exited, told, upDone, promptVars, permVars>>

\* The close callback takes the wires off: emitPerm has nobody to call.
Unwire ==
    /\ layer = "wired" /\ closing = "closed"
    /\ layer' = "heard"
    /\ UNCHANGED <<lifeVars, closedByUs, exited, told, upDone, promptVars, permVars>>

------------------------------------------------------------------------------
(* The end of the process, and who is told.                                    *)

\* The process exits or is killed, or drops its connection and is killed.
AgentDies ==
    /\ process = "up"
    /\ process' = "down"
    /\ UNCHANGED <<done, opening, closing, layerVars, promptVars, permVars>>

\* ACPAgent.watchExit: cmd.Wait returns, markDone.
WatchExit ==
    /\ process = "down" /\ ~done
    /\ done' = TRUE
    /\ UNCHANGED <<process, opening, closing, layerVars, promptVars, permVars>>

\* sessionAdapter.watchExit: an end that nobody asked for becomes an EventError,
\* on which sessionBackedAdapter closes its own done; without a listener the
\* fact is kept for OnEvent.
NoticeExit ==
    /\ layer # "none" /\ done /\ ~exited /\ ~closedByUs
    /\ exited' = TRUE
    /\ told' = (told \/ layer # "wrapped")
    /\ upDone' = (upDone \/ (layer # "wrapped" /\ ~told))
    /\ UNCHANGED <<lifeVars, layer, closedByUs, promptVars, permVars>>

------------------------------------------------------------------------------
(* Prompts (promptOnce).                                                       *)

SendPrompt ==
    /\ opening = "open" /\ layer = "wired" /\ ~upDone
    /\ prompt = "idle" /\ prompts < MaxPrompts
    /\ prompt' = "sent" /\ prompts' = prompts + 1
    /\ UNCHANGED <<lifeVars, layerVars, permVars>>

PromptEnds ==
    /\ prompt = "sent" /\ process = "up"
    /\ \A r \in Askings : ask[r] \in Ended \cup {"no"}
    /\ prompt' = "idle"
    /\ UNCHANGED <<lifeVars, layerVars, prompts, permVars>>

\* "peer disconnected": the same request is sent once more on the same connection.
Retry ==
    /\ prompt = "sent" /\ process = "down"
    /\ prompt' = "again"
    /\ UNCHANGED <<lifeVars, layerVars, prompts, permVars>>

PromptFails ==
    /\ prompt = "again"
    /\ prompt' = "failed"
    /\ UNCHANGED <<lifeVars, layerVars, prompts, permVars>>

------------------------------------------------------------------------------
(* Requests for permission (RequestPermission, Approve, Deny).                 *)

\* The agent asks, for the first time or again about the same call.
Send(r) ==
    /\ process = "up" /\ prompt = "sent" /\ ask[r] = "no"
    /\ r[2] = 2 => ask[<<CallOf(r), 1>>] # "no"
    /\ ask' = [ask EXCEPT ![r] = "sent"]
    /\ UNCHANGED <<lifeVars, layerVars, promptVars, pending, channel, carded>>

\* The handler reads the callback. After Close there is none: the first allow
\* option is taken.
Admit(r) ==
    /\ ask[r] = "sent"
    /\ ask' = [ask EXCEPT ![r] = IF closing = "closed" THEN "auto" ELSE "admitted"]
    /\ UNCHANGED <<lifeVars, layerVars, promptVars, pending, channel, carded>>

\* It registers its channel, over that of an earlier request about the call.
Register(r) ==
    /\ ask[r] = "admitted"
    /\ ask' = [ask EXCEPT ![r] = "registered"]
    /\ pending' = [pending EXCEPT ![CallOf(r)] = r]
    /\ UNCHANGED <<lifeVars, layerVars, promptVars, channel, carded>>

\* toolInputWait returns, at the latest after 300 ms (the text of the card is not
\* modelled). Then onPerm, through both layers; without wires nobody shows a card.
Show(r) ==
    /\ ask[r] = "registered"
    /\ ask' = [ask EXCEPT ![r] = "waiting"]
    /\ carded' = IF layer = "wired" /\ closing # "closed" THEN carded \cup {r} ELSE carded
    /\ UNCHANGED <<lifeVars, layerVars, promptVars, pending, channel>>

\* Approve and Deny: whoever takes the entry sends, so a channel of capacity one
\* never blocks.
Decide(c, verdict) ==
    /\ \E r \in carded : CallOf(r) = c
    /\ pending[c] # NoAsking
    /\ channel' = [channel EXCEPT ![pending[c]] = verdict]
    /\ pending' = [pending EXCEPT ![c] = NoAsking]
    /\ UNCHANGED <<lifeVars, layerVars, promptVars, ask, carded>>

Receive(r) ==
    /\ ask[r] = "waiting" /\ channel[r] # "empty"
    /\ ask' = [ask EXCEPT ![r] = IF channel[r] = "allow" THEN "allowed" ELSE "cancelled"]
    /\ UNCHANGED <<lifeVars, layerVars, promptVars, pending, channel, carded>>

\* As GiveUp, for a request that the table still holds.
GiveUpIfPending(r) ==
    /\ ask[r] = "waiting" /\ done /\ pending[CallOf(r)] = r
    /\ ask' = [ask EXCEPT ![r] = "cancelled"]
    /\ pending' = [pending EXCEPT ![CallOf(r)] = NoAsking]
    /\ UNCHANGED <<lifeVars, layerVars, promptVars, channel, carded>>

\* As GiveUp, and the entry stays.
GiveUpKeeping(r) ==
    /\ ask[r] = "waiting" /\ done
    /\ ask' = [ask EXCEPT ![r] = "cancelled"]
    /\ UNCHANGED <<lifeVars, layerVars, promptVars, pending, channel, carded>>

\* The agent is done; takePending drops whatever the table holds for the call.
GiveUp(r) ==
    /\ ask[r] = "waiting" /\ done
    /\ ask' = [ask EXCEPT ![r] = "cancelled"]
    /\ pending' = [pending EXCEPT ![CallOf(r)] = NoAsking]
    /\ UNCHANGED <<lifeVars, layerVars, promptVars, channel, carded>>

------------------------------------------------------------------------------
(* Close: polite, then by force, then the tables.                              *)

\* sessionBackedAdapter.Close and sessionAdapter.Close, for a session that was
\* opened.
BeginClose ==
    /\ opening = "open" /\ layer \in {"heard", "wired"} /\ closing = "no"
    /\ closing' = "begun" /\ closedByUs' = TRUE /\ upDone' = TRUE
    /\ UNCHANGED <<process, done, opening, layer, exited, told, promptVars, permVars>>

\* session/close with its three seconds, and the end of stdin.
CloseStdin ==
    /\ closing = "begun"
    /\ closing' = "waiting"
    /\ UNCHANGED <<process, done, opening, layerVars, promptVars, permVars>>

AwaitExit ==
    /\ closing = "waiting" /\ done
    /\ closing' = "sweep"
    /\ UNCHANGED <<process, done, opening, layerVars, promptVars, permVars>>

\* Five seconds are over: the process is killed.
Kill ==
    /\ closing = "waiting" /\ ~done
    /\ closing' = "sweep" /\ process' = "down"
    /\ UNCHANGED <<done, opening, layerVars, promptVars, permVars>>

\* All pending requests are denied and forgotten.
SweepPending ==
    /\ closing = "sweep"
    /\ closing' = "clear"
    /\ channel' = [r \in Askings |->
           IF pending[CallOf(r)] = r /\ channel[r] = "empty" THEN "deny" ELSE channel[r]]
    /\ pending' = [c \in Calls |-> NoAsking]
    /\ UNCHANGED <<process, done, opening, layerVars, promptVars, ask, carded>>

\* The callbacks go, done is closed, the context of the process
\* is cancelled.
ClearCallbacks ==
    /\ closing = "clear"
    /\ closing' = "closed" /\ done' = TRUE /\ process' = "down"
    /\ UNCHANGED <<opening, layerVars, promptVars, permVars>>

------------------------------------------------------------------------------
Next ==
    \/ Spawn \/ SpawnFails \/ Handshake \/ HandshakeFails \/ SessionOpens
    \/ ModelSettles \/ ModeSettles \/ OpenFails \/ Wrap \/ Hear \/ Wire \/ Unwire
    \/ AgentDies \/ WatchExit \/ NoticeExit
    \/ SendPrompt \/ PromptEnds \/ Retry \/ PromptFails
    \/ \E r \in Askings : Send(r) \/ Admit(r) \/ Register(r) \/ Show(r) \/ Receive(r) \/ GiveUp(r)
    \/ \E c \in Calls, verdict \in {"allow", "deny"} : Decide(c, verdict)
    \/ BeginClose \/ CloseStdin \/ AwaitExit \/ Kill \/ SweepPending \/ ClearCallbacks

\* What the handler of a request does by itself, and the two watchers.
HandlerStep(r) == Admit(r) \/ Register(r) \/ Show(r) \/ Receive(r) \/ GiveUp(r)
WatcherStep == WatchExit \/ NoticeExit

\* A call that has begun goes on: the handler of a request waits for nothing but
\* its card and the end of the agent, and the two watchers for nothing but the
\* exit of the process.
Fairness ==
    /\ WF_acpVars(WatcherStep)
    /\ \A r \in Askings : WF_acpVars(HandlerStep(r))

Spec == Init /\ [][Next]_acpVars /\ Fairness

\* The process is gone and the layers above listen.
Orphaned == process = "down" /\ layer \in {"heard", "wired"}

\* A session whose process died is known to be dead: sessionAdapter reports the
\* death whether it comes before or after OnEvent, and Close reports itself
\* (watchExit and OnEvent in session.go, markDone in sessionadapter.go).
DeathIsReported == Orphaned ~> upDone

\* The layer above is never left in the dark about a death that the watcher has
\* seen: once OnEvent has given it a listener, an exit that was noticed has been
\* told, and whoever was told has closed its own done (watchExit and OnEvent in
\* session.go, which look at each other's flags under one lock).
SeenDeathsAreTold ==
    /\ exited /\ layer \in {"heard", "wired"} => told
    /\ told => done /\ upDone

\* When the agent is done no request waits any more, also one that registered
\* after Close had swept the table, or whose channel a second request replaced
\* (RequestPermission and Close in acp.go).
RequestsEndWithTheAgent == done ~> \A r \in Askings : ask[r] \in Ended \cup {"no"}

\* A process whose session could not be opened does not outlive the attempt
\* (openACPSession in provider.go, createAdapterWithFallback in manager.go).
FailedOpenEndsTheProcess == opening = "failed" => process # "up" \/ closing # "no"
===============================================================================
