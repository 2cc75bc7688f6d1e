-------------------------------- MODULE Tunnel --------------------------------
(* The supervisor of the cloudflared process (auth/tunnel.go) with the tokens  *)
(* that go with its links (auth/token.go), driven by the handlers of           *)
(* api/tunnel.go, the chat commands of core/bridge.go and its own health loop. *)
(* Start holds the lock only while it stops the old tunnel and while it        *)
(* records the new one: two starts, or a start and a stop, overlap.            *)
EXTENDS Naturals, FiniteSets

CONSTANTS
    Starters,       \* goroutines that call Start: a handler or chat command, the health loop
    Healer,         \* the health loop
    MaxProcs,       \* bound: processes spawned, a later spawn fails
    MaxTokens,      \* bound: tokens issued, a later issue fails
    Failures        \* probes that must fail in a row

TunnelAssumption ==
    /\ Healer \in Starters /\ MaxProcs \in Nat /\ MaxTokens \in Nat
    /\ Failures \in Nat \ {0}

VARIABLES
    named,          \* the configured mode: a fixed host name
    healing,        \* the configured health loop
    cmd,            \* the process of the active tunnel, 0 when there is none
    token,          \* the token of the shown link, 0 when there is none
    procs,          \* every process ever spawned
    lost,           \* those whose host name no longer leads to them
    pidFile,        \* the process of the PID file, 0 when there is none
    watched,        \* processes a watch waits for
    issued,         \* tokens issued so far
    tokens,         \* tokens in the store
    call,           \* where each Start is, and what it holds
    streak          \* failed probes in a row

config == <<named, healing>>
active == <<cmd, token>>
tunnelVars == <<config, active, procs, lost, pidFile, watched, issued, tokens, call,
                streak>>

ProcIds == 1..MaxProcs
TokenIds == 1..MaxTokens
Steps == {"idle", "look", "kill", "stop", "issue", "spawn", "wait", "pid", "watch"}
NoCall == [at |-> "idle", saw |-> 0, token |-> 0, proc |-> 0]

Spawned == {p \in ProcIds : procs[p] # "none"}
Alive(p) == p \in ProcIds /\ procs[p] \in {"starting", "up"}

TypeOK ==
    /\ named \in BOOLEAN /\ healing \in BOOLEAN
    /\ cmd \in {0} \cup ProcIds /\ token \in {0} \cup TokenIds
    /\ procs \in [ProcIds -> {"none", "starting", "up", "dead"}]
    /\ lost \subseteq Spawned /\ pidFile \in {0} \cup ProcIds /\ watched \subseteq Spawned
    /\ issued \in 0..MaxTokens /\ tokens \subseteq 1..issued
    /\ call \in [Starters -> [at : Steps, saw : {0} \cup ProcIds,
                              token : {0} \cup TokenIds, proc : {0} \cup ProcIds]]
    /\ streak \in 0..Failures
    /\ cmd = 0 <=> token = 0
    /\ cmd # 0 => procs[cmd] \in {"up", "dead"}

Init ==
    /\ named \in BOOLEAN /\ healing \in BOOLEAN /\ cmd = 0 /\ token = 0
    /\ procs = [p \in ProcIds |-> "none"] /\ lost = {} /\ pidFile = 0 /\ watched = {}
    /\ issued = 0 /\ tokens = {} /\ call = [s \in Starters |-> NoCall] /\ streak = 0

------------------------------------------------------------------------------
(* Start: clean up, stop the old tunnel, issue a token, spawn, wait, record.   *)

At(s, step) == call[s].at = step
Goto(s, step) == call' = [call EXCEPT ![s].at = step]
Give(s) == call' = [call EXCEPT ![s] = NoCall]
Kill(p) == [procs EXCEPT ![p] = "dead"]

\* A handler or a chat command. The health loop begins in HealTick.
Begin(s) ==
    /\ s # Healer /\ At(s, "idle") /\ Cardinality(Spawned) < MaxProcs
    /\ Goto(s, "look")
    /\ UNCHANGED <<config, active, procs, lost, pidFile, watched, issued, tokens, streak>>

\* cleanupOrphans reads the active process under the lock, the file afterwards.
CleanLook(s) ==
    /\ At(s, "look")
    /\ call' = [call EXCEPT ![s].at = "kill", ![s].saw = cmd]
    /\ UNCHANGED <<config, active, procs, lost, pidFile, watched, issued, tokens, streak>>

CleanKill(s) ==
    /\ At(s, "kill")
    /\ Goto(s, "stop")
    /\ IF pidFile \notin {0, call[s].saw}
       THEN pidFile' = 0 /\ procs' = Kill(pidFile)
       ELSE UNCHANGED <<pidFile, procs>>
    /\ UNCHANGED <<config, active, lost, watched, issued, tokens, streak>>

\* As StopLocked, with the token of the link still shown.
StopKeepingToken ==
    /\ procs' = IF cmd = 0 THEN procs ELSE Kill(cmd)
    /\ cmd' = 0 /\ pidFile' = 0 /\ tokens' = {} /\ UNCHANGED token

\* stopLocked, by Start and by Stop. The watch of the process reaps it.
StopLocked ==
    /\ procs' = IF cmd = 0 THEN procs ELSE Kill(cmd)
    /\ cmd' = 0 /\ token' = 0 /\ pidFile' = 0 /\ tokens' = {}

StopOld(s) ==
    /\ At(s, "stop")
    /\ StopLocked /\ Goto(s, "issue")
    /\ UNCHANGED <<config, lost, watched, issued, streak>>

\* IssueForNewTunnel forgets every other token, Issue keeps them.
IssueAlone == issued < MaxTokens /\ issued' = issued + 1 /\ tokens' = {issued + 1}

IssueToken(s) ==
    /\ At(s, "issue")
    /\ \/ IssueAlone /\ call' = [call EXCEPT ![s].at = "spawn", ![s].token = issued + 1]
       \/ Give(s) /\ UNCHANGED <<issued, tokens>>
    /\ UNCHANGED <<config, active, procs, lost, pidFile, watched, streak>>

\* A spawn that fails leaves the token in the store.
Spawn(s) ==
    /\ At(s, "spawn")
    /\ \/ /\ Cardinality(Spawned) < MaxProcs
          /\ LET p == Cardinality(Spawned) + 1 IN
             /\ procs' = [procs EXCEPT ![p] = "starting"]
             /\ call' = [call EXCEPT ![s].at = "wait", ![s].proc = p]
       \/ Give(s) /\ UNCHANGED procs
    /\ UNCHANGED <<config, active, lost, pidFile, watched, issued, tokens, streak>>

\* The process names its host, or has registered the fixed one: finalizeTunnel.
Finalize(s) ==
    /\ At(s, "wait") /\ procs[call[s].proc] = "starting"
    /\ procs' = [procs EXCEPT ![call[s].proc] = "up"]
    /\ cmd' = call[s].proc /\ token' = call[s].token
    /\ Goto(s, "pid")
    /\ UNCHANGED <<config, lost, pidFile, watched, issued, tokens, streak>>

\* It exits, or says nothing in time: only the named mode takes its token back.
SpawnFails(s) ==
    /\ At(s, "wait")
    /\ procs' = Kill(call[s].proc) /\ Give(s)
    /\ UNCHANGED <<config, active, lost, pidFile, watched, issued, streak>>

QuickStart(s) ==
    ~named /\ (Spawn(s) \/ Finalize(s) \/ (SpawnFails(s) /\ UNCHANGED tokens))
NamedStart(s) ==
    named /\ (Spawn(s) \/ Finalize(s) \/ (SpawnFails(s) /\ tokens' = {}))

WritePid(s) ==
    /\ At(s, "pid")
    /\ pidFile' = call[s].proc /\ Goto(s, "watch")
    /\ UNCHANGED <<config, active, procs, lost, watched, issued, tokens, streak>>

StartWatch(s) ==
    /\ At(s, "watch")
    /\ watched' = watched \cup {call[s].proc} /\ Give(s)
    /\ UNCHANGED <<config, active, procs, lost, pidFile, issued, tokens, streak>>

StartStep(s) ==
    \/ CleanLook(s) \/ CleanKill(s) \/ StopOld(s) \/ IssueToken(s)
    \/ QuickStart(s) \/ NamedStart(s) \/ WritePid(s) \/ StartWatch(s)

------------------------------------------------------------------------------
(* The watch, the health loop, and the other operations.                       *)

\* Wait returns. A process that is no longer the active one is only reaped.
WatchExit(p) ==
    /\ p \in watched /\ ~Alive(p)
    /\ watched' = watched \ {p}
    /\ IF cmd = p THEN cmd' = 0 /\ token' = 0 /\ pidFile' = 0 /\ tokens' = {}
       ELSE UNCHANGED <<active, pidFile, tokens>>
    /\ UNCHANGED <<config, procs, lost, issued, call, streak>>

\* Any answer of the edge counts.
AnyAnswer == procs[cmd] = "up"

\* What the probe makes of the edge's answer: an edge that answers for a tunnel it
\* does not find is no answer of the tunnel.
HostAlive == cmd \notin lost /\ procs[cmd] = "up"

\* One tick: nothing to probe, an answer, or another failure in a row.
HealTick ==
    /\ healing /\ At(Healer, "idle")
    /\ \/ cmd = 0 /\ streak' = 0 /\ UNCHANGED call
       \/ cmd # 0 /\ HostAlive /\ streak' = 0 /\ UNCHANGED call
       \/ /\ cmd # 0
          /\ IF streak + 1 < Failures THEN streak' = streak + 1 /\ UNCHANGED call
             ELSE streak' = 0 /\ Goto(Healer, "look")
    /\ UNCHANGED <<config, active, procs, lost, pidFile, watched, issued, tokens>>

Stop ==
    /\ cmd # 0 \/ tokens # {}
    /\ StopLocked
    /\ UNCHANGED <<config, lost, watched, issued, call, streak>>

\* The link keeps its host and gets a new token.
ResetToken ==
    /\ cmd # 0 /\ IssueAlone /\ token' = issued + 1
    /\ UNCHANGED <<config, cmd, procs, lost, pidFile, watched, call, streak>>

\* A token that is still good only lives longer, see Expire.
RenewToken ==
    /\ cmd # 0 /\ token \notin tokens /\ IssueAlone /\ token' = issued + 1
    /\ UNCHANGED <<config, cmd, procs, lost, pidFile, watched, call, streak>>

Expire(t) ==
    /\ t \in tokens /\ tokens' = tokens \ {t}
    /\ UNCHANGED <<config, active, procs, lost, pidFile, watched, issued, call, streak>>

\* What the administrator asks for in a chat; the handlers ask for the same.
Command == (\E s \in Starters : Begin(s)) \/ Stop \/ ResetToken \/ RenewToken

\* The world: the process dies, the host name is taken back, the service is killed.
Dies(p) ==
    /\ p \in ProcIds /\ procs[p] = "up" /\ procs' = Kill(p)
    /\ UNCHANGED <<config, active, lost, pidFile, watched, issued, tokens, call, streak>>

LosesHost(p) ==
    /\ p \in ProcIds \ lost /\ procs[p] = "up" /\ lost' = lost \cup {p}
    /\ UNCHANGED <<config, active, procs, pidFile, watched, issued, tokens, call, streak>>

ServiceKilled ==
    /\ cmd # 0
    /\ cmd' = 0 /\ token' = 0 /\ watched' = {} /\ tokens' = {} /\ streak' = 0
    /\ call' = [s \in Starters |-> NoCall]
    /\ UNCHANGED <<config, procs, lost, pidFile, issued>>

Next ==
    \/ \E s \in Starters : StartStep(s)
    \/ \E p \in ProcIds : WatchExit(p) \/ Dies(p) \/ LosesHost(p)
    \/ \E t \in TokenIds : Expire(t)
    \/ HealTick \/ Command \/ ServiceKilled

\* A start goes on, the health loop ticks, and the exit of a process is seen.
Fairness ==
    /\ \A s \in Starters : WF_tunnelVars(StartStep(s))
    /\ WF_tunnelVars(HealTick)
    /\ \A p \in ProcIds : WF_tunnelVars(WatchExit(p))

Spec == Init /\ [][Next]_tunnelVars /\ Fairness

------------------------------------------------------------------------------
(* A link that leads nowhere does not stay: when the process of the tunnel is  *)
(* dead, or its host name was taken back and the health loop runs, the         *)
(* supervisor stops showing it (watch, healthLoop), however starts, stops,     *)
(* deaths and kills of the service overlap.                                    *)
GoneIsNoticed ==
    \A p \in ProcIds :
        (cmd = p /\ (procs[p] = "dead" \/ (healing /\ p \in lost))) ~> cmd # p

(* The process of the tunnel that is shown is always waited for, or the start  *)
(* that has recorded it is still on its way to do so (finalizeTunnel and its   *)
(* watch), whatever other starts, stops and exits do in between.               *)
ShownIsWatched ==
    cmd # 0 => cmd \in watched
               \/ \E s \in Starters : call[s].proc = cmd /\ call[s].at \in {"pid", "watch"}

(* There is one tunnel at a time (the comment of TunnelManager in tunnel.go).  *)
OneTunnel == \A p, q \in ProcIds : procs[p] = "up" /\ procs[q] = "up" => p = q
===============================================================================
