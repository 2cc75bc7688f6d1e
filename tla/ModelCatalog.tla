---------------------------- MODULE ModelCatalog ----------------------------
(* The list of models an agent offers (agent/model_catalog.go): asked from a   *)
(* process that is started for the question, cached in memory and on disk, and *)
(* asked by one caller at a time on behalf of all. One agent is modelled; it   *)
(* is identified by the number of its configuration (agent/provider.go).       *)
(* Time is counted in days; a list is fresh for one day.                       *)
EXTENDS Integers, FiniteSets

CONSTANTS
    Callers,        \* requests for the list; each asks once in a life of the program
    Nobody,         \* no caller leads a probe
    StaleMax,       \* days that a list on disk is accepted (modelCatalogStaleMax)
    MaxDays,        \* bound: days that pass
    MaxConfigs,     \* bound: changes of the configuration
    MaxRestarts     \* bound: restarts of the program

CatalogAssumption ==
    /\ Nobody \notin Callers /\ {MaxDays, MaxConfigs, MaxRestarts} \subseteq Nat
    /\ StaleMax \in Nat

TTL == 1                    \* modelCatalogTTL
NoList == [kind |-> "none", config |-> 0, probed |-> 0]
Kinds == {"good", "empty", "error"}
Lists == [kind : Kinds, config : 0..MaxConfigs, probed : 0..MaxDays] \cup {NoList}

VARIABLES
    day, config, restarts,
    changing,       \* how far ConfigureACPProviders is
    memory,         \* modelCatalogCache: a list
    until,          \* and the day on which it expires
    disk,           \* the cache file: a list
    caller,         \* what each caller does
    leader,         \* modelCatalogProbing: whose probe is in flight, or Nobody
    waitsFor,       \* whose probe a caller waits for, or Nobody
    answer          \* what each caller was given, or a leader has found

catalogVars == <<day, config, restarts, changing, memory, until, disk, caller, leader,
                 waitsFor, answer>>
clockVars == <<day, config, restarts, changing>>
cacheVars == <<memory, until, disk>>

TypeOK ==
    /\ day \in 0..MaxDays /\ config \in 0..MaxConfigs /\ restarts \in 0..MaxRestarts
    /\ changing \in {"no", "memory", "disk"} /\ {memory, disk} \subseteq Lists
    /\ until \in 0..(MaxDays + TTL)
    /\ caller \in [Callers -> {"idle", "probing", "storing", "saving", "closing", "waiting", "done"}]
    /\ leader \in Callers \cup {Nobody} /\ answer \in [Callers -> Lists]
    /\ disk.kind # "error"
    \* one process at a time is asked, and callers wait only for one that runs
    /\ Cardinality({c \in Callers : caller[c] \in {"probing", "storing"}}) <= 1
    /\ \A c \in Callers : caller[c] \in {"probing", "storing"} => leader = c
    /\ \A c \in Callers : LET w == waitsFor[c] IN
           IF caller[c] # "waiting" THEN w = Nobody
           ELSE w \in Callers /\ caller[w] \in {"probing", "storing", "saving", "closing"}

Init ==
    /\ day = 0 /\ config = 0 /\ restarts = 0 /\ changing = "no"
    /\ memory = NoList /\ until = 0 /\ disk = NoList
    /\ caller = [c \in Callers |-> "idle"] /\ leader = Nobody /\ waitsFor = [c \in Callers |-> Nobody]
    /\ answer = [c \in Callers |-> NoList]

------------------------------------------------------------------------------
(* ListAgentModels up to the probe, under modelCatalogMu.                      *)

\* A good list lives until its day; an empty one or an error lives some minutes.
Fresh == memory # NoList /\ (memory.kind = "good" => day < until)
Stale == memory = NoList \/ memory.kind # "good" \/ day >= until

\* loadCatalogFromDisk. The file remembers the agent's type, not its
\* configuration.
Loadable == disk # NoList /\ day - disk.probed <= StaleMax

Give(c, list) ==
    /\ caller' = [caller EXCEPT ![c] = "done"]
    /\ answer' = [answer EXCEPT ![c] = list]

FromMemory(c) ==
    /\ caller[c] = "idle" /\ Fresh
    /\ Give(c, memory)
    /\ UNCHANGED <<clockVars, cacheVars, leader, waitsFor>>

\* The list is given a whole life from now on: floor is always the later day.
FromDisk(c) ==
    /\ caller[c] = "idle" /\ Stale /\ Loadable
    /\ memory' = disk /\ until' = day + TTL
    /\ Give(c, disk)
    /\ UNCHANGED <<clockVars, disk, leader, waitsFor>>

Join(c) ==
    /\ caller[c] = "idle" /\ Stale /\ ~Loadable /\ leader # Nobody
    /\ caller' = [caller EXCEPT ![c] = "waiting"]
    /\ waitsFor' = [waitsFor EXCEPT ![c] = leader]
    /\ UNCHANGED <<clockVars, cacheVars, leader, answer>>

\* The first caller starts a process with the configuration of this moment.
Lead(c) ==
    /\ caller[c] = "idle" /\ Stale /\ ~Loadable /\ leader = Nobody
    /\ leader' = c /\ caller' = [caller EXCEPT ![c] = "probing"]
    /\ answer' = [answer EXCEPT ![c] = [kind |-> "error", config |-> config, probed |-> day]]
    /\ UNCHANGED <<clockVars, cacheVars, waitsFor>>

------------------------------------------------------------------------------
(* The probe (probeAgentModels): 45 seconds and the request of its leader      *)
(* bound it; from here on answer[c] holds what it found.                       *)

ProbeEnds(c, kind) ==
    /\ caller[c] = "probing"
    /\ answer' = [answer EXCEPT ![c].kind = kind]
    /\ caller' = [caller EXCEPT ![c] = "storing"]
    /\ UNCHANGED <<clockVars, cacheVars, leader, waitsFor>>

\* What was found goes into memory, and later callers do not find the probe.
Store(c) ==
    /\ caller[c] = "storing"
    /\ memory' = [answer[c] EXCEPT !.probed = day] /\ until' = day + TTL
    /\ leader' = Nobody
    /\ answer' = [answer EXCEPT ![c].probed = day]
    /\ caller' = [caller EXCEPT ![c] = "saving"]
    /\ UNCHANGED <<clockVars, disk, waitsFor>>

\* saveCatalogToDisk, outside the lock, unless there was an error; the date is
\* that of the write.
Save(c) ==
    /\ caller[c] = "saving"
    /\ disk' = IF answer[c].kind = "error" THEN disk ELSE [answer[c] EXCEPT !.probed = day]
    /\ caller' = [caller EXCEPT ![c] = "closing"]
    /\ UNCHANGED <<clockVars, memory, until, leader, waitsFor, answer>>

Told(c, who) ==
    /\ caller' = [w \in Callers |-> IF w \in who \cup {c} THEN "done" ELSE caller[w]]
    /\ answer' = [w \in Callers |-> IF w \in who THEN answer[c] ELSE answer[w]]
    /\ waitsFor' = [w \in Callers |-> IF w \in who THEN Nobody ELSE waitsFor[w]]
    /\ UNCHANGED <<clockVars, cacheVars, leader>>

\* A probe that failed returns without a word to those who wait.
CloseIfFound(c) ==
    /\ caller[c] = "closing"
    /\ Told(c, IF answer[c].kind = "error" THEN {} ELSE {w \in Callers : waitsFor[w] = c})

\* The channel of the probe is closed: whoever waits for it has the same answer,
\* an error included.
CloseProbe(c) ==
    /\ caller[c] = "closing"
    /\ Told(c, {w \in Callers : waitsFor[w] = c})

\* A waiting caller gives up; nobody listens to the empty list it returns.
GiveUpWaiting(c) ==
    /\ caller[c] = "waiting"
    /\ caller' = [caller EXCEPT ![c] = "done"] /\ waitsFor' = [waitsFor EXCEPT ![c] = Nobody]
    /\ UNCHANGED <<clockVars, cacheVars, leader, answer>>

------------------------------------------------------------------------------
(* The world around.                                                           *)

NextDay ==
    /\ day < MaxDays /\ day' = day + 1
    /\ UNCHANGED <<config, restarts, changing, cacheVars, leader, caller, waitsFor, answer>>

\* ConfigureACPProviders replaces the configuration, then invalidates the list
\* of an agent whose way of being started has changed. A probe in flight goes on
\* with the configuration it has read, and stores what it finds.
Configure ==
    /\ changing = "no" /\ config < MaxConfigs
    /\ config' = config + 1 /\ changing' = "memory"
    /\ UNCHANGED <<day, restarts, cacheVars, leader, caller, waitsFor, answer>>

InvalidateMemory ==
    /\ changing = "memory"
    /\ memory' = NoList /\ changing' = "disk"
    /\ UNCHANGED <<day, config, restarts, until, disk, leader, caller, waitsFor, answer>>

InvalidateDisk ==
    /\ changing = "disk"
    /\ disk' = NoList /\ changing' = "no"
    /\ UNCHANGED <<day, config, restarts, memory, until, leader, caller, waitsFor, answer>>

\* The first configuration of a process invalidates nothing.
RestartProgram ==
    /\ restarts < MaxRestarts /\ restarts' = restarts + 1
    /\ memory' = NoList /\ until' = 0 /\ leader' = Nobody /\ changing' = "no"
    /\ caller' = [c \in Callers |-> "idle"] /\ waitsFor' = [c \in Callers |-> Nobody]
    /\ answer' = [c \in Callers |-> NoList]
    /\ UNCHANGED <<day, config, disk>>

Next ==
    \/ \E c \in Callers : \/ FromMemory(c) \/ FromDisk(c) \/ Join(c) \/ Lead(c)
                          \/ \E kind \in Kinds : ProbeEnds(c, kind)
                          \/ Store(c) \/ Save(c) \/ CloseProbe(c)
                          \/ GiveUpWaiting(c)
    \/ NextDay \/ Configure \/ InvalidateMemory \/ InvalidateDisk \/ RestartProgram

\* What the goroutine of a leader does by itself: the probe has a time limit.
LeaderStep(c) ==
    (\E kind \in Kinds : ProbeEnds(c, kind)) \/ Store(c) \/ Save(c) \/ CloseProbe(c)

Fairness == \A c \in Callers : WF_catalogVars(LeaderStep(c))

Spec == Init /\ [][Next]_catalogVars /\ Fairness

\* Whoever waits for the probe of another is answered, also when that probe
\* fails, is given up by its own request, or when the cache is invalidated or
\* another probe begins meanwhile (ListAgentModels in model_catalog.go).
WaitersAreAnswered == \A c \in Callers : (caller[c] = "waiting") ~> (caller[c] # "waiting")

\* A good list was asked from the agent less than a day ago, whatever restarts
\* lie between (loadCatalogFromDisk in model_catalog.go).
ServedWhileFresh ==
    \A c \in Callers : answer[c].kind = "good" /\ caller[c] = "done" => day - answer[c].probed <= TTL
===============================================================================
