--------------------------------- MODULE Bots ---------------------------------
(* The chat bots: the records of core/bots_store.go with a file of credentials *)
(* each (larkreg/credentials.go), the scan that creates an application and the *)
(* form that configures one (api/larkreg.go), the controller that keeps one    *)
(* running instance per bot (cmd/pieqi/larkchannel.go), and the table by which *)
(* core/bridge.go finds who sends a reply. Requests interleave.                *)
EXTENDS Naturals, FiniteSets

CONSTANTS
    Workers,        \* requests that are served at a time
    NoWorker,
    MaxApps,        \* bound: applications, one more per scan or entered by hand
    MaxBots,        \* bound: records created, a later one fails
    Versions        \* the rest of a configuration: secret, mode of access

BotsAssumption ==
    NoWorker \notin Workers /\ MaxApps \in Nat /\ MaxBots \in Nat /\ Versions # {}

VARIABLES
    bots,           \* the records: the application and the role of each bot
    created,        \* records created so far
    files,          \* credentials on disk, 0 for the whole channel
    mirror,         \* the controller's copy of the channel's
    running,        \* the instances, 0 for the whole channel's
    bound,          \* those whose messages the bridge hears
    routes,         \* the bots whose instance the bridge can send by, and 0
    rebuilder,      \* the request that holds the controller
    scan,           \* the shared state of the scans
    flows,          \* scans under way, each with the application it will have created
    apps,           \* applications that exist
    work            \* where each request is, and what it holds

controller == <<mirror, running, bound, routes, rebuilder>>
store == <<bots, created>>
scans == <<scan, flows, apps>>
botVars == <<store, files, controller, scans, work>>

BotIds == 1..MaxBots
Apps == 1..MaxApps
Configs == [app : Apps, version : Versions]
NoConfig == [app |-> 0, version |-> 0]
Idle == [at |-> "none", poll |-> FALSE, bot |-> 0, config |-> NoConfig, after |-> "none"]
NewScan == [done |-> FALSE, failed |-> FALSE, app |-> 0, bot |-> 0]
Stages == {"none", "create", "fill", "found", "new", "save", "rebuild", "apply", "sync", "bind"}

HasFile(b) == files[b] # NoConfig
Admin == {b \in DOMAIN bots : bots[b].admin}

TypeOK ==
    /\ created \in 0..MaxBots /\ DOMAIN bots \subseteq 1..created
    /\ \A b \in DOMAIN bots : bots[b] \in [app : Apps, admin : BOOLEAN]
    /\ Cardinality(Admin) <= 1
    /\ files \in [0..MaxBots -> Configs \cup {NoConfig}] /\ mirror \in Configs \cup {NoConfig}
    /\ running \subseteq [bot : 0..MaxBots, config : Configs]
    /\ \A i, j \in running : i.bot = j.bot => i = j
    /\ bound \subseteq running /\ routes \subseteq 0..MaxBots
    /\ rebuilder \in Workers \cup {NoWorker}
    /\ scan \in [done : BOOLEAN, failed : BOOLEAN, app : 0..MaxApps, bot : 0..MaxBots]
    /\ flows \subseteq Apps /\ apps \in 0..MaxApps
    /\ work \in [Workers -> [at : Stages, poll : BOOLEAN, bot : 0..MaxBots,
                              config : Configs \cup {NoConfig}, after : {"none", "apply"}]]

Init ==
    /\ bots = << >> /\ created = 0 /\ files = [b \in 0..MaxBots |-> NoConfig]
    /\ mirror = NoConfig /\ running = {} /\ bound = {} /\ routes = {}
    /\ rebuilder = NoWorker /\ scan = NewScan /\ flows = {} /\ apps = 0
    /\ work = [w \in Workers |-> Idle]

At(w, stage) == work[w].at = stage
Goto(w, stage) == work' = [work EXCEPT ![w].at = stage]
\* The controller is to be called, and then another time or not.
Rebuilds(w, after) == work' = [work EXCEPT ![w].at = "rebuild", ![w].after = after]

------------------------------------------------------------------------------
(* The records. A failed write leaves them as they were.                       *)

\* The first one bound is the administrator.
Create(app) ==
    /\ created < MaxBots /\ created' = created + 1
    /\ bots' = [b \in DOMAIN bots \cup {created + 1} |->
                    IF b \in DOMAIN bots THEN bots[b] ELSE [app |-> app, admin |-> Admin = {}]]

FindByAppID(app) == {b \in DOMAIN bots : bots[b].app = app}

\* Nobody is promoted when the administrator goes. The file goes after the record.
Delete(b) ==
    /\ bots' = [c \in DOMAIN bots \ {b} |-> bots[c]] /\ UNCHANGED created
    /\ files' = [files EXCEPT ![b] = NoConfig]

CreateBot(w) ==
    /\ At(w, "none") /\ Rebuilds(w, "none")
    /\ \E app \in 1..apps : Create(app)
    /\ UNCHANGED <<files, controller, scans>>

DeleteBot(w, b) ==
    /\ At(w, "none") /\ Rebuilds(w, "none")
    /\ b \in DOMAIN bots /\ Delete(b)
    /\ UNCHANGED <<controller, scans>>

\* It becomes the administrator when there is no other, or ceases to be it.
UpdateBot(b) ==
    /\ b \in DOMAIN bots /\ Admin \subseteq {b}
    /\ bots' = [bots EXCEPT ![b].admin = ~@]
    /\ UNCHANGED <<created, files, controller, scans, work>>

------------------------------------------------------------------------------
(* The scan. Its goroutine ends in the state that all scans share, and a poll  *)
(* holds that state from its first look to its answer.                         *)

ScanIsFree == \A w \in Workers : ~work[w].poll

\* What a new scan clears.
Cleared == [scan EXCEPT !.done = FALSE, !.failed = FALSE, !.app = 0]

ScanStart ==
    /\ ScanIsFree /\ apps < MaxApps
    /\ apps' = apps + 1 /\ flows' = flows \cup {apps + 1} /\ scan' = Cleared
    /\ UNCHANGED <<store, files, controller, work>>

\* The application is there, or the scan has failed, also if another one was begun.
ScanEnds(a) ==
    /\ ScanIsFree /\ a \in flows /\ flows' = flows \ {a}
    /\ \/ scan' = [scan EXCEPT !.done = TRUE, !.app = a]
       \/ scan' = [scan EXCEPT !.done = TRUE, !.failed = TRUE]
    /\ UNCHANGED <<store, files, controller, apps, work>>

\* SaveCredentials keeps the rest of the channel's file.
PollSave(w) ==
    /\ At(w, "none") /\ ScanIsFree /\ scan.done /\ ~scan.failed
    /\ \E v \in IF HasFile(0) THEN {files[0].version} ELSE Versions :
          files' = [files EXCEPT ![0] = [app |-> scan.app, version |-> v]]
    /\ work' = [work EXCEPT ![w].at = "create", ![w].poll = TRUE]
    /\ UNCHANGED <<store, controller, scans>>

\* The record is created once, whenever the same answer is polled again.
PollCreate(w) ==
    /\ At(w, "create")
    /\ \/ /\ scan.bot = 0 /\ Create(scan.app)
          /\ scan' = [scan EXCEPT !.bot = created + 1] /\ Goto(w, "fill")
       \/ /\ scan.bot # 0 \/ created = MaxBots
          /\ Goto(w, "apply") /\ UNCHANGED <<store, scan>>
    /\ UNCHANGED <<files, controller, flows, apps>>

\* Whatever the channel's file holds by now.
PollFill(w) ==
    /\ At(w, "fill")
    /\ files' = [files EXCEPT ![scan.bot] = files[0]]
    /\ Rebuilds(w, "apply")
    /\ UNCHANGED <<store, controller, scans>>

------------------------------------------------------------------------------
(* The form: merge with the channel's file, save, then find or create the bot. *)

Configure(w, app, v) ==
    /\ At(w, "none") /\ app \in 1..apps
    /\ LET config == [app |-> app, version |-> v] IN
       /\ files' = [files EXCEPT ![0] = config]
       /\ \E b \in FindByAppID(app) \cup {0} :
             /\ b = 0 <=> FindByAppID(app) = {}
             /\ work' = [work EXCEPT ![w].at = IF b = 0 THEN "new" ELSE "found",
                                      ![w].bot = b, ![w].config = config]
    /\ UNCHANGED <<store, controller, scans>>

\* The bot may be gone by now: then its file comes back without it.
SaveFound(w) ==
    /\ At(w, "found") /\ Goto(w, "apply")
    /\ files' = [files EXCEPT ![work[w].bot] = work[w].config]
    /\ UNCHANGED <<store, controller, scans>>

UpsertCreate(w) ==
    /\ At(w, "new")
    /\ \/ /\ Create(work[w].config.app)
          /\ work' = [work EXCEPT ![w].at = "save", ![w].bot = created + 1]
       \/ created = MaxBots /\ Goto(w, "apply") /\ UNCHANGED store
    /\ UNCHANGED <<files, controller, scans>>

\* A file that cannot be written takes the record with it.
UpsertSave(w) ==
    /\ At(w, "save")
    /\ \/ /\ files' = [files EXCEPT ![work[w].bot] = work[w].config]
          /\ Rebuilds(w, "apply") /\ UNCHANGED store
       \/ Delete(work[w].bot) /\ Goto(w, "apply")
    /\ UNCHANGED <<controller, scans>>

------------------------------------------------------------------------------
(* The controller.                                                             *)

\* One instance for each bot with credentials, else one for the whole channel.
Named(fs) == {[bot |-> b, config |-> fs[b]] : b \in {c \in DOMAIN bots : HasFile(c)}}
Specs(fs, m) ==
    IF Named(fs) # {} THEN Named(fs)
    ELSE IF m # NoConfig THEN {[bot |-> 0, config |-> m]} ELSE {}

SameSpec(i, j) == i = j
SameBot(i, j) == i.bot = j.bot

\* An instance whose configuration is the same goes on.
Kept(i, j) == SameSpec(i, j)

Replace(specs) ==
    LET kept == {i \in running : \E j \in specs : Kept(i, j)} IN
    /\ running' = kept \cup {j \in specs : \A i \in kept : i.bot # j.bot}
    /\ bound' = bound \cap kept

Rebuild(w) ==
    /\ At(w, "rebuild") /\ rebuilder = NoWorker
    /\ rebuilder' = w /\ Replace(Specs(files, mirror)) /\ Goto(w, "sync")
    /\ UNCHANGED <<store, files, mirror, routes, scans>>

\* The channel's copy changes, and what runs with it. A poll reads the file again.
Apply(w) ==
    /\ At(w, "apply") /\ rebuilder = NoWorker
    /\ mirror' = IF work[w].poll THEN files[0] ELSE work[w].config
    /\ rebuilder' = w /\ Replace(Specs(files, mirror'))
    /\ work' = [work EXCEPT ![w].at = "sync", ![w].after = "none"]
    /\ UNCHANGED <<store, files, routes, scans>>

\* SyncBotSenders, and the sender of the whole channel when it has an instance.
Sync(w) ==
    /\ At(w, "sync") /\ routes' = {i.bot : i \in running} /\ Goto(w, "bind")
    /\ UNCHANGED <<store, files, mirror, running, bound, rebuilder, scans>>

Bind(w) ==
    /\ At(w, "bind") /\ bound' = running /\ rebuilder' = NoWorker
    /\ work' = [work EXCEPT ![w] = IF @.after = "apply"
                                   THEN [@ EXCEPT !.at = "apply"] ELSE Idle]
    /\ UNCHANGED <<store, files, mirror, running, routes, scans>>

\* Who sends the reply to a message the instance of b has heard: 0 is the channel's.
SenderFor(b) ==
    IF b \in routes THEN {b}
    ELSE IF 0 \in routes THEN {0}
    ELSE IF Admin \cap routes # {} THEN Admin
    ELSE {c \in routes : \A d \in routes : c <= d}

\* The service starts again: the file of the channel is read, and all is built.
Restart ==
    /\ mirror' = files[0] /\ running' = Specs(files, files[0])
    /\ bound' = running' /\ routes' = {i.bot : i \in running'} /\ rebuilder' = NoWorker
    /\ scan' = NewScan /\ flows' = {} /\ work' = [w \in Workers |-> Idle]
    /\ UNCHANGED <<store, files, apps>>

Step(w) ==
    \/ CreateBot(w) \/ (\E b \in BotIds : DeleteBot(w, b))
    \/ PollSave(w) \/ PollCreate(w) \/ PollFill(w)
    \/ (\E app \in Apps, v \in Versions : Configure(w, app, v))
    \/ SaveFound(w) \/ UpsertCreate(w) \/ UpsertSave(w)
    \/ Rebuild(w) \/ Apply(w) \/ Sync(w) \/ Bind(w)

Next ==
    \/ \E w \in Workers : Step(w)
    \/ \E b \in BotIds : UpdateBot(b)
    \/ ScanStart \/ (\E a \in Apps : ScanEnds(a)) \/ Restart

Spec == Init /\ [][Next]_botVars

------------------------------------------------------------------------------
(* Whenever nobody is about to call the controller, what runs is what the      *)
(* records and the credentials say, whichever requests and restarts came       *)
(* before: no deleted bot goes on, no bot with credentials is left out, none   *)
(* runs with old ones. And whoever hears a message can send the reply to it    *)
(* (larkchannel.go rebuildLocked, bridge.go senderFor).                        *)
BotsRunAsRecorded ==
    /\ (\A w \in Workers : work[w].at \notin {"rebuild", "apply", "sync", "bind"}) =>
          running = Specs(files, mirror) /\ bound = running
    /\ \A i \in bound : SenderFor(i.bot) = {i.bot}

(* The bot a poll answers with is the one of the application that was scanned  *)
(* (larkreg.go larkRegState: botID is the record of this creation).            *)
EveryScanMakesABot ==
    \A w \in Workers :
        work[w].poll /\ At(w, "bind") /\ work[w].after = "none" /\ scan.bot \in DOMAIN bots =>
            bots[scan.bot].app = scan.app
===============================================================================
