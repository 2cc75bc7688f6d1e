---------------------------- MODULE MCHostServices ----------------------------
(* One instance of each of what the program keeps on its host for the user:    *)
(* previews, checkpoints, the tunnel and who comes in by it, the bots, and the *)
(* store of the tasks. They share no state. A behaviour is of one of them,     *)
(* which focus names; the others stay as they begin. The fairness of a service *)
(* is the left side of what is claimed of it.                                  *)
EXTENDS Naturals, Sequences

CONSTANTS
    Services,   \* those that a run looks at
    NoValue,    \* a value that is no request, worker or task
    \* the constants of each service, after the names in its module
    SiteMaxSpawns, SiteMaxEvents, SiteMaxTurns,
    CopyFiles, CopyMaxTurns, CopyMaxMessages, CopyMaxCancels, CopyMaxRewinds, CopyMaxEdits,
    LinkStarters, LinkHealer, LinkMaxProcs, LinkMaxTokens, LinkFailures,
    DoorVisitors, DoorGuessers, DoorMaxKeys, DoorMaxLinks, DoorMaxFailures,
    BotWorkers, BotMaxApps, BotMaxBots, BotVersions,
    StoreTasks, StoreWriters, StoreMaxSeq, StoreRetention, StoreMaxStarts, StoreMaxFaults

VARIABLES
    focus,  \* the service that is at work in a behaviour
    siteSite, siteSpawned, siteSpawn, siteProcess, siteWatcher, siteRegistered,
    siteState, siteStopped, siteStopping, siteRestart, siteTask, siteTurns,
    siteEvents,
    copyHead, copyTree, copyPre, copySnaps, copyClaims, copyPending, copyTurn,
    copyServing, copyStatus, copyAgent, copyMessages, copyCancels, copyRewinds,
    copyEdits, copyBegan, copyWorked, copyLate,
    linkNamed, linkHealing, linkCmd, linkToken, linkProcs, linkLost,
    linkPidFile, linkWatched, linkIssued, linkTokens, linkCall, linkStreak,
    doorAccessOn, doorPublished, doorKeys, doorFetched, doorAttempted,
    doorGiven, doorLive, doorFailures, doorBlocked, doorRequest,
    botBots, botCreated, botFiles, botMirror, botRunning, botBound, botRoutes,
    botRebuilder, botScan, botFlows, botApps, botWork,
    storeFiles, storeRows, storeStage, storeTodo, storeMoving, storeMemory,
    storeLock, storeCall, storePromised, storeDeleted, storeRaced, storeUnread,
    storeFaults

Site ==
    INSTANCE Preview WITH
        MaxSpawns <- SiteMaxSpawns, MaxEvents <- SiteMaxEvents,
        MaxTurns <- SiteMaxTurns,
        site <- siteSite, spawned <- siteSpawned, spawn <- siteSpawn,
        process <- siteProcess, watcher <- siteWatcher,
        registered <- siteRegistered, state <- siteState,
        stopped <- siteStopped, stopping <- siteStopping,
        restart <- siteRestart, task <- siteTask, turns <- siteTurns,
        events <- siteEvents

Copy ==
    INSTANCE Checkpoints WITH
        Files <- CopyFiles, MaxTurns <- CopyMaxTurns,
        MaxMessages <- CopyMaxMessages, MaxCancels <- CopyMaxCancels,
        MaxRewinds <- CopyMaxRewinds, MaxEdits <- CopyMaxEdits,
        head <- copyHead, tree <- copyTree, pre <- copyPre, snaps <- copySnaps,
        claims <- copyClaims, pending <- copyPending, turn <- copyTurn,
        serving <- copyServing,
        status <- copyStatus, agent <- copyAgent, messages <- copyMessages,
        cancels <- copyCancels, rewinds <- copyRewinds, edits <- copyEdits,
        began <- copyBegan, worked <- copyWorked, late <- copyLate

Link ==
    INSTANCE Tunnel WITH
        Starters <- LinkStarters, Healer <- LinkHealer, MaxProcs <- LinkMaxProcs,
        MaxTokens <- LinkMaxTokens, Failures <- LinkFailures,
        named <- linkNamed, healing <- linkHealing, cmd <- linkCmd,
        token <- linkToken, procs <- linkProcs, lost <- linkLost,
        pidFile <- linkPidFile, watched <- linkWatched, issued <- linkIssued,
        tokens <- linkTokens, call <- linkCall, streak <- linkStreak

Door ==
    INSTANCE Access WITH
        Visitors <- DoorVisitors, Guessers <- DoorGuessers,
        MaxKeys <- DoorMaxKeys, MaxLinks <- DoorMaxLinks,
        MaxFailures <- DoorMaxFailures,
        accessOn <- doorAccessOn, published <- doorPublished, keys <- doorKeys,
        fetched <- doorFetched, attempted <- doorAttempted, given <- doorGiven,
        live <- doorLive, failures <- doorFailures, blocked <- doorBlocked,
        request <- doorRequest

Bot ==
    INSTANCE Bots WITH
        Workers <- BotWorkers, NoWorker <- NoValue, MaxApps <- BotMaxApps,
        MaxBots <- BotMaxBots,
        Versions <- BotVersions,
        bots <- botBots, created <- botCreated, files <- botFiles,
        mirror <- botMirror, running <- botRunning, bound <- botBound,
        routes <- botRoutes, rebuilder <- botRebuilder, scan <- botScan,
        flows <- botFlows, apps <- botApps, work <- botWork

Store ==
    INSTANCE TaskStore WITH
        Tasks <- StoreTasks, NoTask <- NoValue, Writers <- StoreWriters,
        MaxSeq <- StoreMaxSeq,
        Retention <- StoreRetention, MaxStarts <- StoreMaxStarts,
        MaxFaults <- StoreMaxFaults,
        files <- storeFiles, rows <- storeRows, stage <- storeStage,
        todo <- storeTodo, moving <- storeMoving, memory <- storeMemory,
        lock <- storeLock, call <- storeCall, promised <- storePromised,
        deleted <- storeDeleted, raced <- storeRaced, unread <- storeUnread,
        faults <- storeFaults

siteVars ==
    <<siteSite, siteSpawned, siteSpawn, siteProcess, siteWatcher,
      siteRegistered, siteState, siteStopped, siteStopping, siteRestart,
      siteTask, siteTurns, siteEvents>>
copyVars ==
    <<copyHead, copyTree, copyPre, copySnaps, copyClaims, copyPending, copyTurn,
      copyServing, copyStatus, copyAgent, copyMessages, copyCancels,
      copyRewinds, copyEdits, copyBegan, copyWorked, copyLate>>
linkVars ==
    <<linkNamed, linkHealing, linkCmd, linkToken, linkProcs, linkLost,
      linkPidFile, linkWatched, linkIssued, linkTokens, linkCall, linkStreak>>
doorVars ==
    <<doorAccessOn, doorPublished, doorKeys, doorFetched, doorAttempted,
      doorGiven, doorLive, doorFailures, doorBlocked, doorRequest>>
botVars ==
    <<botBots, botCreated, botFiles, botMirror, botRunning, botBound,
      botRoutes, botRebuilder, botScan, botFlows, botApps, botWork>>
storeVars ==
    <<storeFiles, storeRows, storeStage, storeTodo, storeMoving, storeMemory,
      storeLock, storeCall, storePromised, storeDeleted, storeRaced, storeUnread,
      storeFaults>>

(* The constants of every instance are as its module demands.                  *)
ASSUME ServicesAssumption ==
    /\ Site!PreviewAssumption
    /\ Copy!CheckpointsAssumption
    /\ Link!TunnelAssumption
    /\ Door!AccessAssumption
    /\ Bot!BotsAssumption
    /\ Store!StoreAssumption

------------------------------------------------------------------------------
vars == <<focus, siteVars, copyVars, linkVars, doorVars, botVars, storeVars>>

(* Where a service may begin in several ways, it does so when it is at work.   *)
Pinned ==
    /\ focus # "copy" => copyHead = copyTree /\ \A f \in DOMAIN copyHead : copyHead[f] # Copy!Absent
    /\ focus # "link" => ~linkNamed /\ ~linkHealing
    /\ focus # "door" => ~doorAccessOn
    /\ focus # "store" => \A t \in DOMAIN storeFiles : storeFiles[t] = "none"

Init ==
    /\ focus \in Services
    /\ Site!Init
    /\ Copy!Init
    /\ Link!Init
    /\ Door!Init
    /\ Bot!Init
    /\ Store!Init
    /\ Pinned

Next ==
    /\ UNCHANGED focus
    /\ IF focus = "site" THEN Site!Next ELSE UNCHANGED siteVars
    /\ IF focus = "copy" THEN Copy!Next ELSE UNCHANGED copyVars
    /\ IF focus = "link" THEN Link!Next ELSE UNCHANGED linkVars
    /\ IF focus = "door" THEN Door!Next ELSE UNCHANGED doorVars
    /\ IF focus = "bot" THEN Bot!Next ELSE UNCHANGED botVars
    /\ IF focus = "store" THEN Store!Next ELSE UNCHANGED storeVars

Spec == Init /\ [][Next]_vars

------------------------------------------------------------------------------
TypeOK ==
    /\ focus \in Services
    /\ focus = "site" => Site!TypeOK
    /\ focus = "copy" => Copy!TypeOK
    /\ focus = "link" => Link!TypeOK
    /\ focus = "door" => Door!TypeOK
    /\ focus = "bot" => Bot!TypeOK
    /\ focus = "store" => Store!TypeOK

(* A process that was started for the user is not forgotten: a dev server that *)
(* is stopped ends, and a tunnel that leads nowhere is noticed (preview.go,    *)
(* tunnel.go).                                                                 *)
ProcessesAreMinded ==
    /\ (focus = "site" /\ Site!Fairness) => Site!StoppedServerEnds
    /\ [](focus = "site" => Site!StoppedServersAreMarked)
    /\ (focus = "link" /\ Link!Fairness) => Link!GoneIsNoticed
    /\ [](focus = "link" => Link!ShownIsWatched)

(* The first rewind restores what the agent changed, and nothing else          *)
(* (checkpoint.go, feedback.go).                                               *)
RewindIsExact == Copy!RewindIsExact

(* Inside is what comes from this machine, only those who guess are shut out,  *)
(* and a new key of the team is learnt (auth.go, ratelimit.go, access.go).     *)
DoorIsKept ==
    /\ []Door!VisitorsAreJudged
    /\ (focus = "door" /\ Door!Fairness) => Door!NewKeyIsLearnt

(* What runs is what the records and the credentials of the bots say           *)
(* (larkchannel.go, bots_store.go, bridge.go). What a call of the store said   *)
(* is kept is kept, and what it said is deleted is gone (task_store.go,        *)
(* tasks.go, migrate_json.go).                                                 *)
RecordsAreKept ==
    /\ focus = "bot" => Bot!BotsRunAsRecorded
    /\ focus = "store" => Store!StoreIsTrue
===============================================================================
