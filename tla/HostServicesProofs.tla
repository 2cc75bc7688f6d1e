-------------------------- MODULE HostServicesProofs --------------------------
(***************************************************************************)
(* Theorems about what the program keeps on its host, for every value of   *)
(* the constants of each service: the state of all of them is typed, the   *)
(* records are kept, only those who guess are shut out, the first rewind   *)
(* is exact, and a process is stopped or shown only as one that is marked  *)
(* or watched.                                                             *)
(*                                                                         *)
(* Each service has an inductive invariant of its own, a section below,    *)
(* and a behaviour is of one service while the others stay as they begin,  *)
(* so the invariant of all is their conjunction.                           *)
(***************************************************************************)
EXTENDS MCHostServices, WellFoundedInduction, FiniteSetTheorems, TLAPS

------------------------------------------------------------------------------
(* The bots. What runs differs from what the records and the credentials say   *)
(* only while a request is about to call the controller.                       *)

\* What a request holds while it goes on.
BotHeld ==
    /\ botScan.done /\ ~botScan.failed => botScan.app \in Bot!Apps
    /\ \A w \in BotWorkers :
        /\ botWork[w].at \in {"create", "fill"} => botWork[w].poll
        /\ botWork[w].at = "create" => botScan.done /\ ~botScan.failed
        /\ botWork[w].at = "fill" => botScan.bot \in 1..botCreated
        /\ botWork[w].at \in {"found", "new", "save"} => botWork[w].config \in Bot!Configs
        /\ botWork[w].at \in {"found", "save"} => botWork[w].bot \in 1..botCreated

\* A bot that is not yet made has no credentials.
BotFresh == \A b \in 1..BotMaxBots : b > botCreated => botFiles[b] = Bot!NoConfig

\* The difference between what runs and what should is the work of a call to come.
BotCurrent ==
    (\A w \in BotWorkers : botWork[w].at \notin {"rebuild", "apply"}) =>
        botRunning = Bot!Specs(botFiles, botMirror)

\* One request at a time is inside the controller.
BotHolder ==
    /\ \A w \in BotWorkers : botWork[w].at \in {"sync", "bind"} <=> botRebuilder = w
    /\ botRebuilder = NoValue => botBound = botRunning

\* Whoever is bound can be sent by.
BotRouted ==
    /\ \A i \in botBound : i.bot \in botRoutes
    /\ \A w \in BotWorkers : botWork[w].at = "bind" => \A i \in botRunning : i.bot \in botRoutes

BotInv == Bot!TypeOK /\ BotHeld /\ BotFresh /\ BotCurrent /\ BotHolder /\ BotRouted

LEMMA BotConstants ==
  /\ NoValue \notin BotWorkers /\ BotMaxApps \in Nat /\ BotMaxBots \in Nat /\ BotVersions # {}
  /\ Bot!NoConfig \notin Bot!Configs
  <1>1. Bot!BotsAssumption
    BY ServicesAssumption DEF ServicesAssumption
  <1>2. Bot!NoConfig \notin Bot!Configs
    BY <1>1 DEF Bot!BotsAssumption, Bot!NoConfig, Bot!Configs, Bot!Apps
  <1> QED BY <1>1, <1>2 DEF Bot!BotsAssumption

\* The instance counts as everyone does.
LEMMA BotCardinality ==
  ASSUME NEW S
  PROVE  Bot!Cardinality(S) = Cardinality(S)
  BY DEF Bot!Cardinality, Cardinality

\* What should run, at most one instance for a bot.
LEMMA BotSpecs ==
  ASSUME Bot!TypeOK, NEW m \in Bot!Configs \cup {Bot!NoConfig}
  PROVE  /\ Bot!Specs(botFiles, m) \subseteq [bot : 0..BotMaxBots, config : Bot!Configs]
         /\ \A i, j \in Bot!Specs(botFiles, m) : i.bot = j.bot => i = j
  <1>1. DOMAIN botBots \subseteq 0..BotMaxBots
    BY BotConstants DEF Bot!TypeOK
  <1>2. /\ Bot!Named(botFiles) \subseteq [bot : 0..BotMaxBots, config : Bot!Configs]
        /\ \A i, j \in Bot!Named(botFiles) : i.bot = j.bot => i = j
    <2>1. \A b \in 0..BotMaxBots : Bot!HasFile(b) => botFiles[b] \in Bot!Configs
      BY DEF Bot!TypeOK, Bot!HasFile
    <2> QED BY <1>1, <2>1 DEF Bot!Named
  <1>3. 0 \in 0..BotMaxBots
    BY BotConstants
  <1> QED BY <1>2, <1>3 DEF Bot!Specs

\* Replacing what runs: afterwards it is what should run, and of it those who went on are bound.
LEMMA BotReplaces ==
  ASSUME Bot!TypeOK, NEW S, \A i, j \in S : i.bot = j.bot => i = j, Bot!Replace(S)
  PROVE  botRunning' = S /\ botBound' = botBound \cap S
  <1> DEFINE kept == {i \in botRunning : \E j \in S : Bot!Kept(i, j)}
  <1>1. kept = botRunning \cap S
    BY DEF Bot!Kept, Bot!SameSpec
  <1>2. botRunning' = kept \cup {j \in S : \A i \in kept : i.bot # j.bot}
        /\ botBound' = botBound \cap kept
    BY DEF Bot!Replace
  <1>3. botBound \subseteq botRunning
    BY DEF Bot!TypeOK
  <1> HIDE DEF kept
  <1> QED BY <1>1, <1>2, <1>3

LEMMA BotTypeIs ==
  Bot!TypeOK =>
    /\ botCreated \in Nat /\ botCreated <= BotMaxBots /\ DOMAIN botBots \subseteq 1..botCreated
    /\ botApps \in Nat /\ botApps <= BotMaxApps
    /\ \A a \in 1..botApps : a \in Bot!Apps
    /\ \A w \in BotWorkers : botWork[w].config \in Bot!Configs
         => botWork[w].config.app \in Bot!Apps
    /\ IsFiniteSet(Bot!Admin) /\ \A b, c \in Bot!Admin : b = c
  <1> SUFFICES ASSUME Bot!TypeOK PROVE IsFiniteSet(Bot!Admin) /\ \A b, c \in Bot!Admin : b = c
    BY BotConstants DEF Bot!TypeOK, Bot!Apps, Bot!Configs
  <1>1. botCreated \in Nat /\ DOMAIN botBots \subseteq 1..botCreated
    BY BotConstants DEF Bot!TypeOK
  <1>2. IsFiniteSet(Bot!Admin)
    <2>1. IsFiniteSet(1..botCreated)
      BY <1>1, FS_Interval
    <2>2. Bot!Admin \in SUBSET (1..botCreated)
      BY <1>1 DEF Bot!Admin
    <2> QED BY <2>1, <2>2, FS_Subset
  <1>3. \A b, c \in Bot!Admin : b = c
    <2> SUFFICES ASSUME NEW b \in Bot!Admin, NEW c \in Bot!Admin, b # c PROVE FALSE
      OBVIOUS
    <2>1. IsFiniteSet({b, c}) /\ Cardinality({b, c}) = 2
      <3>1. IsFiniteSet({b}) /\ Cardinality({b}) = 1 /\ c \notin {b}
        BY FS_Singleton
      <3>2. IsFiniteSet({b} \cup {c}) /\ Cardinality({b} \cup {c}) = Cardinality({b}) + 1
        BY <3>1, FS_AddElement
      <3>3. {b} \cup {c} = {b, c}
        OBVIOUS
      <3> QED BY <3>1, <3>2, <3>3
    <2>2. Cardinality({b, c}) <= Cardinality(Bot!Admin)
      BY <1>2, <2>1, FS_Subset
    <2>3. Cardinality(Bot!Admin) <= 1 /\ Cardinality(Bot!Admin) \in Nat
      BY <1>2, FS_CardinalityType, BotCardinality DEF Bot!TypeOK
    <2> QED BY <2>1, <2>2, <2>3
  <1> QED BY <1>2, <1>3

\* Records come and go one at a time, and there is one administrator at most.
LEMMA BotRecordsTyped ==
  ASSUME BotInv, Bot!Next
  PROVE  /\ botCreated' \in 0..BotMaxBots /\ DOMAIN botBots' \subseteq 1..botCreated'
         /\ \A b \in DOMAIN botBots' : botBots'[b] \in [app : Bot!Apps, admin : BOOLEAN]
         /\ Bot!Cardinality(Bot!Admin') <= 1
  <1> DEFINE G == /\ botCreated' \in 0..BotMaxBots /\ DOMAIN botBots' \subseteq 1..botCreated'
                  /\ \A b \in DOMAIN botBots' : botBots'[b] \in [app : Bot!Apps,
                     admin : BOOLEAN]
                  /\ \A b, c \in Bot!Admin' : b = c
  <1>0. /\ botCreated \in Nat /\ botCreated <= BotMaxBots
           /\ DOMAIN botBots \subseteq 1..botCreated
        /\ \A b \in DOMAIN botBots : botBots[b] \in [app : Bot!Apps, admin : BOOLEAN]
        /\ \A b, c \in Bot!Admin : b = c
        /\ BotMaxBots \in Nat
    BY BotConstants, BotTypeIs DEF BotInv, Bot!TypeOK
  <1>1. ASSUME UNCHANGED Bot!store PROVE G
    BY <1>0, <1>1 DEF Bot!store, Bot!Admin
  <1>2. ASSUME NEW app \in Bot!Apps, Bot!Create(app) PROVE G
    <2>1. /\ botCreated' = botCreated + 1 /\ botCreated < BotMaxBots
          /\ DOMAIN botBots' = DOMAIN botBots \cup {botCreated + 1}
          /\ \A b \in DOMAIN botBots : botBots'[b] = botBots[b]
          /\ botBots'[botCreated + 1] = [app |-> app, admin |-> Bot!Admin = {}]
      BY <1>0, <1>2 DEF Bot!Create
    <2>2. \A b, c \in Bot!Admin' : b = c
      <3>1. Bot!Admin' \subseteq Bot!Admin \cup {botCreated + 1}
        BY <2>1 DEF Bot!Admin
      <3>2. Bot!Admin # {} => botCreated + 1 \notin Bot!Admin'
        <4>1. botBots'[botCreated + 1].admin = (Bot!Admin = {})
          BY <2>1
        <4>2. Bot!Admin' = {b \in DOMAIN botBots' : botBots'[b].admin}
          BY DEF Bot!Admin
        <4> QED BY <4>1, <4>2
      <3> QED BY <1>0, <3>1, <3>2
    <2>3. \A b \in DOMAIN botBots' : botBots'[b] \in [app : Bot!Apps, admin : BOOLEAN]
      <3>1. (Bot!Admin = {}) \in BOOLEAN
        OBVIOUS
      <3>2. botBots'[botCreated + 1] \in [app : Bot!Apps, admin : BOOLEAN]
        BY <2>1, <3>1
      <3> QED BY <1>0, <2>1, <3>2
    <2>4. botCreated' \in 0..BotMaxBots /\ DOMAIN botBots' \subseteq 1..botCreated'
      BY <1>0, <2>1
    <2> QED BY <2>2, <2>3, <2>4
  <1>3. ASSUME NEW b \in 0..BotMaxBots, Bot!Delete(b) PROVE G
    BY <1>0, <1>3 DEF Bot!Delete, Bot!Admin
  <1>4. ASSUME NEW b \in Bot!BotIds, Bot!UpdateBot(b) PROVE G
    <2>1. /\ botCreated' = botCreated /\ DOMAIN botBots' = DOMAIN botBots
          /\ \A c \in DOMAIN botBots : botBots'[c].app = botBots[c].app
             /\ (c # b => botBots'[c] = botBots[c])
          /\ \A c \in DOMAIN botBots : botBots'[c] \in [app : Bot!Apps, admin : BOOLEAN]
      BY <1>0, <1>4 DEF Bot!UpdateBot
    <2>2. Bot!Admin' \subseteq {b}
      BY <1>4, <2>1 DEF Bot!UpdateBot, Bot!Admin
    <2> QED BY <1>0, <2>1, <2>2
  <1>5. \/ UNCHANGED Bot!store
        \/ \E app \in Bot!Apps : Bot!Create(app)
        \/ \E b \in 0..BotMaxBots : Bot!Delete(b)
        \/ \E b \in Bot!BotIds : Bot!UpdateBot(b)
    <2>1. ASSUME NEW w \in BotWorkers, Bot!CreateBot(w)
          PROVE \E app \in Bot!Apps : Bot!Create(app)
      BY <2>1, BotTypeIs DEF Bot!CreateBot, BotInv
    <2>2. ASSUME NEW w \in BotWorkers, NEW b \in Bot!BotIds, Bot!DeleteBot(w, b)
          PROVE \E c \in 0..BotMaxBots : Bot!Delete(c)
      BY <2>2, <1>0 DEF Bot!DeleteBot, Bot!BotIds
    <2>3. ASSUME NEW w \in BotWorkers, Bot!PollCreate(w)
          PROVE UNCHANGED Bot!store \/ \E app \in Bot!Apps : Bot!Create(app)
      BY <2>3 DEF Bot!PollCreate, BotInv, BotHeld, Bot!At
    <2>4. ASSUME NEW w \in BotWorkers, Bot!UpsertCreate(w)
          PROVE UNCHANGED Bot!store \/ \E app \in Bot!Apps : Bot!Create(app)
      BY <2>4, BotTypeIs DEF Bot!UpsertCreate, BotInv, BotHeld, Bot!At
    <2>5. ASSUME NEW w \in BotWorkers, Bot!UpsertSave(w)
          PROVE UNCHANGED Bot!store \/ \E c \in 0..BotMaxBots : Bot!Delete(c)
      <3>1. botWork[w].bot \in 0..BotMaxBots
        BY DEF BotInv, Bot!TypeOK
      <3> QED BY <2>5, <3>1 DEF Bot!UpsertSave
    <2>6. ASSUME NEW w \in BotWorkers,
                 \/ Bot!PollSave(w) \/ Bot!PollFill(w) \/ Bot!SaveFound(w)
                 \/ (\E app \in Bot!Apps, v \in BotVersions : Bot!Configure(w, app, v))
                 \/ Bot!Rebuild(w) \/ Bot!Apply(w) \/ Bot!Sync(w) \/ Bot!Bind(w)
          PROVE UNCHANGED Bot!store
      BY <2>6
         DEF Bot!PollSave, Bot!PollFill, Bot!SaveFound, Bot!Configure, Bot!Rebuild, Bot!Apply,
         Bot!Sync, Bot!Bind
    <2>7. ASSUME Bot!ScanStart \/ (\E a \in Bot!Apps : Bot!ScanEnds(a)) \/ Bot!Restart
          PROVE UNCHANGED Bot!store
      BY <2>7 DEF Bot!ScanStart, Bot!ScanEnds, Bot!Restart
    <2> QED BY <2>1, <2>2, <2>3, <2>4, <2>5, <2>6, <2>7 DEF Bot!Next, Bot!Step
  <1>6. G
    BY <1>1, <1>2, <1>3, <1>4, <1>5
  <1>7. Cardinality(Bot!Admin') <= 1
    <2>1. CASE Bot!Admin' = {}
      BY <2>1, FS_EmptySet
    <2>2. CASE Bot!Admin' # {}
      <3>1. PICK b \in Bot!Admin' : TRUE
        BY <2>2
      <3>2. Bot!Admin' = {b}
        BY <1>6, <3>1
      <3> QED BY <3>2, FS_Singleton
    <2> QED BY <2>1, <2>2
  <1> QED BY <1>6, <1>7, BotCardinality

\* Where the requests are: each leaves the others as they are.
LEMMA BotRequests ==
  ASSUME BotInv, NEW w \in BotWorkers, Bot!Step(w)
  PROVE  /\ botWork' \in [BotWorkers -> [at : Bot!Stages, poll : BOOLEAN, bot : 0..BotMaxBots,
                                         config : Bot!Configs \cup {Bot!NoConfig},
                                         after : {"none", "apply"}]]
         /\ \A v \in BotWorkers : v # w => botWork'[v] = botWork[v]
  <1> DEFINE W == [BotWorkers -> [at : Bot!Stages, poll : BOOLEAN, bot : 0..BotMaxBots,
                                  config : Bot!Configs \cup {Bot!NoConfig},
                                  after : {"none", "apply"}]]
             G == botWork' \in W /\ \A v \in BotWorkers : v # w => botWork'[v] = botWork[v]
  <1>0. botWork \in W
    BY DEF BotInv, Bot!TypeOK
  <1>1. ASSUME Bot!CreateBot(w) \/ (\E b \in Bot!BotIds : Bot!DeleteBot(w, b)) PROVE G
    BY <1>0, <1>1 DEF Bot!CreateBot, Bot!DeleteBot, Bot!Rebuilds, Bot!Stages
  <1>2. ASSUME Bot!PollSave(w) \/ Bot!PollCreate(w) \/ Bot!PollFill(w) PROVE G
    BY <1>0, <1>2
       DEF Bot!PollSave, Bot!PollCreate, Bot!PollFill, Bot!Rebuilds, Bot!Goto, Bot!Stages
  <1>3. ASSUME NEW app \in Bot!Apps, NEW v \in BotVersions, Bot!Configure(w, app, v) PROVE G
    <2>1. [app |-> app, version |-> v] \in Bot!Configs
      BY DEF Bot!Configs
    <2>2. DOMAIN botBots \subseteq 0..BotMaxBots /\ 0 \in 0..BotMaxBots
      BY BotTypeIs, BotConstants DEF BotInv
    <2>3. PICK b \in Bot!FindByAppID(app) \cup {0} :
             botWork' = [botWork EXCEPT ![w].at = IF b = 0 THEN "new" ELSE "found",
                                        ![w].bot = b,
                                        ![w].config = [app |-> app, version |-> v]]
      BY <1>3 DEF Bot!Configure
    <2>4. b \in 0..BotMaxBots
      BY <2>2 DEF Bot!FindByAppID
    <2> DEFINE config == [app |-> app, version |-> v]
               stage == IF b = 0 THEN "new" ELSE "found"
    <2>5. stage \in Bot!Stages
      BY DEF Bot!Stages
    <2>6. botWork' = [botWork EXCEPT ![w].at = stage, ![w].bot = b, ![w].config = config]
      BY <2>3
    <2>7. config \in Bot!Configs
      BY <2>1
    <2> HIDE DEF stage, config
    <2>8. botWork' \in W
      BY <1>0, <2>4, <2>5, <2>6, <2>7, ZenonT(30)
    <2> QED BY <1>0, <2>6, <2>8
  <1>4. ASSUME Bot!SaveFound(w) \/ Bot!UpsertSave(w) PROVE G
    BY <1>0, <1>4 DEF Bot!SaveFound, Bot!UpsertSave, Bot!Rebuilds, Bot!Goto, Bot!Stages
  <1>5. ASSUME Bot!UpsertCreate(w) PROVE G
    <2>1. Bot!Create(botWork[w].config.app) => botCreated + 1 \in 0..BotMaxBots
      BY BotTypeIs, BotConstants DEF BotInv, Bot!Create
    <2> QED BY <1>0, <1>5, <2>1 DEF Bot!UpsertCreate, Bot!Goto, Bot!Stages
  <1>6. ASSUME Bot!Rebuild(w) \/ Bot!Apply(w) \/ Bot!Sync(w) PROVE G
    BY <1>0, <1>6 DEF Bot!Rebuild, Bot!Apply, Bot!Sync, Bot!Goto, Bot!Stages
  <1>7. ASSUME Bot!Bind(w) PROVE G
    <2>1. Bot!Idle \in [at : Bot!Stages, poll : BOOLEAN, bot : 0..BotMaxBots,
                        config : Bot!Configs \cup {Bot!NoConfig}, after : {"none", "apply"}]
      BY BotConstants DEF Bot!Idle, Bot!Stages
    <2> QED BY <1>0, <1>7, <2>1 DEF Bot!Bind, Bot!Stages
  <1> QED BY <1>1, <1>2, <1>3, <1>4, <1>5, <1>6, <1>7 DEF Bot!Step

\* The credentials.
LEMMA BotFilesTyped ==
  ASSUME BotInv, Bot!Next
  PROVE  /\ botFiles' \in [0..BotMaxBots -> Bot!Configs \cup {Bot!NoConfig}]
         /\ botMirror' \in Bot!Configs \cup {Bot!NoConfig}
  <1> DEFINE C == Bot!Configs \cup {Bot!NoConfig}
             G == botFiles' \in [0..BotMaxBots -> C] /\ botMirror' \in C
  <1>0. botFiles \in [0..BotMaxBots -> C] /\ botMirror \in C /\ 0 \in 0..BotMaxBots
    BY BotConstants DEF BotInv, Bot!TypeOK
  <1>1. ASSUME NEW w \in BotWorkers, Bot!PollSave(w) PROVE G
    <2>1. PICK v \in IF Bot!HasFile(0) THEN {botFiles[0].version} ELSE BotVersions :
             botFiles' = [botFiles EXCEPT ![0] = [app |-> botScan.app, version |-> v]]
      BY <1>1 DEF Bot!PollSave
    <2>2. v \in BotVersions
      BY <1>0, <2>1 DEF Bot!HasFile, Bot!Configs
    <2>3. [app |-> botScan.app, version |-> v] \in Bot!Configs
      BY <1>1, <2>2 DEF Bot!PollSave, BotInv, BotHeld, Bot!Configs
    <2> QED BY <1>0, <1>1, <2>1, <2>3 DEF Bot!PollSave, Bot!controller
  <1>2. ASSUME NEW w \in BotWorkers, Bot!PollFill(w) PROVE G
    BY <1>0, <1>2 DEF Bot!PollFill, Bot!controller
  <1>3. ASSUME NEW w \in BotWorkers, NEW app \in Bot!Apps, NEW v \in BotVersions,
               Bot!Configure(w, app, v)
        PROVE G
    <2>1. [app |-> app, version |-> v] \in Bot!Configs
      BY DEF Bot!Configs
    <2> QED BY <1>0, <1>3, <2>1 DEF Bot!Configure, Bot!controller
  <1>4. ASSUME NEW w \in BotWorkers, Bot!SaveFound(w) \/ Bot!UpsertSave(w) PROVE G
    <2>1. botWork[w].config \in C
      BY DEF BotInv, Bot!TypeOK
    <2> QED BY <1>0, <1>4, <2>1 DEF Bot!SaveFound, Bot!UpsertSave, Bot!Delete, Bot!controller
  <1>5. ASSUME NEW w \in BotWorkers, NEW b \in Bot!BotIds, Bot!DeleteBot(w, b) PROVE G
    BY <1>0, <1>5 DEF Bot!DeleteBot, Bot!Delete, Bot!controller
  <1>6. ASSUME NEW w \in BotWorkers, Bot!Apply(w) PROVE G
    <2>1. botWork[w].config \in C
      BY DEF BotInv, Bot!TypeOK
    <2> QED BY <1>0, <1>6, <2>1 DEF Bot!Apply
  <1>7. ASSUME Bot!Restart PROVE G
    BY <1>0, <1>7 DEF Bot!Restart
  <1>8. ASSUME NEW w \in BotWorkers,
               \/ Bot!CreateBot(w) \/ Bot!PollCreate(w) \/ Bot!UpsertCreate(w)
               \/ Bot!Rebuild(w) \/ Bot!Sync(w) \/ Bot!Bind(w)
        PROVE G
    BY <1>0, <1>8
       DEF Bot!CreateBot, Bot!PollCreate, Bot!UpsertCreate, Bot!Rebuild, Bot!Sync, Bot!Bind,
       Bot!controller
  <1>9. ASSUME Bot!ScanStart \/ (\E a \in Bot!Apps : Bot!ScanEnds(a))
               \/ (\E b \in Bot!BotIds : Bot!UpdateBot(b))
        PROVE G
    BY <1>0, <1>9 DEF Bot!ScanStart, Bot!ScanEnds, Bot!UpdateBot, Bot!controller
  <1> QED BY <1>1, <1>2, <1>3, <1>4, <1>5, <1>6, <1>7, <1>8, <1>9 DEF Bot!Next, Bot!Step

\* The scans.
LEMMA BotScansTyped ==
  ASSUME BotInv, Bot!Next
  PROVE  /\ botScan' \in [done : BOOLEAN, failed : BOOLEAN, app : 0..BotMaxApps,
            bot : 0..BotMaxBots]
         /\ botScan'.done /\ ~botScan'.failed => botScan'.app \in Bot!Apps
         /\ botFlows' \subseteq Bot!Apps /\ botApps' \in 0..BotMaxApps
  <1> DEFINE S == [done : BOOLEAN, failed : BOOLEAN, app : 0..BotMaxApps, bot : 0..BotMaxBots]
             G == /\ botScan' \in S
                  /\ botScan'.done /\ ~botScan'.failed => botScan'.app \in Bot!Apps
                  /\ botFlows' \subseteq Bot!Apps /\ botApps' \in 0..BotMaxApps
  <1>0. /\ botScan \in S /\ botFlows \subseteq Bot!Apps /\ botApps \in 0..BotMaxApps
        /\ botScan.done /\ ~botScan.failed => botScan.app \in Bot!Apps
        /\ 0 \in 0..BotMaxApps /\ 0 \in 0..BotMaxBots /\ \A a \in Bot!Apps : a \in 0..BotMaxApps
    BY BotConstants DEF BotInv, Bot!TypeOK, BotHeld, Bot!Apps
  <1>1. ASSUME Bot!ScanStart PROVE G
    <2>1. botApps + 1 \in Bot!Apps
      BY <1>0, <1>1, BotConstants DEF Bot!ScanStart, Bot!Apps
    <2> QED BY <1>0, <1>1, <2>1 DEF Bot!ScanStart, Bot!Cleared
  <1>2. ASSUME NEW a \in Bot!Apps, Bot!ScanEnds(a) PROVE G
    BY <1>0, <1>2 DEF Bot!ScanEnds
  <1>3. ASSUME NEW w \in BotWorkers, Bot!PollCreate(w) PROVE G
    <2>1. Bot!Create(botScan.app) => botCreated + 1 \in 0..BotMaxBots
      BY BotTypeIs, BotConstants DEF BotInv, Bot!Create
    <2> QED BY <1>0, <1>3, <2>1 DEF Bot!PollCreate
  <1>4. ASSUME Bot!Restart PROVE G
    BY <1>0, <1>4 DEF Bot!Restart, Bot!NewScan
  <1>5. ASSUME NEW w \in BotWorkers,
               \/ Bot!CreateBot(w) \/ (\E b \in Bot!BotIds : Bot!DeleteBot(w, b))
                  \/ Bot!PollSave(w)
               \/ Bot!PollFill(w)
                  \/ (\E app \in Bot!Apps, v \in BotVersions : Bot!Configure(w, app, v))
               \/ Bot!SaveFound(w) \/ Bot!UpsertCreate(w) \/ Bot!UpsertSave(w)
               \/ Bot!Rebuild(w) \/ Bot!Apply(w) \/ Bot!Sync(w) \/ Bot!Bind(w)
        PROVE G
    BY <1>0, <1>5 DEF Bot!CreateBot, Bot!DeleteBot, Bot!PollSave, Bot!PollFill, Bot!Configure,
       Bot!SaveFound, Bot!UpsertCreate, Bot!UpsertSave, Bot!Rebuild, Bot!Apply, Bot!Sync,
       Bot!Bind,
       Bot!scans
  <1>6. ASSUME \E b \in Bot!BotIds : Bot!UpdateBot(b) PROVE G
    BY <1>0, <1>6 DEF Bot!UpdateBot, Bot!scans
  <1> QED BY <1>1, <1>2, <1>3, <1>4, <1>5, <1>6 DEF Bot!Next, Bot!Step

\* Who goes on, and how: what the next step of a request finds is as it was left.
LEMMA BotHeldKept ==
  ASSUME BotInv, Bot!Next
  PROVE  BotHeld'
  <1> DEFINE G(v) == /\ botWork'[v].at \in {"create", "fill"} => botWork'[v].poll
                     /\ botWork'[v].at = "create" => botScan'.done /\ ~botScan'.failed
                     /\ botWork'[v].at = "fill" => botScan'.bot \in 1..botCreated'
                     /\ botWork'[v].at \in {"found", "new", "save"}
                          => botWork'[v].config \in Bot!Configs
                     /\ botWork'[v].at \in {"found", "save"}
                          => botWork'[v].bot \in 1..botCreated'
             Same == UNCHANGED <<botScan, botCreated>>
  <1>0. /\ botWork \in [BotWorkers -> [at : Bot!Stages, poll : BOOLEAN, bot : 0..BotMaxBots,
                                       config : Bot!Configs \cup {Bot!NoConfig},
                                       after : {"none", "apply"}]]
        /\ botCreated \in Nat /\ BotHeld
        /\ botScan \in [done : BOOLEAN, failed : BOOLEAN, app : 0..BotMaxApps,
           bot : 0..BotMaxBots]
        /\ botCreated' \in Nat /\ botCreated <= botCreated'
    <2>1. \A app : Bot!Create(app) => botCreated' = botCreated + 1
      BY DEF Bot!Create
    <2>2. botCreated \in Nat
      BY BotTypeIs DEF BotInv
    <2>3. botCreated' = botCreated \/ botCreated' = botCreated + 1
      BY <2>1, ZenonT(30)
         DEF Bot!Next, Bot!Step, Bot!CreateBot, Bot!DeleteBot, Bot!PollSave, Bot!PollCreate,
         Bot!PollFill, Bot!Configure, Bot!SaveFound, Bot!UpsertCreate, Bot!UpsertSave,
         Bot!Rebuild,
         Bot!Apply, Bot!Sync, Bot!Bind, Bot!UpdateBot, Bot!ScanStart, Bot!ScanEnds, Bot!Restart,
         Bot!store, Bot!Delete
    <2> QED BY <2>2, <2>3 DEF BotInv, Bot!TypeOK
  <1>1. ASSUME NEW w \in BotWorkers, Bot!Step(w) PROVE \A v \in BotWorkers : G(v)
    <2>0. \A v \in BotWorkers : v # w => botWork'[v] = botWork[v]
      BY <1>1, BotRequests
    <2>1. \A v \in BotWorkers : v # w /\ botScan' = botScan => G(v)
      BY <1>0, <2>0 DEF BotHeld
    <2>2. ASSUME botWork'[w].at \notin {"create", "fill", "found", "new", "save"},
                 botScan' = botScan
          PROVE \A v \in BotWorkers : G(v)
      BY <2>1, <2>2
    <2>3. ASSUME \/ Bot!CreateBot(w) \/ (\E b \in Bot!BotIds : Bot!DeleteBot(w, b))
                    \/ Bot!PollFill(w)
                 \/ Bot!SaveFound(w) \/ Bot!UpsertSave(w)
          PROVE \A v \in BotWorkers : G(v)
      BY <1>0, <2>2, <2>3
         DEF Bot!CreateBot, Bot!DeleteBot, Bot!PollFill, Bot!SaveFound, Bot!UpsertSave,
         Bot!Rebuilds, Bot!Goto, Bot!scans
    <2>4. ASSUME Bot!Rebuild(w) \/ Bot!Apply(w) \/ Bot!Sync(w)
          PROVE \A v \in BotWorkers : G(v)
      BY <1>0, <2>2, <2>4 DEF Bot!Rebuild, Bot!Apply, Bot!Sync, Bot!Goto, Bot!scans
    <2>5. ASSUME Bot!Bind(w) PROVE \A v \in BotWorkers : G(v)
      <3>1. botWork'[w].at \in {"apply", "none"} /\ botScan' = botScan
        BY <1>0, <2>5 DEF Bot!Bind, Bot!Idle, Bot!scans
      <3> QED BY <2>2, <3>1
    <2>6. ASSUME Bot!PollSave(w) PROVE \A v \in BotWorkers : G(v)
      <3>1. botScan' = botScan /\ G(w)
        BY <1>0, <2>6 DEF Bot!PollSave, Bot!scans
      <3> QED BY <2>1, <3>1
    <2>7. ASSUME Bot!PollCreate(w) PROVE \A v \in BotWorkers : G(v)
      <3>1. /\ botWork[w].at = "create"
            /\ botScan' = [botScan EXCEPT !.bot = botScan'.bot]
            /\ botScan'.bot # botScan.bot => botScan'.bot = botCreated + 1
               /\ botCreated' = botCreated + 1
            /\ botWork'[w].at = "fill" => botScan'.bot = botCreated + 1
               /\ botCreated' = botCreated + 1
            /\ botWork'[w].at \in {"fill", "apply"} /\ botWork'[w].poll = botWork[w].poll
        <4>1. \A app : Bot!Create(app) => botCreated' = botCreated + 1
          BY DEF Bot!Create
        <4>2. CASE botScan' = [botScan EXCEPT !.bot = botCreated + 1]
                   /\ Bot!Create(botScan.app) /\ Bot!Goto(w, "fill")
          BY <1>0, <2>7, <4>1, <4>2 DEF Bot!PollCreate, Bot!At, Bot!Goto
        <4>3. CASE botScan' = botScan /\ Bot!Goto(w, "apply")
          BY <1>0, <2>7, <4>3 DEF Bot!PollCreate, Bot!At, Bot!Goto
        <4> QED BY <2>7, <4>2, <4>3 DEF Bot!PollCreate
      <3>2. botScan'.done = botScan.done /\ botScan'.failed = botScan.failed
        BY <1>0, <3>1
      <3>3. G(w)
        BY <1>0, <3>1 DEF BotHeld
      <3>4. \A v \in BotWorkers : v # w => G(v)
        BY <1>0, <2>0, <3>1, <3>2 DEF BotHeld
      <3> QED BY <3>3, <3>4
    <2>8. ASSUME NEW app \in Bot!Apps, NEW v \in BotVersions, Bot!Configure(w, app, v)
          PROVE \A u \in BotWorkers : G(u)
      <3>1. [app |-> app, version |-> v] \in Bot!Configs
        BY DEF Bot!Configs
      <3>2. PICK b \in Bot!FindByAppID(app) \cup {0} :
               /\ b = 0 <=> Bot!FindByAppID(app) = {}
               /\ botWork' = [botWork EXCEPT ![w].at = IF b = 0 THEN "new" ELSE "found",
                                             ![w].bot = b,
                                             ![w].config = [app |-> app, version |-> v]]
        BY <2>8 DEF Bot!Configure
      <3>3. b # 0 => b \in 1..botCreated
        BY BotTypeIs DEF BotInv, Bot!FindByAppID
      <3>4. botScan' = botScan
        BY <2>8 DEF Bot!Configure, Bot!scans
      <3>5. /\ botWork'[w].at = (IF b = 0 THEN "new" ELSE "found")
            /\ botWork'[w].bot = b /\ botWork'[w].config = [app |-> app, version |-> v]
        BY <1>0, <3>2
      <3>6. G(w)
        <4>1. CASE b = 0
          BY <3>1, <3>5, <4>1
        <4>2. CASE b # 0
          <5>1. b \in 1..botCreated'
            BY <1>0, <3>3, <4>2
          <5> QED BY <3>1, <3>5, <4>2, <5>1
        <4> QED BY <4>1, <4>2
      <3> QED BY <2>1, <3>4, <3>6
    <2>9. ASSUME Bot!UpsertCreate(w) PROVE \A v \in BotWorkers : G(v)
      <3>1. botScan' = botScan
        BY <2>9 DEF Bot!UpsertCreate, Bot!scans
      <3>2. CASE Bot!Goto(w, "apply")
        BY <1>0, <2>2, <3>1, <3>2 DEF Bot!Goto
      <3>3. CASE /\ Bot!Create(botWork[w].config.app)
                 /\ botWork' = [botWork EXCEPT ![w].at = "save", ![w].bot = botCreated + 1]
        <4>1. /\ botWork'[w].at = "save" /\ botWork'[w].bot = botCreated + 1
              /\ botWork'[w].config = botWork[w].config
          BY <1>0, <3>3
        <4>2. botCreated' = botCreated + 1 /\ botCreated + 1 \in 1..botCreated'
          BY <1>0, <3>3 DEF Bot!Create
        <4>3. botWork[w].config \in Bot!Configs
          BY <2>9 DEF Bot!UpsertCreate, Bot!At, BotInv, BotHeld
        <4>4. G(w)
          BY <4>1, <4>2, <4>3
        <4> QED BY <2>1, <3>1, <4>4
      <3> QED BY <2>9, <3>2, <3>3 DEF Bot!UpsertCreate
    <2> QED BY <1>1, <2>3, <2>4, <2>5, <2>6, <2>7, <2>8, <2>9 DEF Bot!Step
  <1>2. ASSUME Bot!ScanStart \/ (\E a \in Bot!Apps : Bot!ScanEnds(a))
        PROVE \A v \in BotWorkers : G(v)
    <2>1. \A v \in BotWorkers : ~botWork[v].poll
      BY <1>2 DEF Bot!ScanStart, Bot!ScanEnds, Bot!ScanIsFree
    <2>2. botWork' = botWork
      BY <1>2 DEF Bot!ScanStart, Bot!ScanEnds
    <2> QED BY <1>0, <2>1, <2>2 DEF BotHeld
  <1>3. ASSUME NEW b \in Bot!BotIds, Bot!UpdateBot(b) PROVE \A v \in BotWorkers : G(v)
    BY <1>0, <1>3 DEF Bot!UpdateBot, Bot!scans, BotHeld
  <1>4. ASSUME Bot!Restart PROVE \A v \in BotWorkers : G(v)
    BY <1>4 DEF Bot!Restart, Bot!Idle
  <1>5. \A v \in BotWorkers : G(v)
    BY <1>1, <1>2, <1>3, <1>4 DEF Bot!Next
  <1> HIDE DEF G
  <1>6. (botScan.done /\ ~botScan.failed => botScan.app \in Bot!Apps)'
    BY BotScansTyped
  <1> QED BY <1>5, <1>6 DEF G, BotHeld

LEMMA BotFreshKept ==
  ASSUME BotInv, Bot!Next
  PROVE  BotFresh'
  <1>0. /\ botFiles \in [0..BotMaxBots -> Bot!Configs \cup {Bot!NoConfig}]
        /\ BotMaxBots \in Nat /\ botCreated \in Nat /\ BotFresh
        /\ 0 \in 0..BotMaxBots /\ \A b \in 1..BotMaxBots : b \in 0..BotMaxBots /\ b # 0
        /\ \A app : Bot!Create(app) => botCreated' = botCreated + 1
    BY BotConstants, BotTypeIs DEF BotInv, Bot!TypeOK, Bot!Create
  <1>1. \A k \in 0..BotMaxBots : \A c :
           (/\ k = 0 \/ k \in 1..botCreated
            /\ botFiles' = [botFiles EXCEPT ![k] = c] /\ botCreated' = botCreated)
           => BotFresh'
    BY <1>0 DEF BotFresh, Bot!NoConfig
  <1>2. ASSUME NEW k, Bot!Delete(k) PROVE BotFresh'
    BY <1>0, <1>2 DEF BotFresh, Bot!NoConfig, Bot!Delete
  <1>3. ASSUME botFiles' = botFiles, botCreated' = botCreated \/ botCreated' = botCreated + 1
        PROVE BotFresh'
    BY <1>0, <1>3 DEF BotFresh, Bot!NoConfig
  <1>4. ASSUME NEW w \in BotWorkers, Bot!PollSave(w) PROVE BotFresh'
    <2>1. botCreated' = botCreated /\ \E c : botFiles' = [botFiles EXCEPT ![0] = c]
      BY <1>4 DEF Bot!PollSave, Bot!store
    <2> QED BY <1>0, <1>1, <2>1
  <1>5. ASSUME NEW w \in BotWorkers, Bot!PollFill(w) PROVE BotFresh'
    <2>1. botScan.bot \in 1..botCreated /\ botScan.bot \in 0..BotMaxBots
      BY <1>5 DEF Bot!PollFill, Bot!At, BotInv, BotHeld, Bot!TypeOK
    <2>2. botCreated' = botCreated /\ botFiles' = [botFiles EXCEPT ![botScan.bot] = botFiles[0]]
      BY <1>5 DEF Bot!PollFill, Bot!store
    <2> QED BY <1>0, <1>1, <2>1, <2>2
  <1>6. ASSUME NEW w \in BotWorkers, \E app \in Bot!Apps,
               v \in BotVersions : Bot!Configure(w, app, v)
        PROVE  BotFresh'
    <2>1. botCreated' = botCreated /\ \E c : botFiles' = [botFiles EXCEPT ![0] = c]
      BY <1>6 DEF Bot!Configure, Bot!store
    <2> QED BY <1>0, <1>1, <2>1
  <1>7. ASSUME NEW w \in BotWorkers, Bot!SaveFound(w) \/ Bot!UpsertSave(w) PROVE BotFresh'
    <2>1. botWork[w].bot \in 1..botCreated /\ botWork[w].bot \in 0..BotMaxBots
      BY <1>7 DEF Bot!SaveFound, Bot!UpsertSave, Bot!At, BotInv, BotHeld, Bot!TypeOK
    <2> QED BY <1>0, <1>1, <1>2, <1>7, <2>1 DEF Bot!SaveFound, Bot!UpsertSave, Bot!store
  <1>8. ASSUME NEW w \in BotWorkers, Bot!CreateBot(w) \/ Bot!PollCreate(w)
               \/ Bot!UpsertCreate(w)
        PROVE  BotFresh'
    BY <1>0, <1>3, <1>8 DEF Bot!CreateBot, Bot!PollCreate, Bot!UpsertCreate, Bot!store
  <1>9. ASSUME NEW w \in BotWorkers, NEW b \in Bot!BotIds, Bot!DeleteBot(w, b) PROVE BotFresh'
    BY <1>2, <1>9 DEF Bot!DeleteBot
  <1>10. ASSUME NEW w \in BotWorkers, Bot!Rebuild(w) \/ Bot!Apply(w) \/ Bot!Sync(w)
                \/ Bot!Bind(w)
        PROVE  BotFresh'
    BY <1>3, <1>10 DEF Bot!Rebuild, Bot!Apply, Bot!Sync, Bot!Bind, Bot!store
  <1>11. ASSUME \/ Bot!ScanStart \/ (\E a \in Bot!Apps : Bot!ScanEnds(a)) \/ Bot!Restart
                \/ (\E b \in Bot!BotIds : Bot!UpdateBot(b))
        PROVE  BotFresh'
    BY <1>3, <1>11 DEF Bot!ScanStart, Bot!ScanEnds, Bot!Restart, Bot!UpdateBot, Bot!store
  <1> QED BY <1>4, <1>5, <1>6, <1>7, <1>8, <1>9, <1>10, <1>11 DEF Bot!Next, Bot!Step

\* What should run changes with the records, their credentials and the channel's copy.
LEMMA BotSpecsSame ==
  ASSUME botMirror' = botMirror, DOMAIN botBots \subseteq DOMAIN botBots',
         \A b \in DOMAIN botBots : botFiles'[b] = botFiles[b],
         \A b \in DOMAIN botBots' : b \in DOMAIN botBots \/ botFiles'[b] = Bot!NoConfig
  PROVE  Bot!Specs(botFiles, botMirror)' = Bot!Specs(botFiles, botMirror)
  <1> DEFINE now == {c \in DOMAIN botBots : Bot!HasFile(c)}
             then == {c \in DOMAIN botBots' : Bot!HasFile(c)'}
  <1>1. now = then
    BY DEF Bot!HasFile, Bot!NoConfig
  <1>2. \A b \in now : botFiles'[b] = botFiles[b]
    OBVIOUS
  <1>3. Bot!Named(botFiles) = {[bot |-> b, config |-> botFiles[b]] : b \in now}
    BY DEF Bot!Named
  <1>4. Bot!Named(botFiles)' = {[bot |-> b, config |-> botFiles'[b]] : b \in then}
    BY DEF Bot!Named
  <1> HIDE DEF now, then
  <1>5. Bot!Named(botFiles)' = Bot!Named(botFiles)
    BY <1>1, <1>2, <1>3, <1>4
  <1> QED BY <1>5 DEF Bot!Specs, Bot!NoConfig

LEMMA BotCurrentKept ==
  ASSUME BotInv, Bot!Next
  PROVE  BotCurrent'
  <1> DEFINE Due(v) == botWork[v].at \in {"rebuild", "apply"}
             Should == Bot!Specs(botFiles, botMirror)
  <1>0. /\ botWork \in [BotWorkers -> [at : Bot!Stages, poll : BOOLEAN, bot : 0..BotMaxBots,
                                       config : Bot!Configs \cup {Bot!NoConfig},
                                       after : {"none", "apply"}]]
        /\ botFiles \in [0..BotMaxBots -> Bot!Configs \cup {Bot!NoConfig}]
        /\ DOMAIN botBots \subseteq 1..botCreated /\ botCreated <= BotMaxBots
        /\ botCreated \in Nat /\ BotMaxBots \in Nat
        /\ \A b \in DOMAIN botBots : b \in 0..BotMaxBots /\ b # 0
        /\ BotCurrent
    BY BotConstants, BotTypeIs DEF BotInv, Bot!TypeOK
  <1>1. ASSUME NEW w \in BotWorkers, Due(w)' PROVE BotCurrent'
    BY <1>1 DEF BotCurrent
  <1>2. ASSUME botRunning' = Should' PROVE BotCurrent'
    BY <1>2 DEF BotCurrent
  <1>3. ASSUME NEW w \in BotWorkers, Bot!Step(w), ~Due(w), botRunning' = botRunning,
               Should' = Should
        PROVE BotCurrent'
    <2>1. \A v \in BotWorkers : v # w => botWork'[v] = botWork[v]
      BY <1>3, BotRequests
    <2>2. (\A v \in BotWorkers : ~Due(v)') => (\A v \in BotWorkers : ~Due(v))
      BY <1>3, <2>1
    <2> QED BY <1>0, <1>3, <2>2 DEF BotCurrent
  <1>4. ASSUME NEW w \in BotWorkers,
               \/ Bot!CreateBot(w) \/ (\E b \in Bot!BotIds : Bot!DeleteBot(w, b))
                  \/ Bot!PollFill(w)
               \/ Bot!SaveFound(w) \/ Bot!UpsertSave(w)
        PROVE BotCurrent'
    <2>1. Due(w)'
      BY <1>0, <1>4
         DEF Bot!CreateBot, Bot!DeleteBot, Bot!PollFill, Bot!SaveFound, Bot!UpsertSave,
         Bot!Rebuilds, Bot!Goto
    <2> QED BY <1>1, <2>1
  <1>5. ASSUME NEW w \in BotWorkers,
               Bot!PollSave(w)
               \/ (\E app \in Bot!Apps, v \in BotVersions : Bot!Configure(w, app, v))
        PROVE BotCurrent'
    <2>1. /\ \E c : botFiles' = [botFiles EXCEPT ![0] = c]
          /\ botBots' = botBots /\ botMirror' = botMirror /\ botRunning' = botRunning /\ ~Due(w)
      BY <1>5 DEF Bot!PollSave, Bot!Configure, Bot!store, Bot!controller, Bot!At
    <2>2. Should' = Should
      BY <1>0, <2>1, BotSpecsSame
    <2> QED BY <1>3, <1>5, <2>1, <2>2 DEF Bot!Step
  <1>6. ASSUME NEW w \in BotWorkers, Bot!PollCreate(w) \/ Bot!UpsertCreate(w)
        PROVE BotCurrent'
    <2>1. CASE Bot!Goto(w, "apply")
      <3>1. Due(w)'
        BY <1>0, <2>1 DEF Bot!Goto
      <3> QED BY <1>1, <3>1
    <2>2. CASE \E app : Bot!Create(app)
      <3>1. /\ botFiles' = botFiles /\ botMirror' = botMirror /\ botRunning' = botRunning
               /\ ~Due(w)
        BY <1>6 DEF Bot!PollCreate, Bot!UpsertCreate, Bot!controller, Bot!At
      <3>2. /\ DOMAIN botBots' = DOMAIN botBots \cup {botCreated + 1} /\ botCreated < BotMaxBots
        BY <2>2 DEF Bot!Create
      <3>3. botFiles[botCreated + 1] = Bot!NoConfig
        <4>1. botCreated + 1 \in 1..BotMaxBots /\ botCreated + 1 > botCreated
          BY <1>0, <3>2
        <4> QED BY <4>1 DEF BotInv, BotFresh
      <3>4. Should' = Should
        BY <3>1, <3>2, <3>3, BotSpecsSame
      <3> QED BY <1>3, <1>6, <3>1, <3>4 DEF Bot!Step
    <2> QED BY <1>6, <2>1, <2>2 DEF Bot!PollCreate, Bot!UpsertCreate
  <1>7. ASSUME NEW w \in BotWorkers, Bot!Rebuild(w) \/ Bot!Apply(w)
        PROVE BotCurrent'
    <2>1. /\ botFiles' = botFiles /\ botBots' = botBots
          /\ Bot!Replace(Bot!Specs(botFiles, botMirror'))
      BY <1>7 DEF Bot!Rebuild, Bot!Apply, Bot!store
    <2>2. botMirror' \in Bot!Configs \cup {Bot!NoConfig}
      BY BotFilesTyped
    <2>3. \A i, j \in Bot!Specs(botFiles, botMirror') : i.bot = j.bot => i = j
      <3> DEFINE m == botMirror'
      <3>1. m \in Bot!Configs \cup {Bot!NoConfig}
        BY <2>2
      <3> HIDE DEF m
      <3>2. \A i, j \in Bot!Specs(botFiles, m) : i.bot = j.bot => i = j
        BY <3>1, BotSpecs DEF BotInv
      <3> QED BY <3>2 DEF m
    <2>4. botRunning' = Bot!Specs(botFiles, botMirror')
      <3> DEFINE S == Bot!Specs(botFiles, botMirror')
      <3>1. Bot!Replace(S) /\ \A i, j \in S : i.bot = j.bot => i = j
        BY <2>1, <2>3
      <3> HIDE DEF S
      <3>2. botRunning' = S
        BY <3>1, BotReplaces DEF BotInv
      <3> QED BY <3>2 DEF S
    <2>5. Bot!Specs(botFiles, botMirror') = Should'
      BY <2>1 DEF Bot!Specs, Bot!Named, Bot!HasFile
    <2> QED BY <1>2, <2>4, <2>5
  <1>8. ASSUME NEW w \in BotWorkers, Bot!Sync(w) \/ Bot!Bind(w)
        PROVE BotCurrent'
    <2>1. /\ botFiles' = botFiles /\ botBots' = botBots /\ botMirror' = botMirror
          /\ botRunning' = botRunning /\ ~Due(w)
      BY <1>8 DEF Bot!Sync, Bot!Bind, Bot!store, Bot!At
    <2>2. Should' = Should
      BY <2>1 DEF Bot!Specs, Bot!Named, Bot!HasFile
    <2> QED BY <1>3, <1>8, <2>1, <2>2 DEF Bot!Step
  <1>9. ASSUME \/ Bot!ScanStart \/ (\E a \in Bot!Apps : Bot!ScanEnds(a))
               \/ (\E b \in Bot!BotIds : Bot!UpdateBot(b))
        PROVE BotCurrent'
    <2>1. /\ botFiles' = botFiles /\ DOMAIN botBots' = DOMAIN botBots /\ botMirror' = botMirror
          /\ botRunning' = botRunning /\ botWork' = botWork
      BY <1>9 DEF Bot!ScanStart, Bot!ScanEnds, Bot!UpdateBot, Bot!store, Bot!controller
    <2>2. Should' = Should
      BY <2>1, BotSpecsSame
    <2> QED BY <1>0, <2>1, <2>2 DEF BotCurrent
  <1>10. ASSUME Bot!Restart PROVE BotCurrent'
    <2>1. Bot!Specs(botFiles, botFiles[0]) = Should'
      BY <1>10 DEF Bot!Restart, Bot!store, Bot!Specs, Bot!Named, Bot!HasFile
    <2> QED BY <1>2, <1>10, <2>1 DEF Bot!Restart
  <1> QED BY <1>4, <1>5, <1>6, <1>7, <1>8, <1>9, <1>10 DEF Bot!Next, Bot!Step

\* The controller: what runs is typed, and one request at a time is inside.
LEMMA BotControllerKept ==
  ASSUME BotInv, Bot!Next
  PROVE  /\ botRunning' \subseteq [bot : 0..BotMaxBots, config : Bot!Configs]
         /\ \A i, j \in botRunning' : i.bot = j.bot => i = j
         /\ botBound' \subseteq botRunning' /\ botRoutes' \subseteq 0..BotMaxBots
         /\ botRebuilder' \in BotWorkers \cup {NoValue}
         /\ BotHolder' /\ BotRouted'
  <1> DEFINE R == [bot : 0..BotMaxBots, config : Bot!Configs]
             T == /\ botRunning' \subseteq R
                  /\ \A i, j \in botRunning' : i.bot = j.bot => i = j
                  /\ botBound' \subseteq botRunning' /\ botRoutes' \subseteq 0..BotMaxBots
                  /\ botRebuilder' \in BotWorkers \cup {NoValue}
             G == T /\ BotHolder' /\ BotRouted'
             Inside(v) == botWork[v].at \in {"sync", "bind"}
  <1>0. /\ botWork \in [BotWorkers -> [at : Bot!Stages, poll : BOOLEAN, bot : 0..BotMaxBots,
                                       config : Bot!Configs \cup {Bot!NoConfig},
                                       after : {"none", "apply"}]]
        /\ botRunning \subseteq R
        /\ \A i, j \in botRunning : i.bot = j.bot => i = j
        /\ botBound \subseteq botRunning /\ botRoutes \subseteq 0..BotMaxBots
        /\ botRebuilder \in BotWorkers \cup {NoValue} /\ NoValue \notin BotWorkers
        /\ BotHolder /\ BotRouted
    BY BotConstants DEF BotInv, Bot!TypeOK
  <1>1. ASSUME UNCHANGED Bot!controller,
               \A v \in BotWorkers : /\ Inside(v)' <=> Inside(v)
                                     /\ botWork'[v].at = "bind" => botWork[v].at = "bind"
        PROVE  G
    <2>1. /\ botRunning' = botRunning /\ botBound' = botBound /\ botRoutes' = botRoutes
          /\ botRebuilder' = botRebuilder
      BY <1>1 DEF Bot!controller
    <2>2. BotHolder'
      BY <1>0, <1>1, <2>1 DEF BotHolder
    <2>3. BotRouted'
      BY <1>0, <1>1, <2>1 DEF BotRouted
    <2> QED BY <1>0, <2>1, <2>2, <2>3
  <1>2. ASSUME NEW w \in BotWorkers, Bot!Step(w), UNCHANGED Bot!controller,
               ~Inside(w), ~Inside(w)'
        PROVE  G
    <2>1. \A v \in BotWorkers : v # w => botWork'[v] = botWork[v]
      BY <1>2, BotRequests
    <2> QED BY <1>1, <1>2, <2>1
  <1>3. ASSUME NEW w \in BotWorkers,
               Bot!CreateBot(w) \/ (\E b \in Bot!BotIds : Bot!DeleteBot(w, b))
        PROVE  G
    <2>1. UNCHANGED Bot!controller /\ ~Inside(w) /\ ~Inside(w)'
      BY <1>0, <1>3 DEF Bot!CreateBot, Bot!DeleteBot, Bot!Rebuilds, Bot!At
    <2> QED BY <1>2, <1>3, <2>1 DEF Bot!Step
  <1>4. ASSUME NEW w \in BotWorkers, Bot!PollSave(w) \/ Bot!PollCreate(w) \/ Bot!PollFill(w)
        PROVE  G
    <2>1. UNCHANGED Bot!controller /\ ~Inside(w)
      BY <1>4 DEF Bot!PollSave, Bot!PollCreate, Bot!PollFill, Bot!At
    <2>2. ~Inside(w)'
      BY <1>0, <1>4 DEF Bot!PollSave, Bot!PollCreate, Bot!PollFill, Bot!Rebuilds, Bot!Goto
    <2> QED BY <1>2, <1>4, <2>1, <2>2 DEF Bot!Step
  <1>5. ASSUME NEW w \in BotWorkers, NEW app \in Bot!Apps, NEW v \in BotVersions,
               Bot!Configure(w, app, v)
        PROVE  G
    <2>1. UNCHANGED Bot!controller /\ ~Inside(w)
      BY <1>5 DEF Bot!Configure, Bot!At
    <2>2. botWork'[w].at \in {"new", "found"}
      BY <1>0, <1>5 DEF Bot!Configure
    <2> QED BY <1>2, <1>5, <2>1, <2>2 DEF Bot!Step
  <1>6. ASSUME NEW w \in BotWorkers, Bot!SaveFound(w) \/ Bot!UpsertCreate(w)
               \/ Bot!UpsertSave(w)
        PROVE  G
    <2>1. UNCHANGED Bot!controller /\ ~Inside(w)
      BY <1>6 DEF Bot!SaveFound, Bot!UpsertCreate, Bot!UpsertSave, Bot!At
    <2>2. ~Inside(w)'
      BY <1>0, <1>6 DEF Bot!SaveFound, Bot!UpsertCreate, Bot!UpsertSave, Bot!Rebuilds, Bot!Goto
    <2> QED BY <1>2, <1>6, <2>1, <2>2 DEF Bot!Step
  <1>7. ASSUME NEW w \in BotWorkers, Bot!Rebuild(w) \/ Bot!Apply(w)
        PROVE  G
    <2>1. /\ botRebuilder = NoValue /\ botRebuilder' = w /\ botRoutes' = botRoutes
          /\ Bot!Replace(Bot!Specs(botFiles, botMirror'))
      BY <1>7 DEF Bot!Rebuild, Bot!Apply
    <2> DEFINE m == botMirror'
               S == Bot!Specs(botFiles, m)
    <2>2. m \in Bot!Configs \cup {Bot!NoConfig}
      BY BotFilesTyped
    <2> HIDE DEF m
    <2>3. S \subseteq R /\ \A i, j \in S : i.bot = j.bot => i = j
      BY <2>2, BotSpecs DEF BotInv
    <2>4. Bot!Replace(S)
      BY <2>1 DEF m
    <2> HIDE DEF S
    <2>5. botRunning' = S /\ botBound' = botBound \cap S
      BY <2>3, <2>4, BotReplaces DEF BotInv
    <2>6. T
      BY <1>0, <2>1, <2>3, <2>5
    <2>7. \A v \in BotWorkers : v # w => botWork'[v] = botWork[v]
      BY <1>7, BotRequests DEF Bot!Step
    <2>8. botWork'[w].at = "sync"
      BY <1>0, <1>7 DEF Bot!Rebuild, Bot!Apply, Bot!Goto
    <2>9. \A v \in BotWorkers : ~Inside(v)
      BY <1>0, <2>1 DEF BotHolder
    <2>10. BotHolder'
      BY <1>0, <2>1, <2>7, <2>8, <2>9 DEF BotHolder
    <2>11. BotRouted'
      BY <1>0, <2>1, <2>5, <2>7, <2>8, <2>9 DEF BotRouted
    <2> QED BY <2>6, <2>10, <2>11
  <1>8. ASSUME NEW w \in BotWorkers, Bot!Sync(w) PROVE G
    <2>1. /\ botRunning' = botRunning /\ botBound' = botBound /\ botRebuilder' = botRebuilder
          /\ botRoutes' = {i.bot : i \in botRunning} /\ Inside(w)
      BY <1>8 DEF Bot!Sync, Bot!At
    <2>2. Inside(w)'
      BY <1>0, <1>8 DEF Bot!Sync, Bot!Goto
    <2>3. \A v \in BotWorkers : v # w => botWork'[v] = botWork[v]
      BY <1>8, BotRequests DEF Bot!Step
    <2>4. T
      BY <1>0, <2>1
    <2>5. BotHolder'
      BY <1>0, <2>1, <2>2, <2>3 DEF BotHolder
    <2>6. BotRouted'
      BY <1>0, <2>1 DEF BotRouted
    <2> QED BY <2>4, <2>5, <2>6
  <1>9. ASSUME NEW w \in BotWorkers, Bot!Bind(w) PROVE G
    <2>1. /\ botRunning' = botRunning /\ botBound' = botRunning /\ botRebuilder' = NoValue
          /\ botRoutes' = botRoutes /\ botWork[w].at = "bind"
      BY <1>9 DEF Bot!Bind, Bot!At
    <2>2. ~Inside(w)'
      BY <1>0, <1>9 DEF Bot!Bind, Bot!Idle
    <2>3. \A v \in BotWorkers : v # w => botWork'[v] = botWork[v]
      BY <1>9, BotRequests DEF Bot!Step
    <2>4. T
      BY <1>0, <2>1
    <2>5. botRebuilder = w
      BY <1>0, <2>1 DEF BotHolder
    <2>6. \A v \in BotWorkers : ~Inside(v)'
      BY <1>0, <2>2, <2>3, <2>5 DEF BotHolder
    <2>7. BotHolder'
      BY <1>0, <2>1, <2>6 DEF BotHolder
    <2>8. BotRouted'
      BY <1>0, <2>1, <2>6 DEF BotRouted
    <2> QED BY <2>4, <2>7, <2>8
  <1>10. ASSUME \/ Bot!ScanStart \/ (\E a \in Bot!Apps : Bot!ScanEnds(a))
                \/ (\E b \in Bot!BotIds : Bot!UpdateBot(b))
         PROVE G
    <2>1. UNCHANGED Bot!controller /\ botWork' = botWork
      BY <1>10 DEF Bot!ScanStart, Bot!ScanEnds, Bot!UpdateBot
    <2> QED BY <1>1, <2>1
  <1>11. ASSUME Bot!Restart PROVE G
    <2> DEFINE S == Bot!Specs(botFiles, botFiles[0])
    <2>1. botFiles[0] \in Bot!Configs \cup {Bot!NoConfig}
      BY BotConstants DEF BotInv, Bot!TypeOK
    <2>2. S \subseteq R /\ \A i, j \in S : i.bot = j.bot => i = j
      BY <2>1, BotSpecs DEF BotInv
    <2>3. /\ botRunning' = S /\ botBound' = S /\ botRoutes' = {i.bot : i \in S}
             /\ botRebuilder' = NoValue
          /\ \A v \in BotWorkers : botWork'[v].at = "none"
      BY <1>11 DEF Bot!Restart, Bot!Idle
    <2> HIDE DEF S
    <2>4. T
      BY <2>2, <2>3
    <2>5. BotHolder'
      BY <1>0, <2>3 DEF BotHolder
    <2>6. BotRouted'
      BY <2>3 DEF BotRouted
    <2> QED BY <2>4, <2>5, <2>6
  <1>12. G
    BY <1>3, <1>4, <1>5, <1>6, <1>7, <1>8, <1>9, <1>10, <1>11 DEF Bot!Next, Bot!Step
  <1> QED BY <1>12

LEMMA BotBegins ==
  ASSUME Bot!Init
  PROVE  BotInv
  <1>1. /\ botBots = << >> /\ botCreated = 0
           /\ botFiles = [b \in 0..BotMaxBots |-> Bot!NoConfig]
        /\ botMirror = Bot!NoConfig /\ botRunning = {} /\ botBound = {} /\ botRoutes = {}
        /\ botRebuilder = NoValue /\ botScan = Bot!NewScan /\ botFlows = {} /\ botApps = 0
        /\ botWork = [w \in BotWorkers |-> Bot!Idle]
    BY DEF Bot!Init
  <1>2. DOMAIN botBots = {} /\ Bot!Admin = {} /\ Bot!Cardinality(Bot!Admin) = 0
    BY <1>1, FS_EmptySet, BotCardinality DEF Bot!Admin
  <1>3. \A w \in BotWorkers : botWork[w] = Bot!Idle
    BY <1>1
  <1>4. Bot!Idle \in [at : Bot!Stages, poll : BOOLEAN, bot : 0..BotMaxBots,
                      config : Bot!Configs \cup {Bot!NoConfig}, after : {"none", "apply"}]
    BY BotConstants DEF Bot!Idle, Bot!Stages
  <1>5. Bot!TypeOK
    BY <1>1, <1>2, <1>4, BotConstants DEF Bot!TypeOK, Bot!NewScan
  <1>6. Bot!Specs(botFiles, botMirror) = {}
    BY <1>1, <1>2 DEF Bot!Specs, Bot!Named
  <1>7. BotHeld /\ BotFresh
    BY <1>1, <1>3, BotConstants DEF BotHeld, BotFresh, Bot!NewScan, Bot!Idle
  <1>8. BotCurrent /\ BotHolder /\ BotRouted
    BY <1>1, <1>3, <1>6, BotConstants DEF BotCurrent, BotHolder, BotRouted, Bot!Idle
  <1> QED BY <1>5, <1>7, <1>8 DEF BotInv

LEMMA BotStep ==
  ASSUME BotInv, Bot!Next
  PROVE  BotInv'
  <1>1. botWork' \in [BotWorkers -> [at : Bot!Stages, poll : BOOLEAN, bot : 0..BotMaxBots,
                                     config : Bot!Configs \cup {Bot!NoConfig},
                                     after : {"none", "apply"}]]
    <2>1. ASSUME NEW w \in BotWorkers, Bot!Step(w)
          PROVE botWork' \in [BotWorkers -> [at : Bot!Stages, poll : BOOLEAN,
                bot : 0..BotMaxBots,
                                             config : Bot!Configs \cup {Bot!NoConfig},
                                             after : {"none", "apply"}]]
      BY <2>1, BotRequests
    <2>2. ASSUME UNCHANGED botWork
          PROVE botWork' \in [BotWorkers -> [at : Bot!Stages, poll : BOOLEAN,
                bot : 0..BotMaxBots,
                                             config : Bot!Configs \cup {Bot!NoConfig},
                                             after : {"none", "apply"}]]
      BY <2>2 DEF BotInv, Bot!TypeOK
    <2>3. ASSUME Bot!Restart
          PROVE botWork' \in [BotWorkers -> [at : Bot!Stages, poll : BOOLEAN,
                bot : 0..BotMaxBots,
                                             config : Bot!Configs \cup {Bot!NoConfig},
                                             after : {"none", "apply"}]]
      BY <2>3, BotConstants DEF Bot!Restart, Bot!Idle, Bot!Stages
    <2> QED BY <2>1, <2>2, <2>3 DEF Bot!Next, Bot!UpdateBot, Bot!ScanStart, Bot!ScanEnds
  <1>2. Bot!TypeOK'
    BY <1>1, BotRecordsTyped, BotFilesTyped, BotScansTyped, BotControllerKept DEF Bot!TypeOK
  <1> QED BY <1>2, BotHeldKept, BotFreshKept, BotCurrentKept, BotControllerKept DEF BotInv

\* While nobody is about to call the controller, what runs is what is recorded.
LEMMA BotTrue ==
  ASSUME BotInv
  PROVE  Bot!BotsRunAsRecorded
  <1>1. ASSUME \A w \in BotWorkers : botWork[w].at \notin {"rebuild", "apply", "sync", "bind"}
        PROVE  botRunning = Bot!Specs(botFiles, botMirror) /\ botBound = botRunning
    <2>1. botRunning = Bot!Specs(botFiles, botMirror)
      BY <1>1 DEF BotInv, BotCurrent
    <2>2. botRebuilder = NoValue
      BY <1>1 DEF BotInv, BotHolder, Bot!TypeOK
    <2> QED BY <2>1, <2>2 DEF BotInv, BotHolder
  <1>2. \A i \in botBound : Bot!SenderFor(i.bot) = {i.bot}
    BY DEF BotInv, BotRouted, Bot!SenderFor
  <1> QED BY <1>1, <1>2 DEF Bot!BotsRunAsRecorded

------------------------------------------------------------------------------
(* The preview. What is registered as a server, and what a stop waits for, has *)
(* been started.                                                               *)

SiteInv ==
    /\ Site!TypeOK
    /\ siteRegistered \in Site!Servers => siteProcess[siteRegistered] # "none"
    /\ \A who \in Site!Stoppers :
          siteStopping[who] # Site!None => siteProcess[siteStopping[who]] # "none"

LEMMA SiteNumbers ==
    ASSUME Site!PreviewAssumption
    PROVE  /\ Site!Servers \subseteq Site!Instances /\ Site!None \notin Site!Instances
           /\ Site!Static \in Site!Instances \ Site!Servers
           /\ Site!ErrorOnly \in Site!Instances \ Site!Servers
           /\ Site!Instances = Site!Servers \cup {Site!Static, Site!ErrorOnly}
           /\ SiteMaxSpawns \in Nat /\ SiteMaxTurns \in Nat /\ SiteMaxEvents \in Nat
BY
   DEF Site!PreviewAssumption, Site!Servers, Site!Instances, Site!Static, Site!ErrorOnly,
       Site!None

SiteStates == {"none", "starting", "running", "stopped", "error"}
SiteEvents == {"task_completed", "task_updated", "cancelled", "task_deleted"}

LEMMA SiteBegins ==
    ASSUME Site!PreviewAssumption, Site!Init
    PROVE  SiteInv
<1>1. siteEvents \in Seq(SiteEvents) /\ Len(siteEvents) = 0
  BY DEF Site!Init
<1>2. /\ siteSpawned \in 0..SiteMaxSpawns /\ siteTurns \in 0..SiteMaxTurns
      /\ Len(siteEvents) <= SiteMaxEvents
  BY <1>1, SiteNumbers DEF Site!Init
<1>3. /\ siteSpawn \in [Site!Servers -> {"no", "begun", "probing", "seen", "late", "done"}]
      /\ siteProcess \in [Site!Servers -> {"none", "up", "listening", "dead"}]
      /\ siteWatcher \in [Site!Servers -> {"no", "waiting", "done"}]
      /\ siteState \in [Site!Instances -> SiteStates]
      /\ siteStopped \in [Site!Instances -> BOOLEAN]
      /\ siteStopping \in [Site!Stoppers -> {Site!None} \cup Site!Servers]
  BY DEF Site!Init, SiteStates
<1>4. \A k \in Site!Servers : (siteProcess[k] = "none") <=> (siteWatcher[k] = "no")
  BY DEF Site!Init
<1>5. Site!TypeOK
  BY <1>1, <1>2, <1>3, <1>4 DEF Site!Init, Site!TypeOK, SiteEvents, SiteStates
<1> QED  BY <1>5, SiteNumbers DEF SiteInv, Site!Init

(* A start leaves what is, begins a server, or has a page registered at once.  *)
LEMMA SiteStart ==
    ASSUME Site!PreviewAssumption, SiteInv, Site!StartBody,
           UNCHANGED <<siteProcess, siteWatcher, siteStopping, siteSite, siteTask, siteTurns,
           siteEvents>>,
           siteRestart' \in BOOLEAN
    PROVE  SiteInv'
<1> USE SiteNumbers
<1>1. CASE UNCHANGED <<siteSpawned, siteSpawn, siteRegistered, siteState, siteStopped>>
  BY <1>1 DEF SiteInv, Site!TypeOK
<1>2. CASE Site!Register(Site!Static, "running") /\ UNCHANGED <<siteSpawned, siteSpawn>>
  BY <1>2 DEF SiteInv, Site!TypeOK, Site!Register
<1>3. CASE /\ siteSpawned < SiteMaxSpawns /\ siteSpawned' = siteSpawned + 1
           /\ siteSpawn' = [siteSpawn EXCEPT ![siteSpawned + 1] = "begun"]
           /\ UNCHANGED <<siteRegistered, siteState, siteStopped>>
  <2>1. siteSpawned + 1 \in Site!Servers /\ siteSpawned + 1 \in 0..SiteMaxSpawns
    BY <1>3 DEF SiteInv, Site!TypeOK, Site!Servers
  <2>2. siteSpawn' \in [Site!Servers -> {"no", "begun", "probing", "seen", "late", "done"}]
    BY <1>3, <2>1 DEF SiteInv, Site!TypeOK
  <2> QED  BY <1>3, <2>1, <2>2 DEF SiteInv, Site!TypeOK
<1> QED  BY <1>1, <1>2, <1>3 DEF Site!StartBody, SiteInv, Site!TypeOK

LEMMA SitePublish ==
    ASSUME Site!PreviewAssumption, Site!TypeOK, NEW e \in SiteEvents, Site!Publish(e)
    PROVE  siteEvents' \in Seq(SiteEvents) /\ Len(siteEvents') <= SiteMaxEvents
BY SiteNumbers DEF Site!Publish, Site!TypeOK, SiteEvents

LEMMA SiteMarkStopped ==
    ASSUME Site!PreviewAssumption, SiteInv, NEW who \in Site!Stoppers, Site!MarkStopped(who)
    PROVE  /\ siteState' \in [Site!Instances -> SiteStates]
           /\ siteStopped' \in [Site!Instances -> BOOLEAN]
           /\ siteStopping' \in [Site!Stoppers -> {Site!None} \cup Site!Servers]
           /\ siteRegistered # Site!None => siteState'[siteRegistered] # "none"
           /\ \A u \in Site!Stoppers :
                 siteStopping'[u] # Site!None => siteProcess[siteStopping'[u]] # "none"
<1> USE SiteNumbers
<1>1. /\ siteState \in [Site!Instances -> SiteStates]
      /\ siteStopped \in [Site!Instances -> BOOLEAN]
      /\ siteStopping \in [Site!Stoppers -> {Site!None} \cup Site!Servers]
      /\ siteRegistered \in {Site!None} \cup Site!Instances
      /\ siteRegistered # Site!None => siteState[siteRegistered] # "none"
  BY DEF SiteInv, Site!TypeOK, SiteStates
<1>2. siteStopped' \in [Site!Instances -> BOOLEAN]
  BY <1>1 DEF Site!MarkStopped
<1>3. /\ siteState' \in [Site!Instances -> SiteStates]
      /\ siteRegistered # Site!None => siteState'[siteRegistered] # "none"
  BY <1>1 DEF Site!MarkStopped, SiteStates
<1>4. /\ siteStopping' \in [Site!Stoppers -> {Site!None} \cup Site!Servers]
      /\ \A u \in Site!Stoppers :
            \/ siteStopping'[u] \in {siteStopping[u], Site!None}
            \/ siteStopping'[u] = siteRegistered /\ siteRegistered \in Site!Servers
  BY <1>1 DEF Site!MarkStopped
<1> QED  BY <1>2, <1>3, <1>4 DEF SiteInv

(* One step of the preview keeps its invariant.                                *)
LEMMA SiteStep ==
    ASSUME Site!PreviewAssumption, SiteInv, Site!Next
    PROVE  SiteInv'
<1> USE SiteNumbers DEF Site!serverVars, Site!taskVars
<1>1. ASSUME NEW shape \in {"none", "server", "static"}, Site!AgentWrites(shape)
      PROVE  SiteInv'
  BY <1>1 DEF SiteInv, Site!TypeOK, Site!AgentWrites
<1>2. ASSUME siteTask' \in {"pending", "running", "deleted"} \cup Site!Ends,
             siteTurns' \in 0..SiteMaxTurns, NEW e \in SiteEvents, Site!Publish(e),
             UNCHANGED <<siteSite, Site!serverVars, siteStopping, siteRestart>>
      PROVE  SiteInv'
  BY <1>2, SitePublish DEF SiteInv, Site!TypeOK, SiteEvents
<1>3. ASSUME NEW end \in Site!Ends, Site!TurnEnds(end)
      PROVE  SiteInv'
  <2>1. Site!EventOf(end) \in SiteEvents
    BY DEF Site!Ends, Site!EventOf, SiteEvents
  <2>2. siteTurns' \in 0..SiteMaxTurns /\ siteTask' \in Site!Ends
    BY <1>3 DEF Site!TurnEnds, SiteInv, Site!TypeOK
  <2> QED  BY <1>2, <1>3, <2>1, <2>2 DEF Site!TurnEnds
<1>4. ASSUME Site!TurnBegins \/ Site!DeleteTask
      PROVE  SiteInv'
  <2>1. "task_updated" \in SiteEvents /\ "task_deleted" \in SiteEvents
    BY DEF SiteEvents
  <2>2. siteTurns' \in 0..SiteMaxTurns /\ siteTask' \in {"running", "deleted"}
    BY <1>4 DEF Site!TurnBegins, Site!DeleteTask, SiteInv, Site!TypeOK
  <2> QED  BY <1>2, <1>4, <2>1, <2>2 DEF Site!TurnBegins, Site!DeleteTask
<1>5. ASSUME Site!Start \/ Site!RestartStarts
      PROVE  SiteInv'
  BY <1>5, SiteStart DEF Site!Start, Site!RestartStarts, SiteInv, Site!TypeOK
<1>6. ASSUME Site!EnsureStatic
      PROVE  SiteInv'
  BY <1>6 DEF SiteInv, Site!TypeOK, Site!EnsureStatic, Site!Register
<1>7. ASSUME NEW k \in Site!Servers
      PROVE  /\ Site!SpawnFails(k) => SiteInv'
             /\ Site!SpawnProcess(k) => SiteInv'
             /\ Site!ProbeAnswers(k) => SiteInv'
             /\ Site!MarkRunning(k) => SiteInv'
             /\ Site!ProbeTimesOut(k) => SiteInv'
             /\ Site!MarkLate(k) => SiteInv'
             /\ Site!ServerListens(k) => SiteInv'
             /\ Site!ServerExits(k) => SiteInv'
  <2>1. ASSUME Site!SpawnFails(k) PROVE SiteInv'
    BY <2>1 DEF SiteInv, Site!TypeOK, Site!SpawnFails, Site!MarkError
  <2>2. ASSUME Site!SpawnProcess(k) PROVE SiteInv'
    BY <2>2 DEF SiteInv, Site!TypeOK, Site!SpawnProcess, Site!Register
  <2>3. ASSUME Site!ProbeAnswers(k) PROVE SiteInv'
    BY <2>3 DEF SiteInv, Site!TypeOK, Site!ProbeAnswers
  <2>4. ASSUME Site!MarkRunning(k) PROVE SiteInv'
    BY <2>4 DEF SiteInv, Site!TypeOK, Site!MarkRunning
  <2>5. ASSUME Site!ProbeTimesOut(k) PROVE SiteInv'
    <3>1. siteSpawn' \in [Site!Servers -> {"no", "begun", "probing", "seen", "late", "done"}]
      BY <2>5 DEF SiteInv, Site!TypeOK, Site!ProbeTimesOut
    <3>2. siteStopped' \in [Site!Instances -> BOOLEAN]
      BY <2>5 DEF SiteInv, Site!TypeOK, Site!ProbeTimesOut
    <3>3. /\ siteStopping' \in [Site!Stoppers -> {Site!None} \cup Site!Servers]
          /\ \A u \in Site!Stoppers :
                \/ siteStopping'[u] = siteStopping[u]
                \/ siteStopping'[u] = siteRegistered /\ siteRegistered \in Site!Servers
      BY <2>5 DEF SiteInv, Site!TypeOK, Site!ProbeTimesOut
    <3> QED  BY <2>5, <3>1, <3>2, <3>3 DEF SiteInv, Site!TypeOK, Site!ProbeTimesOut
  <2>6. ASSUME Site!MarkLate(k) PROVE SiteInv'
    BY <2>6 DEF SiteInv, Site!TypeOK, Site!MarkLate, Site!MarkError
  <2>7. ASSUME Site!ServerListens(k) PROVE SiteInv'
    BY <2>7 DEF SiteInv, Site!TypeOK, Site!ServerListens
  <2>8. ASSUME Site!ServerExits(k) PROVE SiteInv'
    BY <2>8 DEF SiteInv, Site!TypeOK, Site!ServerExits
  <2> QED  BY <2>1, <2>2, <2>3, <2>4, <2>5, <2>6, <2>7, <2>8
<1>8. ASSUME NEW k \in Site!Servers, NEW clean \in BOOLEAN, Site!WatchExit(k, clean)
      PROVE  SiteInv'
  BY <1>8 DEF SiteInv, Site!TypeOK, Site!WatchExit
<1>9. ASSUME Site!UserStops \/ Site!UserRestarts
      PROVE  SiteInv'
  <2>1. "user" \in Site!Stoppers /\ Site!MarkStopped("user")
    BY <1>9 DEF Site!UserStops, Site!UserRestarts, Site!Stoppers
  <2>2. siteRestart' \in BOOLEAN
    BY <1>9 DEF Site!UserStops, Site!UserRestarts, SiteInv, Site!TypeOK
  <2>3. UNCHANGED <<siteSpawned, siteSpawn, siteProcess, siteWatcher, siteRegistered,
                    Site!taskVars>>
    BY <1>9 DEF Site!UserStops, Site!UserRestarts
  <2> QED
    BY <2>1, <2>2, <2>3, SiteMarkStopped
       DEF Site!UserStops, Site!UserRestarts, SiteInv, Site!TypeOK, SiteStates
<1>10. ASSUME Site!ReadEvent
       PROVE  SiteInv'
  <2>1. siteEvents' \in Seq(SiteEvents) /\ Len(siteEvents') <= SiteMaxEvents
    BY <1>10 DEF Site!ReadEvent, SiteInv, Site!TypeOK, SiteEvents
  <2>2. \/ Site!MarkStopped("bus") /\ siteRegistered' \in {siteRegistered, Site!None}
        \/ UNCHANGED <<siteRegistered, siteState, siteStopped, siteStopping>>
    BY <1>10 DEF Site!ReadEvent
  <2>3. "bus" \in Site!Stoppers
    BY DEF Site!Stoppers
  <2>4. CASE Site!MarkStopped("bus") /\ siteRegistered' \in {siteRegistered, Site!None}
    BY <1>10, <2>1, <2>3, <2>4, SiteMarkStopped
       DEF Site!ReadEvent, SiteInv, Site!TypeOK, SiteStates, SiteEvents
  <2>5. CASE UNCHANGED <<siteRegistered, siteState, siteStopped, siteStopping>>
    BY <1>10, <2>1, <2>5 DEF Site!ReadEvent, SiteInv, Site!TypeOK, SiteEvents
  <2> QED  BY <2>2, <2>4, <2>5
<1>11. ASSUME NEW who \in Site!Stoppers, Site!StopSeesEnd(who) \/ Site!Kill(who)
       PROVE  SiteInv'
  <2>1. siteStopping' \in [Site!Stoppers -> {Site!None} \cup Site!Servers]
        /\ \A u \in Site!Stoppers : siteStopping'[u] \in {siteStopping[u], Site!None}
    BY <1>11 DEF SiteInv, Site!TypeOK, Site!StopSeesEnd, Site!Kill
  <2>2. siteStopping[who] \in Site!Servers
    BY <1>11 DEF SiteInv, Site!TypeOK, Site!StopSeesEnd, Site!Kill
  <2>3. \/ siteProcess' = siteProcess
        \/ siteProcess' = [siteProcess EXCEPT ![siteStopping[who]] = "dead"]
    BY <1>11 DEF Site!StopSeesEnd, Site!Kill
  <2>4. siteProcess' \in [Site!Servers -> {"none", "up", "listening", "dead"}]
        /\ \A k \in Site!Servers : siteProcess'[k] = "none" <=> siteProcess[k] = "none"
    BY <2>2, <2>3 DEF SiteInv, Site!TypeOK
  <2> QED
    BY <1>11, <2>1, <2>4 DEF SiteInv, Site!TypeOK, Site!StopSeesEnd, Site!Kill
<1> QED
  BY <1>1, <1>3, <1>4, <1>5, <1>6, <1>7, <1>8, <1>9, <1>10, <1>11 DEF Site!Next

------------------------------------------------------------------------------
(* The mark of a stop. It is taken off only when a process is registered, and   *)
(* the goroutine that does so has had none before.                              *)

SiteMarks ==
    /\ Site!StoppedServersAreMarked
    /\ \A k \in Site!Servers :
          /\ siteSpawn[k] \in {"no", "begun"} => siteProcess[k] = "none"
          /\ k > siteSpawned => siteSpawn[k] = "no"

LEMMA MarksBegin == ASSUME Site!Init PROVE SiteMarks
BY DEF Site!Init, SiteMarks, Site!StoppedServersAreMarked

LEMMA MarksRest == ASSUME SiteMarks, UNCHANGED siteVars PROVE SiteMarks'
BY DEF SiteMarks, siteVars, Site!StoppedServersAreMarked

LEMMA MarksStart ==
    ASSUME Site!PreviewAssumption, SiteInv, SiteMarks, Site!StartBody,
           UNCHANGED <<siteProcess, siteStopping>>
    PROVE  SiteMarks'
<1> USE SiteNumbers
<1>0. /\ siteStopped \in [Site!Instances -> BOOLEAN] /\ siteSpawned \in 0..SiteMaxSpawns
      /\ siteStopping \in [Site!Stoppers -> {Site!None} \cup Site!Servers]
      /\ siteSpawn \in [Site!Servers -> {"no", "begun", "probing", "seen", "late", "done"}]
      /\ Site!Servers = 1..SiteMaxSpawns /\ siteSite \in {"none", "server", "static"}
  BY DEF SiteInv, Site!TypeOK, Site!Servers
<1>1. CASE UNCHANGED <<siteSpawned, siteSpawn, siteStopped>>
  BY <1>1 DEF SiteMarks, Site!StoppedServersAreMarked
<1>2. CASE Site!Register(Site!Static, "running") /\ UNCHANGED <<siteSpawned, siteSpawn>>
  <2>1. \A k \in Site!Servers : siteStopped'[k] = siteStopped[k]
    BY <1>0, <1>2 DEF Site!Register
  <2> QED  BY <1>0, <1>2, <2>1 DEF SiteMarks, Site!StoppedServersAreMarked
<1>3. CASE /\ siteSpawned < SiteMaxSpawns /\ siteSpawned' = siteSpawned + 1
           /\ siteSpawn' = [siteSpawn EXCEPT ![siteSpawned + 1] = "begun"]
           /\ UNCHANGED siteStopped
  <2>1. siteSpawned + 1 \in Site!Servers /\ siteProcess[siteSpawned + 1] = "none"
    BY <1>0, <1>3 DEF SiteMarks
  <2>2. ASSUME NEW k \in Site!Servers
        PROVE  /\ siteSpawn'[k] \in {"no", "begun"} => siteProcess[k] = "none"
               /\ k > siteSpawned' => siteSpawn'[k] = "no"
    BY <1>0, <1>3, <2>1 DEF SiteMarks
  <2> QED  BY <1>3, <2>2 DEF SiteMarks, Site!StoppedServersAreMarked
<1> QED  BY <1>0, <1>1, <1>2, <1>3 DEF Site!StartBody

LEMMA MarksStop ==
    ASSUME Site!PreviewAssumption, SiteInv, SiteMarks, NEW who \in Site!Stoppers,
           Site!MarkStopped(who), UNCHANGED <<siteSpawned, siteSpawn, siteProcess>>
    PROVE  SiteMarks'
<1>1. /\ siteStopped \in [Site!Instances -> BOOLEAN]
      /\ siteStopping \in [Site!Stoppers -> {Site!None} \cup Site!Servers]
      /\ siteRegistered \in {Site!None} \cup Site!Instances
      /\ Site!Servers \subseteq Site!Instances /\ Site!None \notin Site!Servers
      /\ siteRegistered \in Site!Servers => siteProcess[siteRegistered] # "none"
  BY SiteNumbers DEF SiteInv, Site!TypeOK
<1>2. /\ \A i \in Site!Instances : siteStopped[i] => siteStopped'[i]
      /\ siteRegistered # Site!None => siteStopped'[siteRegistered]
  BY <1>1 DEF Site!MarkStopped
<1>3. \A u \in Site!Stoppers :
          \/ siteStopping'[u] \in {siteStopping[u], Site!None}
          \/ siteStopping'[u] = siteRegistered /\ siteRegistered \in Site!Servers
  BY <1>1 DEF Site!MarkStopped
<1>4. ASSUME NEW u \in Site!Stoppers, siteStopping'[u] # Site!None
      PROVE  siteStopped'[siteStopping'[u]] /\ siteProcess'[siteStopping'[u]] # "none"
  <2>1. CASE siteStopping'[u] = siteStopping[u]
    <3>1. siteStopping[u] \in Site!Instances /\ siteStopped[siteStopping[u]]
          /\ siteProcess[siteStopping[u]] # "none"
      BY <1>1, <1>4, <2>1 DEF SiteMarks, Site!StoppedServersAreMarked
    <3> QED  BY <1>2, <2>1, <3>1
  <2>2. CASE siteStopping'[u] = siteRegistered /\ siteRegistered \in Site!Servers
    BY <1>1, <1>2, <1>4, <2>2
  <2> QED  BY <1>3, <1>4, <2>1, <2>2
<1> QED  BY <1>4 DEF SiteMarks, Site!StoppedServersAreMarked

LEMMA MarksStep ==
    ASSUME Site!PreviewAssumption, SiteInv, SiteMarks, Site!Next
    PROVE  SiteMarks'
<1> USE SiteNumbers DEF Site!serverVars, Site!taskVars
<1>0. /\ siteStopped \in [Site!Instances -> BOOLEAN] /\ siteSpawned \in 0..SiteMaxSpawns
      /\ siteStopping \in [Site!Stoppers -> {Site!None} \cup Site!Servers]
      /\ siteSpawn \in [Site!Servers -> {"no", "begun", "probing", "seen", "late", "done"}]
      /\ siteProcess \in [Site!Servers -> {"none", "up", "listening", "dead"}]
      /\ siteRegistered \in {Site!None} \cup Site!Instances
      /\ siteRegistered \in Site!Servers => siteProcess[siteRegistered] # "none"
      /\ Site!Servers = 1..SiteMaxSpawns
  BY DEF SiteInv, Site!TypeOK, Site!Servers
<1>1. ASSUME UNCHANGED <<siteSpawned, siteSpawn, siteProcess, siteStopped, siteStopping>>
      PROVE  SiteMarks'
  BY <1>1 DEF SiteMarks, Site!StoppedServersAreMarked
<1>2. CASE \/ \E shape \in {"none", "server", "static"} : Site!AgentWrites(shape)
           \/ \E end \in Site!Ends : Site!TurnEnds(end)
           \/ Site!TurnBegins \/ Site!DeleteTask
  BY <1>1, <1>2 DEF Site!AgentWrites, Site!TurnEnds, Site!TurnBegins, Site!DeleteTask
<1>3. CASE Site!Start \/ Site!RestartStarts
  BY <1>3, MarksStart DEF Site!Start, Site!RestartStarts
<1>4. CASE Site!EnsureStatic
  <2>1. \A k \in Site!Servers : siteStopped'[k] = siteStopped[k]
    BY <1>0, <1>4 DEF Site!EnsureStatic, Site!Register
  <2> QED  BY <1>0, <1>4, <2>1
           DEF Site!EnsureStatic, SiteMarks, Site!StoppedServersAreMarked
<1>5. ASSUME NEW k \in Site!Servers, NEW at \in {"probing", "seen", "late", "done"},
             siteSpawn[k] # "no", siteSpawn' = [siteSpawn EXCEPT ![k] = at],
             UNCHANGED <<siteSpawned, siteProcess, siteStopped, siteStopping>>
      PROVE  SiteMarks'
  BY <1>0, <1>5 DEF SiteMarks, Site!StoppedServersAreMarked
<1>6. ASSUME NEW k \in Site!Servers,
             \/ Site!SpawnFails(k) \/ Site!ProbeAnswers(k) \/ Site!MarkRunning(k)
             \/ Site!MarkLate(k)
      PROVE  SiteMarks'
  BY <1>5, <1>6 DEF Site!SpawnFails, Site!ProbeAnswers, Site!MarkRunning, Site!MarkLate,
                    Site!MarkError
<1>7. ASSUME NEW k \in Site!Servers, Site!SpawnProcess(k)
      PROVE  SiteMarks'
  <2>1. /\ siteSpawn[k] = "begun" /\ siteProcess[k] = "none" /\ k <= siteSpawned
        /\ siteSpawn' = [siteSpawn EXCEPT ![k] = "probing"]
        /\ siteProcess' = [siteProcess EXCEPT ![k] = "up"]
        /\ siteStopped' = [siteStopped EXCEPT ![k] = FALSE]
        /\ UNCHANGED <<siteSpawned, siteStopping>>
    BY <1>0, <1>7 DEF Site!SpawnProcess, Site!Register, SiteMarks
  <2>2. \A u \in Site!Stoppers : siteStopping[u] # Site!None => siteStopping[u] # k
    BY <2>1 DEF SiteMarks, Site!StoppedServersAreMarked
  <2>3. ASSUME NEW u \in Site!Stoppers, siteStopping'[u] # Site!None
        PROVE  siteStopped'[siteStopping'[u]] /\ siteProcess'[siteStopping'[u]] # "none"
    BY <1>0, <2>1, <2>2, <2>3 DEF SiteMarks, Site!StoppedServersAreMarked
  <2>4. ASSUME NEW j \in Site!Servers
        PROVE  /\ siteSpawn'[j] \in {"no", "begun"} => siteProcess'[j] = "none"
               /\ j > siteSpawned' => siteSpawn'[j] = "no"
    BY <1>0, <2>1 DEF SiteMarks
  <2> QED  BY <2>3, <2>4 DEF SiteMarks, Site!StoppedServersAreMarked
<1>8. ASSUME NEW k \in Site!Servers, Site!ProbeTimesOut(k)
      PROVE  SiteMarks'
  <2>1. /\ siteSpawn[k] = "probing" /\ siteSpawn' = [siteSpawn EXCEPT ![k] = "late"]
        /\ UNCHANGED <<siteSpawned, siteProcess, siteRegistered>>
    BY <1>8 DEF Site!ProbeTimesOut
  <2>2. CASE siteRegistered \in Site!Servers
    <3>1. /\ siteStopped' = [siteStopped EXCEPT ![siteRegistered] = TRUE]
          /\ siteStopping' = [siteStopping EXCEPT !["timeout"] = siteRegistered]
      BY <1>8, <2>2 DEF Site!ProbeTimesOut
    <3>2. ASSUME NEW u \in Site!Stoppers, siteStopping'[u] # Site!None
          PROVE  siteStopped'[siteStopping'[u]] /\ siteProcess'[siteStopping'[u]] # "none"
      BY <1>0, <2>1, <2>2, <3>1, <3>2 DEF SiteMarks, Site!StoppedServersAreMarked
    <3> QED  BY <1>0, <2>1, <3>2 DEF SiteMarks, Site!StoppedServersAreMarked
  <2>3. CASE siteRegistered \notin Site!Servers
    BY <1>5, <1>8, <2>1, <2>3 DEF Site!ProbeTimesOut
  <2> QED  BY <2>2, <2>3
<1>9. ASSUME NEW k \in Site!Servers, Site!ServerListens(k) \/ Site!ServerExits(k)
      PROVE  SiteMarks'
  <2>1. /\ siteProcess[k] # "none"
        /\ \/ siteProcess' = [siteProcess EXCEPT ![k] = "listening"]
           \/ siteProcess' = [siteProcess EXCEPT ![k] = "dead"]
        /\ UNCHANGED <<siteSpawned, siteSpawn, siteStopped, siteStopping>>
    BY <1>9 DEF Site!ServerListens, Site!ServerExits
  <2>2. \A j \in Site!Servers : siteProcess'[j] = "none" <=> siteProcess[j] = "none"
    BY <1>0, <2>1
  <2> QED  BY <1>0, <2>1, <2>2 DEF SiteMarks, Site!StoppedServersAreMarked
<1>10. ASSUME NEW k \in Site!Servers, NEW clean \in BOOLEAN, Site!WatchExit(k, clean)
       PROVE  SiteMarks'
  BY <1>1, <1>10 DEF Site!WatchExit
<1>11. CASE Site!UserStops \/ Site!UserRestarts
  <2>1. "user" \in Site!Stoppers
    BY DEF Site!Stoppers
  <2> QED  BY <1>11, <2>1, MarksStop DEF Site!UserStops, Site!UserRestarts
<1>12. CASE Site!ReadEvent
  <2>1. "bus" \in Site!Stoppers
    BY DEF Site!Stoppers
  <2>2. Site!MarkStopped("bus") \/ UNCHANGED <<siteStopped, siteStopping>>
    BY <1>12 DEF Site!ReadEvent
  <2>3. UNCHANGED <<siteSpawned, siteSpawn, siteProcess>>
    BY <1>12 DEF Site!ReadEvent
  <2> QED  BY <1>1, <2>1, <2>2, <2>3, MarksStop
<1>13. ASSUME NEW who \in Site!Stoppers, Site!StopSeesEnd(who) \/ Site!Kill(who)
       PROVE  SiteMarks'
  <2>1. /\ siteStopping[who] \in Site!Servers
        /\ \A u \in Site!Stoppers : siteStopping'[u] \in {siteStopping[u], Site!None}
        /\ UNCHANGED <<siteSpawned, siteSpawn, siteStopped>>
    BY <1>0, <1>13 DEF Site!StopSeesEnd, Site!Kill
  <2>2. siteProcess[siteStopping[who]] # "none"
    BY <2>1 DEF SiteMarks, Site!StoppedServersAreMarked
  <2>3. \A j \in Site!Servers : siteProcess'[j] = "none" <=> siteProcess[j] = "none"
    BY <1>0, <1>13, <2>1, <2>2 DEF Site!StopSeesEnd, Site!Kill
  <2> QED  BY <1>0, <2>1, <2>3 DEF SiteMarks, Site!StoppedServersAreMarked
<1> QED  BY <1>2, <1>3, <1>4, <1>6, <1>7, <1>8, <1>9, <1>10, <1>11, <1>12, <1>13
         DEF Site!Next

------------------------------------------------------------------------------
(* The checkpoints. The copies of the turns before a message say what the      *)
(* files held when the work on it began, until the first rewind.               *)

\* The histories, and where a message is worked on.
CopyHistoryTyped == copyBegan \in [Copy!Turns -> [CopyFiles -> Copy!Contents]]
    /\ copyWorked \in [Copy!Turns -> SUBSET CopyFiles]
CopyAtWork == copyAgent = "working" => copyTurn > 0

CopyTInv == Copy!TypeOK /\ CopyHistoryTyped /\ CopyAtWork

\* Every turn has its message to itself.
CopyInTurn == copyStatus \in {"running", "waiting"}
CopyLine ==
    /\ copyServing = copyTurn /\ (copyStatus = "new" <=> copyTurn = 0)
    /\ copyAgent = "working" <=> CopyInTurn

\* Then the events of a turn and the wire say what the work on its message changed of
\* a file that never was in the wire when a turn ended.
CopySays(f) ==
    /\ copyPending[f] # "none" => CopyInTurn
    /\ copyPending[f] = "done" => f \in copyWorked[copyTurn]
    /\ \A k \in Copy!Turns :
          /\ copyClaims[k][f] = "done" => f \in copyWorked[k]
          /\ f \in copyWorked[k] =>
                copyClaims[k][f] = "done" \/ (k = copyTurn /\ copyPending[f] = "done")
CopyEvents == \A f \in CopyFiles : f \notin copyLate => CopySays(f)

\* A turn that has ended has a copy of each such file it changed.
CopyCopies ==
    \A k \in Copy!Turns :
        /\ k > copyTurn \/ (k = copyTurn /\ CopyInTurn) => copySnaps[k] = Copy!NoCopy
        /\ k < copyTurn \/ (k = copyTurn /\ copyStatus = "ended") =>
              \A f \in CopyFiles : f \notin copyLate =>
                 (copyClaims[k][f] # "none" => copySnaps[k][f] # Copy!None)
        /\ k > copyTurn => \A f \in CopyFiles : copyClaims[k][f] = "none"

\* What a rewind would find is what the file was, and the last turn changed what it
\* says, as long as nobody else did.
CopyKnown ==
    \A f \in CopyFiles : copyTurn > 0 /\ Copy!Copied(f) /\ f \notin copyLate =>
        /\ \A k \in 1..copyTurn : copyBegan[k][f] = Copy!Before(k, f)
        /\ f \notin copyWorked[copyTurn] => copyTree[f] = copyBegan[copyTurn][f]
        /\ copyStatus = "ended"
           /\ copySnaps[copyTurn][f] # Copy!None => copySnaps[copyTurn][f] = copyTree[f]

CopyCalmInv == Copy!Calm => CopyLine /\ CopyCopies /\ CopyEvents
CopyFirstInv == Copy!Calm /\ copyRewinds = 0 /\ copyEdits = 0 => CopyKnown
CopyCInv == CopyTInv /\ CopyCalmInv /\ CopyFirstInv

-----------------------------------------------------------------------------
(* Contents, and the newest of the copies *)

LEMMA CopyContentsAre ==
  ASSUME Copy!CheckpointsAssumption
  PROVE  /\ Copy!Absent \in Copy!Contents /\ Copy!OfHead \in Copy!Contents
            /\ Copy!OfUser \in Copy!Contents /\ Copy!EditOfUser \in Copy!Contents
         /\ Copy!None \notin Copy!Contents /\ Copy!None # Copy!Absent
         /\ \A k \in 0..CopyMaxTurns : Copy!OfTurn(k) \in Copy!Contents
         /\ CopyMaxTurns \in Nat \ {0} /\ 1 \in Copy!Turns
  BY
     DEF Copy!CheckpointsAssumption, Copy!Contents, Copy!Absent, Copy!OfHead, Copy!OfUser,
         Copy!EditOfUser, Copy!OfTurn, Copy!None, Copy!Turns

LEMMA CopyTurnsAre ==
  ASSUME Copy!CheckpointsAssumption, NEW n \in Copy!Turns
  PROVE  /\ n \in Nat /\ n > 0 /\ n <= CopyMaxTurns
         /\ \A k \in 1..(n - 1) : k \in Copy!Turns /\ k < n
         /\ \A k \in Copy!Turns : k \in 1..(n - 1) <=> k < n
  BY DEF Copy!CheckpointsAssumption, Copy!Turns

LEMMA CopyNewestIsHeld ==
  ASSUME NEW n \in Nat, NEW S \in SUBSET (1..n), S # {}
  PROVE  Copy!Max(S) \in S /\ \A k \in S : Copy!Max(S) >= k
  <1> DEFINE T == {m \in Nat : n - m \in S}
  <1>1. T \subseteq Nat /\ T # {}
    <2>1. PICK k \in S : TRUE
      OBVIOUS
    <2>2. n - k \in Nat /\ n - (n - k) = k
      OBVIOUS
    <2> QED BY <2>2
  <1>2. PICK m \in T : \A y \in T : ~(<<y, m>> \in OpToRel(<, Nat))
    <2> HIDE DEF T
    <2> QED BY <1>1, NatLessThanWellFounded, WFMin
  <1>3. \A y \in T : ~(y < m)
    BY <1>2 DEF OpToRel
  <1>4. n - m \in S /\ \A k \in S : n - m >= k
    <2> SUFFICES ASSUME NEW k \in S PROVE n - m >= k
      BY <1>2
    <2>1. k \in Nat /\ n - k \in Nat /\ n - (n - k) = k
      OBVIOUS
    <2>2. n - k \in T
      BY <2>1
    <2>3. ~(n - k < m) /\ m \in Nat
      BY <1>2, <1>3, <2>2
    <2> QED BY <2>1, <2>3
  <1> HIDE DEF T
  <1>5. \E x \in S : \A y \in S : x >= y
    BY <1>4
  <1> QED BY <1>5 DEF Copy!Max

LEMMA CopyBeforeTyped ==
  ASSUME Copy!CheckpointsAssumption, Copy!TypeOK, NEW n \in Copy!Turns, NEW f \in CopyFiles
  PROVE  Copy!Before(n, f) \in Copy!Contents
  <1> DEFINE held == {k \in 1..(n - 1) : copySnaps[k][f] # Copy!None}
  <1>1. n - 1 \in Nat /\ \A k \in 1..(n - 1) : k \in Copy!Turns
    BY CopyTurnsAre
  <1>2. CASE held # {}
    <2>1. Copy!Max(held) \in held
      <3>1. held \in SUBSET (1..(n - 1))
        OBVIOUS
      <3> HIDE DEF held
      <3> QED BY <1>1, <1>2, <3>1, CopyNewestIsHeld
    <2>2. Copy!Max(held) \in Copy!Turns /\ copySnaps[Copy!Max(held)][f] # Copy!None
      BY <1>1, <2>1
    <2>3. copySnaps[Copy!Max(held)][f] \in Copy!Contents
      <3> HIDE DEF held
      <3> QED BY <2>2 DEF Copy!TypeOK
    <2> QED BY <1>2, <2>3 DEF Copy!Before
  <1>3. CASE held = {}
    <2>1. Copy!Before(n, f) = IF copyPre[f] # Copy!None THEN copyPre[f] ELSE copyHead[f]
      BY <1>3 DEF Copy!Before
    <2>2. copyPre[f] \in Copy!Contents \cup {Copy!None} /\ copyHead[f] \in Copy!Contents
      BY CopyContentsAre DEF Copy!TypeOK
    <2> QED BY <2>1, <2>2
  <1> QED BY <1>2, <1>3

\* What a rewind finds, by the copies that the earlier turns hold.
CopyHeldBefore(n, f) == {k \in 1..(n - 1) : copySnaps[k][f] # Copy!None}
LEMMA CopyBeforeIs ==
  ASSUME NEW n, NEW f
  PROVE  Copy!Before(n, f)
           = IF CopyHeldBefore(n, f) # {} THEN copySnaps[Copy!Max(CopyHeldBefore(n, f))][f]
                             ELSE IF copyPre[f] # Copy!None THEN copyPre[f] ELSE copyHead[f]
  BY DEF Copy!Before, CopyHeldBefore

\* What a rewind finds before the next turn: the copy of this one, or what it finds
\* before this one.
LEMMA CopyBeforeNext ==
  ASSUME Copy!CheckpointsAssumption, NEW n \in Copy!Turns, NEW f \in CopyFiles
  PROVE  Copy!Before(n + 1, f)
           = IF copySnaps[n][f] # Copy!None THEN copySnaps[n][f] ELSE Copy!Before(n, f)
  <1> DEFINE held == {k \in 1..(n - 1) : copySnaps[k][f] # Copy!None}
             next == {k \in 1..n : copySnaps[k][f] # Copy!None}
  <1>0. n \in Nat /\ n > 0 /\ n + 1 - 1 = n
    BY CopyTurnsAre
  <1>1. Copy!Before(n + 1, f) = IF next # {} THEN copySnaps[Copy!Max(next)][f]
                                ELSE IF copyPre[f] # Copy!None THEN copyPre[f] ELSE copyHead[f]
    <2>1. CopyHeldBefore(n + 1, f) = next
      BY <1>0 DEF CopyHeldBefore
    <2> HIDE DEF next
    <2> QED BY <2>1, CopyBeforeIs
  <1>2. CASE copySnaps[n][f] # Copy!None
    <2>1. n \in next /\ \A k \in next : n >= k /\ k \in Nat
      BY <1>0, <1>2
    <2>2. Copy!Max(next) = n
      <3>1. next \in SUBSET (1..n) /\ next # {}
        BY <2>1
      <3> HIDE DEF next
      <3>2. Copy!Max(next) \in next /\ Copy!Max(next) >= n
        BY <1>0, <2>1, <3>1, CopyNewestIsHeld
      <3> DEFINE m == Copy!Max(next)
      <3>3. m \in next /\ m >= n
        BY <3>2
      <3> HIDE DEF m
      <3>4. m \in Nat /\ n >= m
        BY <2>1, <3>3
      <3>5. m = n
        BY <1>0, <3>3, <3>4
      <3> QED BY <3>5 DEF m
    <2> QED BY <1>1, <1>2, <2>1, <2>2
  <1>3. CASE copySnaps[n][f] = Copy!None
    <2>1. next = held
      BY <1>0, <1>3
    <2> QED BY <1>1, <1>3, <2>1 DEF Copy!Before
  <1> QED BY <1>2, <1>3

\* It depends on the copies of the earlier turns alone.
LEMMA CopyBeforeSame ==
  ASSUME Copy!CheckpointsAssumption, NEW n \in Copy!Turns, NEW f \in CopyFiles,
         UNCHANGED <<copyHead, copyPre>>,
         \A k \in 1..(n - 1) : copySnaps'[k][f] = copySnaps[k][f]
  PROVE  Copy!Before(n, f)' = Copy!Before(n, f)
  <1>1. {k \in 1..(n - 1) : copySnaps'[k][f] # Copy!None}
          = {k \in 1..(n - 1) : copySnaps[k][f] # Copy!None}
    OBVIOUS
  <1>2. CASE {k \in 1..(n - 1) : copySnaps[k][f] # Copy!None} = {}
    BY <1>1, <1>2 DEF Copy!Before
  <1>3. CASE {k \in 1..(n - 1) : copySnaps[k][f] # Copy!None} # {}
    <2> DEFINE held == {k \in 1..(n - 1) : copySnaps[k][f] # Copy!None}
    <2>1. n - 1 \in Nat /\ held \in SUBSET (1..(n - 1)) /\ held # {}
      BY <1>3, CopyTurnsAre
    <2>2. Copy!Max(held) \in held
      <3> HIDE DEF held
      <3> QED BY <2>1, CopyNewestIsHeld
    <2>3. copySnaps'[Copy!Max(held)][f] = copySnaps[Copy!Max(held)][f]
      BY <2>2
    <2>4. Copy!Before(n, f) = copySnaps[Copy!Max(held)][f]
      BY <1>3 DEF Copy!Before
    <2>5. Copy!Before(n, f)' = copySnaps'[Copy!Max(held)][f]
      BY <1>1, <1>3 DEF Copy!Before
    <2> QED BY <2>3, <2>4, <2>5
  <1> QED BY <1>2, <1>3

-----------------------------------------------------------------------------
(* Typing *)

CopyFilesTyped ==
    /\ copyHead \in [CopyFiles -> {Copy!Absent, Copy!OfHead}]
       /\ copyTree \in [CopyFiles -> Copy!Contents]
    /\ copyPre \in [CopyFiles -> Copy!Contents \cup {Copy!None}]
CopyType == [CopyFiles -> Copy!Contents \cup {Copy!None}]
CopyCopiesTyped == copySnaps \in [Copy!Turns -> CopyType]
CopyClaimsTyped ==
    /\ copyClaims \in [Copy!Turns -> [CopyFiles -> Copy!Sayings]]
    /\ copyPending \in [CopyFiles -> Copy!Sayings]
CopyWorkTyped ==
    /\ copyTurn \in 0..CopyMaxTurns /\ copyServing \in 0..copyTurn
    /\ copyStatus \in {"new", "running", "waiting", "ended"}
       /\ copyAgent \in {"gone", "working"}
CopyCountsTyped ==
    /\ copyMessages \in 0..CopyMaxMessages /\ copyCancels \in 0..CopyMaxCancels
    /\ copyRewinds \in 0..CopyMaxRewinds /\ copyEdits \in 0..CopyMaxEdits

LEMMA CopyGroups ==
  /\ Copy!TypeOK <=> CopyFilesTyped /\ CopyCopiesTyped /\ CopyClaimsTyped /\ CopyWorkTyped
     /\ CopyCountsTyped
  /\ Copy!TypeOK' <=> CopyFilesTyped' /\ CopyCopiesTyped' /\ CopyClaimsTyped' /\ CopyWorkTyped'
     /\ CopyCountsTyped'
  BY
     DEF Copy!TypeOK, CopyFilesTyped, CopyCopiesTyped, CopyType, CopyClaimsTyped,
         CopyWorkTyped, CopyCountsTyped

LEMMA CopyCountsAre ==
  ASSUME Copy!CheckpointsAssumption, CopyCountsTyped
  PROVE  /\ copyMessages \in Nat /\ copyCancels \in Nat /\ copyRewinds \in Nat
            /\ copyEdits \in Nat
         /\ copyMessages < CopyMaxMessages => copyMessages + 1 \in 0..CopyMaxMessages
         /\ copyCancels < CopyMaxCancels => copyCancels + 1 \in 0..CopyMaxCancels
         /\ copyRewinds < CopyMaxRewinds => copyRewinds + 1 \in 0..CopyMaxRewinds
         /\ copyEdits < CopyMaxEdits => copyEdits + 1 \in 0..CopyMaxEdits
  BY DEF Copy!CheckpointsAssumption, CopyCountsTyped

\* The copy of a turn: what it changed, once.
LEMMA CopyCaptured ==
  ASSUME Copy!CheckpointsAssumption, Copy!TypeOK, Copy!CaptureTurnEnd
  PROVE  /\ CopyCopiesTyped'
            /\ \A k \in Copy!Turns : k # copyTurn => copySnaps'[k] = copySnaps[k]
         /\ copyTurn = 0 \/ copySnaps[copyTurn] # Copy!NoCopy => copySnaps' = copySnaps
         /\ copyTurn > 0 /\ copySnaps[copyTurn] = Copy!NoCopy =>
               \A f \in CopyFiles : copySnaps'[copyTurn][f]
                 = IF f \in Copy!Changed(copyTurn) THEN copyTree[f] ELSE Copy!None
  <1> DEFINE copy == [f \in CopyFiles |-> IF f \in Copy!Changed(copyTurn) THEN copyTree[f]
               ELSE Copy!None]
  <1>0. CopyFilesTyped /\ CopyCopiesTyped /\ CopyWorkTyped
    BY CopyGroups
  <1>1. CASE copySnaps' = copySnaps /\ (copyTurn = 0 \/ copySnaps[copyTurn] # Copy!NoCopy)
    BY <1>0, <1>1 DEF CopyCopiesTyped
  <1>2. CASE copySnaps' = [copySnaps EXCEPT ![copyTurn] = copy] /\ copyTurn # 0
             /\ copySnaps[copyTurn] = Copy!NoCopy
    <2>1. copy \in CopyType
          /\ \A f \in CopyFiles : copy[f]
               = IF f \in Copy!Changed(copyTurn) THEN copyTree[f] ELSE Copy!None
      BY <1>0 DEF CopyFilesTyped, CopyType
    <2>2. copyTurn \in Copy!Turns
      BY <1>0, <1>2 DEF CopyWorkTyped, Copy!Turns, Copy!CheckpointsAssumption
    <2> HIDE DEF copy
    <2>3. CopyCopiesTyped' /\ copySnaps'[copyTurn] = copy
          /\ \A k \in Copy!Turns : k # copyTurn => copySnaps'[k] = copySnaps[k]
      BY <1>0, <1>2, <2>1, <2>2 DEF CopyCopiesTyped
    <2> QED BY <1>2, <2>1, <2>3
  <1> QED BY <1>1, <1>2 DEF Copy!CaptureTurnEnd

LEMMA CopyInitTInv == Copy!CheckpointsAssumption /\ Copy!Init => CopyTInv
  <1> SUFFICES ASSUME Copy!CheckpointsAssumption, Copy!Init PROVE CopyTInv
    OBVIOUS
  <1> USE DEF Copy!Init
  <1>1. CopyFilesTyped
    <2>1. PICK dirty \in SUBSET CopyFiles, gone \in SUBSET CopyFiles :
             copyTree = [f \in CopyFiles |-> IF f \in gone THEN Copy!Absent ELSE IF f \in dirty
               THEN Copy!OfUser ELSE copyHead[f]]
      OBVIOUS
    <2>2. copyTree \in [CopyFiles -> Copy!Contents]
      BY <2>1, CopyContentsAre
    <2> QED BY <2>2 DEF CopyFilesTyped, Copy!NoCopy
  <1>2. CopyCopiesTyped /\ CopyClaimsTyped
    BY DEF CopyCopiesTyped, CopyType, CopyClaimsTyped, Copy!NoCopy, Copy!Unclaimed,
           Copy!Sayings
  <1>3. CopyWorkTyped /\ CopyCountsTyped /\ CopyAtWork
    BY DEF CopyWorkTyped, CopyCountsTyped, CopyAtWork, Copy!CheckpointsAssumption
  <1>4. CopyHistoryTyped
    BY <1>1 DEF CopyHistoryTyped, CopyFilesTyped
  <1> QED BY <1>1, <1>2, <1>3, <1>4, CopyGroups DEF CopyTInv

LEMMA CopyBeginTInv ==
  ASSUME Copy!CheckpointsAssumption, CopyTInv, Copy!Begin
  PROVE  CopyTInv'
         /\ copyPre' = [f \in CopyFiles |-> IF copyTree[f] # copyHead[f]
            /\ copyTree[f] # Copy!Absent THEN copyTree[f] ELSE Copy!None]
         /\ copyBegan'[1] = copyTree
  <1> USE DEF Copy!Begin, Copy!counts, Copy!calls
  <1>0. CopyFilesTyped /\ CopyCopiesTyped /\ CopyClaimsTyped /\ CopyWorkTyped
        /\ CopyCountsTyped /\ CopyHistoryTyped
    BY CopyGroups DEF CopyTInv
  <1>1. copyPre' = [f \in CopyFiles |-> IF copyTree[f] # copyHead[f]
        /\ copyTree[f] # Copy!Absent THEN copyTree[f] ELSE Copy!None]
    BY DEF Copy!CaptureBaseline
  <1>2. CopyFilesTyped'
    BY <1>0, <1>1 DEF CopyFilesTyped
  <1>3. CopyWorkTyped' /\ CopyAtWork'
    BY <1>0 DEF CopyWorkTyped, CopyAtWork, Copy!CheckpointsAssumption
  <1>4. CopyHistoryTyped' /\ copyBegan'[1] = copyTree
    BY <1>0, CopyContentsAre DEF CopyHistoryTyped, CopyFilesTyped
  <1>5. CopyCopiesTyped' /\ CopyClaimsTyped' /\ CopyCountsTyped'
    BY <1>0 DEF CopyCopiesTyped, CopyClaimsTyped, CopyCountsTyped
  <1> QED BY <1>1, <1>2, <1>3, <1>4, <1>5, CopyGroups DEF CopyTInv

\* A change by the agent is said in the wire, or in an event of the current turn.
LEMMA CopyEditTInv ==
  ASSUME Copy!CheckpointsAssumption, CopyTInv, NEW f \in CopyFiles, NEW c \in Copy!Contents,
         Copy!Edit(f, c)
  PROVE  /\ CopyTInv' /\ copyTurn \in Copy!Turns
         /\ \A g \in CopyFiles : g # f => copyTree'[g] = copyTree[g]
         /\ \A k \in Copy!Turns : copyWorked'[k]
              = IF k = copyServing THEN copyWorked[k] \cup {f} ELSE copyWorked[k]
         /\ \/ /\ UNCHANGED copyClaims
               /\ \A g \in CopyFiles :
                     copyPending'[g] = IF g = f THEN "done" ELSE copyPending[g]
            \/ \E k \in copyServing..copyTurn :
                  /\ UNCHANGED copyPending /\ copyClaims[k][f] = "called"
                  /\ \A j \in Copy!Turns, g \in CopyFiles : copyClaims'[j][g]
                       = IF j = k /\ g = f THEN "done" ELSE copyClaims[j][g]
  <1> USE DEF Copy!Edit, Copy!counts, Copy!copies
  <1>0. CopyFilesTyped /\ CopyCopiesTyped /\ CopyClaimsTyped /\ CopyWorkTyped
        /\ CopyCountsTyped /\ CopyHistoryTyped
    BY CopyGroups DEF CopyTInv
  <1>1. copyTurn \in Copy!Turns
    BY <1>0 DEF CopyTInv, CopyAtWork, CopyWorkTyped, Copy!Turns, Copy!CheckpointsAssumption
  <1>2. CopyFilesTyped' /\ \A g \in CopyFiles : g # f => copyTree'[g] = copyTree[g]
    BY <1>0 DEF CopyFilesTyped
  <1>3. ASSUME copyPending' = [copyPending EXCEPT ![f] = "done"], UNCHANGED copyClaims
        PROVE  /\ CopyClaimsTyped'
               /\ \A g \in CopyFiles :
                     copyPending'[g] = IF g = f THEN "done" ELSE copyPending[g]
    BY <1>0, <1>3 DEF CopyClaimsTyped, Copy!Sayings
  <1>4. ASSUME NEW k \in copyServing..copyTurn, UNCHANGED copyPending,
               copyClaims' = [copyClaims EXCEPT ![k][f] = "done"]
        PROVE  /\ CopyClaimsTyped'
               /\ \A j \in Copy!Turns, g \in CopyFiles : copyClaims'[j][g]
                    = IF j = k /\ g = f THEN "done" ELSE copyClaims[j][g]
    <2>1. copyClaims \in [Copy!Turns -> [CopyFiles -> Copy!Sayings]] /\ "done" \in Copy!Sayings
          /\ copyPending \in [CopyFiles -> Copy!Sayings]
      BY <1>0 DEF CopyClaimsTyped, Copy!Sayings
    <2>2. \A j \in Copy!Turns, g \in CopyFiles : copyClaims'[j][g]
            = IF j = k /\ g = f THEN "done" ELSE copyClaims[j][g]
      BY <1>4, <2>1
    <2> QED BY <1>4, <2>1, <2>2 DEF CopyClaimsTyped
  <1>5. /\ CopyHistoryTyped'
        /\ \A k \in Copy!Turns : copyWorked'[k]
             = IF k = copyServing THEN copyWorked[k] \cup {f} ELSE copyWorked[k]
    BY <1>0 DEF CopyHistoryTyped
  <1>6. CopyWorkTyped' /\ CopyCountsTyped' /\ CopyCopiesTyped' /\ CopyAtWork'
    BY <1>0 DEF CopyWorkTyped, CopyCountsTyped, CopyCopiesTyped, CopyTInv, CopyAtWork
  <1>7. CopyClaimsTyped'
        /\ \/ /\ UNCHANGED copyClaims
              /\ \A g \in CopyFiles :
                    copyPending'[g] = IF g = f THEN "done" ELSE copyPending[g]
           \/ \E k \in copyServing..copyTurn :
                 /\ UNCHANGED copyPending /\ copyClaims[k][f] = "called"
                 /\ \A j \in Copy!Turns, g \in CopyFiles : copyClaims'[j][g]
                      = IF j = k /\ g = f THEN "done" ELSE copyClaims[j][g]
    BY <1>3, <1>4 DEF Copy!Current
  <1>8. CopyTInv'
    BY <1>2, <1>5, <1>6, <1>7, CopyGroups DEF CopyTInv
  <1> QED BY <1>1, <1>2, <1>5, <1>7, <1>8

\* What leaves the files, the copies and the turns alone.
LEMMA CopyToolTInv ==
  ASSUME Copy!CheckpointsAssumption, CopyTInv, CopyClaimsTyped',
         UNCHANGED <<copyHead, copyPre, copySnaps, copyTree, copyTurn, copyServing, copyStatus,
         copyAgent, copyMessages, copyCancels, copyRewinds, copyEdits, copyBegan, copyWorked>>
  PROVE  CopyTInv'
  <1>0. CopyFilesTyped /\ CopyCopiesTyped /\ CopyWorkTyped /\ CopyCountsTyped
        /\ CopyHistoryTyped
    BY CopyGroups DEF CopyTInv
  <1>1. CopyFilesTyped' /\ CopyWorkTyped' /\ CopyCountsTyped' /\ CopyCopiesTyped'
        /\ CopyAtWork' /\ CopyHistoryTyped'
    BY <1>0
       DEF CopyFilesTyped, CopyWorkTyped, CopyCountsTyped, CopyCopiesTyped, CopyTInv,
           CopyAtWork, CopyHistoryTyped
  <1> QED BY <1>1, CopyGroups DEF CopyTInv

LEMMA CopyCallTInv ==
  ASSUME Copy!CheckpointsAssumption, CopyTInv, NEW f \in CopyFiles, Copy!Call(f)
  PROVE  /\ CopyTInv' /\ UNCHANGED copyClaims
         /\ \A g \in CopyFiles : copyPending'[g] = IF g = f THEN "called" ELSE copyPending[g]
  <1> USE DEF Copy!Call, Copy!counts, Copy!copies, Copy!history
  <1>0. CopyClaimsTyped
    BY CopyGroups DEF CopyTInv
  <1>1. CopyClaimsTyped'
        /\ \A g \in CopyFiles : copyPending'[g] = IF g = f THEN "called" ELSE copyPending[g]
    BY <1>0 DEF CopyClaimsTyped, Copy!Sayings
  <1> QED BY <1>1, CopyToolTInv

\* A failure takes back what a call said that had no result.
LEMMA CopyCallFailsTInv ==
  ASSUME Copy!CheckpointsAssumption, CopyTInv, NEW f \in CopyFiles, Copy!CallFails(f)
  PROVE  /\ CopyTInv'
         /\ \A k \in Copy!Turns, g \in CopyFiles :
               copyClaims'[k][g] # copyClaims[k][g] =>
                  copyClaims[k][g] = "called" /\ copyClaims'[k][g] = "none"
         /\ \A g \in CopyFiles :
               copyPending'[g] # copyPending[g] =>
                  copyPending[g] = "called" /\ copyPending'[g] = "none"
  <1>0. copyClaims \in [Copy!Turns -> [CopyFiles -> Copy!Sayings]]
        /\ copyPending \in [CopyFiles -> Copy!Sayings] /\ "none" \in Copy!Sayings
    BY CopyGroups DEF CopyTInv, CopyClaimsTyped, Copy!Sayings
  <1> DEFINE Taken ==
               /\ CopyClaimsTyped'
               /\ \A k \in Copy!Turns, g \in CopyFiles :
                     copyClaims'[k][g] # copyClaims[k][g] =>
                        copyClaims[k][g] = "called" /\ copyClaims'[k][g] = "none"
               /\ \A g \in CopyFiles :
                     copyPending'[g] # copyPending[g] =>
                        copyPending[g] = "called" /\ copyPending'[g] = "none"
  <1>1. ASSUME copyPending[f] = "called", UNCHANGED copyClaims,
               copyPending' = [copyPending EXCEPT ![f] = "none"]
        PROVE  Taken
    <2>1. \A g \in CopyFiles : copyPending'[g] = IF g = f THEN "none" ELSE copyPending[g]
      BY <1>0, <1>1
    <2>2. copyPending' \in [CopyFiles -> Copy!Sayings]
      BY <1>0, <1>1
    <2>3. CopyClaimsTyped'
      BY <1>0, <1>1, <2>2 DEF CopyClaimsTyped
    <2> QED BY <1>1, <2>1, <2>3
  <1>2. ASSUME NEW k \in Copy!Turns, copyClaims[k][f] = "called", UNCHANGED copyPending,
               copyClaims' = [copyClaims EXCEPT ![k][f] = "none"]
        PROVE  Taken
    <2>1. \A j \in Copy!Turns, g \in CopyFiles : copyClaims'[j][g]
            = IF j = k /\ g = f THEN "none" ELSE copyClaims[j][g]
      BY <1>0, <1>2
    <2>2. copyClaims' \in [Copy!Turns -> [CopyFiles -> Copy!Sayings]]
      BY <1>0, <1>2
    <2>3. CopyClaimsTyped'
      BY <1>0, <1>2, <2>2 DEF CopyClaimsTyped
    <2> QED BY <1>2, <2>1, <2>3
  <1>3. Taken
    BY <1>1, <1>2 DEF Copy!CallFails
  <1>4. CopyTInv'
    BY <1>3, CopyToolTInv DEF Copy!CallFails, Copy!counts, Copy!copies, Copy!history
  <1> QED BY <1>3, <1>4

LEMMA CopyFlushTInv ==
  ASSUME Copy!CheckpointsAssumption, CopyTInv, Copy!Flush
  PROVE  /\ CopyTInv' /\ \A g \in CopyFiles : copyPending'[g] = "none"
         /\ \A k \in Copy!Turns, g \in CopyFiles : copyClaims'[k][g]
              = IF k # copyTurn \/ copyPending[g] = "none" \/ copyClaims[k][g] = "done"
                THEN copyClaims[k][g] ELSE copyPending[g]
  <1> USE DEF Copy!Flush, Copy!counts, Copy!copies, Copy!history
  <1>0. copyClaims \in [Copy!Turns -> [CopyFiles -> Copy!Sayings]]
        /\ copyPending \in [CopyFiles -> Copy!Sayings] /\ "none" \in Copy!Sayings
    BY CopyGroups DEF CopyTInv, CopyClaimsTyped, Copy!Sayings
  <1>1. \A k \in Copy!Turns, g \in CopyFiles : copyClaims'[k][g]
          = IF k # copyTurn \/ copyPending[g] = "none" \/ copyClaims[k][g] = "done"
            THEN copyClaims[k][g] ELSE copyPending[g]
    BY <1>0
  <1>2. CopyClaimsTyped' /\ \A g \in CopyFiles : copyPending'[g] = "none"
    <2> DEFINE said == [g \in CopyFiles |->
                          IF copyPending[g] = "none" \/ copyClaims[copyTurn][g] = "done"
                          THEN copyClaims[copyTurn][g] ELSE copyPending[g]]
    <2>1. copyClaims' = [copyClaims EXCEPT ![copyTurn] = said]
      OBVIOUS
    <2>2. copyTurn \in Copy!Turns => said \in [CopyFiles -> Copy!Sayings]
      BY <1>0
    <2> HIDE DEF said
    <2>3. copyClaims' \in [Copy!Turns -> [CopyFiles -> Copy!Sayings]]
      BY <1>0, <2>1, <2>2
    <2> QED BY <1>0, <2>3 DEF CopyClaimsTyped, Copy!Unclaimed
  <1> QED BY <1>1, <1>2, CopyToolTInv

\* The steps that only move the task and its agent.
LEMMA CopyMoveTInv ==
  ASSUME Copy!CheckpointsAssumption, CopyTInv, Copy!Ask \/ Copy!Answer \/ Copy!Message
         \/ Copy!AgentStops
  PROVE  CopyTInv'
  <1> USE DEF Copy!Ask, Copy!Answer, Copy!Message, Copy!AgentStops, Copy!counts, Copy!history,
              Copy!copies, Copy!calls
  <1>0. CopyFilesTyped /\ CopyCopiesTyped /\ CopyClaimsTyped /\ CopyWorkTyped
        /\ CopyCountsTyped /\ CopyHistoryTyped
    BY CopyGroups DEF CopyTInv
  <1>1. CopyWorkTyped' /\ CopyAtWork'
    BY <1>0 DEF CopyTInv, CopyWorkTyped, CopyAtWork, Copy!CheckpointsAssumption
  <1>2. CopyCountsTyped'
    BY <1>0, CopyCountsAre DEF CopyCountsTyped
  <1>3. CopyFilesTyped' /\ CopyCopiesTyped' /\ CopyClaimsTyped' /\ CopyHistoryTyped'
    BY <1>0 DEF CopyFilesTyped, CopyCopiesTyped, CopyClaimsTyped, CopyHistoryTyped
  <1> QED BY <1>1, <1>2, <1>3, CopyGroups DEF CopyTInv

LEMMA CopyEndsTInv ==
  ASSUME Copy!CheckpointsAssumption, CopyTInv, Copy!Finish \/ Copy!Cancel
  PROVE  CopyTInv'
  <1> USE DEF Copy!Finish, Copy!Cancel, Copy!counts, Copy!history, Copy!calls
  <1>0. CopyFilesTyped /\ CopyClaimsTyped /\ CopyWorkTyped /\ CopyCountsTyped
        /\ CopyHistoryTyped
    BY CopyGroups DEF CopyTInv
  <1>1. CopyWorkTyped' /\ CopyAtWork'
    BY <1>0 DEF CopyTInv, CopyWorkTyped, CopyAtWork, Copy!CheckpointsAssumption
  <1>2. CopyCountsTyped'
    BY <1>0, CopyCountsAre DEF CopyCountsTyped
  <1>3. CopyCopiesTyped'
    BY CopyCaptured DEF CopyTInv
  <1>4. CopyFilesTyped' /\ CopyClaimsTyped' /\ CopyHistoryTyped'
    BY <1>0 DEF CopyFilesTyped, CopyClaimsTyped, CopyHistoryTyped
  <1> QED BY <1>1, <1>2, <1>3, <1>4, CopyGroups DEF CopyTInv

LEMMA CopyResumeTInv ==
  ASSUME Copy!CheckpointsAssumption, CopyTInv, Copy!Resume
  PROVE  /\ CopyTInv' /\ copyServing + 1 \in Copy!Turns
            /\ copyBegan'[copyServing + 1] = copyTree
         /\ \A k \in Copy!Turns : k # copyServing + 1 => copyBegan'[k] = copyBegan[k]
  <1> USE DEF Copy!Resume, Copy!counts, Copy!calls
  <1>0. CopyFilesTyped /\ CopyCopiesTyped /\ CopyClaimsTyped /\ CopyWorkTyped
        /\ CopyCountsTyped /\ CopyHistoryTyped
    BY CopyGroups DEF CopyTInv
  <1>1. CopyWorkTyped' /\ CopyAtWork' /\ copyServing + 1 \in Copy!Turns
    BY <1>0 DEF CopyWorkTyped, CopyAtWork, Copy!Turns, Copy!CheckpointsAssumption
  <1>2. CopyCopiesTyped'
    <2>1. CASE UNCHANGED copySnaps
      BY <1>0, <2>1 DEF CopyCopiesTyped
    <2>2. CASE Copy!CaptureTurnEnd
      BY <2>2, CopyCaptured DEF CopyTInv
    <2> QED BY <2>1, <2>2
  <1>3. /\ CopyHistoryTyped' /\ copyBegan'[copyServing + 1] = copyTree
        /\ \A k \in Copy!Turns : k # copyServing + 1 => copyBegan'[k] = copyBegan[k]
    BY <1>0, <1>1 DEF CopyHistoryTyped, CopyFilesTyped
  <1>4. CopyFilesTyped' /\ CopyClaimsTyped' /\ CopyCountsTyped'
    BY <1>0 DEF CopyFilesTyped, CopyClaimsTyped, CopyCountsTyped
  <1> QED BY <1>1, <1>2, <1>3, <1>4, CopyGroups DEF CopyTInv

LEMMA CopyUserEditsTInv ==
  ASSUME Copy!CheckpointsAssumption, CopyTInv, NEW f \in CopyFiles, Copy!UserEdits(f)
  PROVE  CopyTInv' /\ copyEdits' > 0
  <1> USE DEF Copy!UserEdits, Copy!history, Copy!copies, Copy!calls
  <1>0. CopyFilesTyped /\ CopyCopiesTyped /\ CopyClaimsTyped /\ CopyWorkTyped
        /\ CopyCountsTyped /\ CopyHistoryTyped
    BY CopyGroups DEF CopyTInv
  <1>1. CopyFilesTyped'
    BY <1>0, CopyContentsAre DEF CopyFilesTyped
  <1>2. CopyCountsTyped' /\ copyEdits' > 0
    BY <1>0, CopyCountsAre DEF CopyCountsTyped
  <1>3. CopyWorkTyped' /\ CopyCopiesTyped' /\ CopyClaimsTyped' /\ CopyAtWork'
        /\ CopyHistoryTyped'
    BY <1>0
       DEF CopyTInv, CopyWorkTyped, CopyCopiesTyped, CopyClaimsTyped, CopyAtWork,
           CopyHistoryTyped
  <1> QED BY <1>1, <1>2, <1>3, CopyGroups DEF CopyTInv

LEMMA CopyRestoreTInv ==
  ASSUME Copy!CheckpointsAssumption, CopyTInv, NEW n \in Copy!Turns, NEW set,
         Copy!Restore(n, set)
  PROVE  /\ CopyTInv' /\ copyRewinds' > 0
         /\ \A f \in CopyFiles : copyTree'[f]
              = IF f \in set THEN Copy!Before(n, f) ELSE copyTree[f]
  <1> USE DEF Copy!Restore, Copy!history, Copy!copies, Copy!calls
  <1>0. CopyFilesTyped /\ CopyCopiesTyped /\ CopyClaimsTyped /\ CopyWorkTyped
        /\ CopyCountsTyped /\ CopyHistoryTyped
    BY CopyGroups DEF CopyTInv
  <1>1. CopyFilesTyped'
    BY <1>0, CopyBeforeTyped DEF CopyTInv, CopyFilesTyped
  <1>2. CopyCountsTyped' /\ copyRewinds' > 0
    BY <1>0, CopyCountsAre DEF CopyCountsTyped
  <1>3. CopyWorkTyped' /\ CopyCopiesTyped' /\ CopyClaimsTyped' /\ CopyAtWork'
        /\ CopyHistoryTyped'
    BY <1>0
       DEF CopyTInv, CopyWorkTyped, CopyCopiesTyped, CopyClaimsTyped, CopyAtWork,
           CopyHistoryTyped
  <1> QED BY <1>1, <1>2, <1>3, CopyGroups DEF CopyTInv

\* A step is one of these.
LEMMA CopySteps ==
  ASSUME Copy!CheckpointsAssumption, CopyTInv, Copy!Next
  PROVE  \/ Copy!Begin \/ Copy!Ask \/ Copy!Answer \/ Copy!Message \/ Copy!Finish \/ Copy!Cancel
            \/ Copy!AgentStops \/ Copy!Resume \/ Copy!Flush
         \/ \E f \in CopyFiles, c \in Copy!Contents : Copy!Edit(f, c)
         \/ \E f \in CopyFiles : Copy!Call(f) \/ Copy!CallFails(f) \/ Copy!UserEdits(f)
         \/ \E n \in Copy!Turns, set \in SUBSET CopyFiles : Copy!Restore(n, set)
  <1>1. ASSUME NEW f \in CopyFiles, Copy!Edit(f, Copy!OfTurn(copyServing))
               \/ Copy!Edit(f, Copy!Absent)
        PROVE  \E c \in Copy!Contents : Copy!Edit(f, c)
    <2>1. copyServing \in 0..CopyMaxTurns
      BY CopyGroups DEF CopyTInv, CopyWorkTyped, Copy!CheckpointsAssumption
    <2>2. Copy!OfTurn(copyServing) \in Copy!Contents /\ Copy!Absent \in Copy!Contents
      BY <2>1, CopyContentsAre
    <2> QED BY <1>1, <2>2
  <1>2. ASSUME NEW n \in Copy!Turns, Copy!RewindToTurn(n)
        PROVE \E set \in SUBSET CopyFiles : Copy!Restore(n, set)
    <2>1. Copy!ChangedSince(n) \in SUBSET CopyFiles
      BY DEF Copy!ChangedSince, Copy!Changed
    <2> QED BY <1>2, <2>1 DEF Copy!RewindToTurn
  <1>3. ASSUME NEW n \in Copy!Turns, NEW f \in CopyFiles, Copy!RewindFileToTurn(n, f)
        PROVE  \E set \in SUBSET CopyFiles : Copy!Restore(n, set)
    <2>1. {f} \in SUBSET CopyFiles /\ Copy!Restore(n, {f})
      BY <1>3 DEF Copy!RewindFileToTurn
    <2> QED BY <2>1
  <1> QED BY <1>1, <1>2, <1>3 DEF Copy!Next

LEMMA CopyNextTInv == Copy!CheckpointsAssumption /\ CopyTInv /\ [Copy!Next]_copyVars => CopyTInv'
  <1> SUFFICES ASSUME Copy!CheckpointsAssumption, CopyTInv, [Copy!Next]_copyVars PROVE CopyTInv'
    OBVIOUS
  <1>1. CASE Copy!Next
    BY <1>1, CopySteps, CopyBeginTInv, CopyMoveTInv, CopyEndsTInv, CopyResumeTInv,
       CopyEditTInv, CopyCallTInv, CopyCallFailsTInv, CopyFlushTInv, CopyUserEditsTInv,
       CopyRestoreTInv
  <1>2. CASE UNCHANGED copyVars
    BY <1>2 DEF copyVars, Copy!counts, CopyTInv, Copy!TypeOK, CopyHistoryTyped, CopyAtWork
  <1> QED BY <1>1, <1>2

-----------------------------------------------------------------------------
(* The first rewind *)

\* Before the first turn: the copy made before the task, or HEAD.
LEMMA CopyBeforeBase ==
  ASSUME NEW f \in CopyFiles
  PROVE  /\ Copy!Before(1, f) = IF copyPre[f] # Copy!None THEN copyPre[f] ELSE copyHead[f]
         /\ Copy!Before(1, f)' = IF copyPre'[f] # Copy!None THEN copyPre'[f] ELSE copyHead'[f]
  <1>1. 1..(1 - 1) = {}
    OBVIOUS
  <1> QED BY <1>1 DEF Copy!Before

LEMMA CopyInitCInv == Copy!CheckpointsAssumption /\ Copy!Init => CopyCInv
  <1> SUFFICES ASSUME Copy!CheckpointsAssumption, Copy!Init PROVE CopyCInv
    OBVIOUS
  <1>1. CopyTInv
    BY CopyInitTInv
  <1>2. CopyLine /\ CopyEvents
    BY DEF Copy!Init, CopyLine, CopyInTurn, CopyEvents, CopySays, Copy!Unclaimed
  <1>3. CopyCopies
    BY CopyTurnsAre DEF Copy!Init, CopyCopies, CopyInTurn, Copy!Unclaimed
  <1>4. CopyKnown
    BY DEF Copy!Init, CopyKnown
  <1> QED BY <1>1, <1>2, <1>3, <1>4 DEF CopyCInv, CopyCalmInv, CopyFirstInv

LEMMA CopyBeginCInv ==
  ASSUME Copy!CheckpointsAssumption, CopyCInv, Copy!Begin
  PROVE  CopyCInv'
  <1> USE DEF Copy!Begin, Copy!counts, Copy!calls
  <1>0. CopyTInv /\ CopyTInv' /\ (Copy!Calm' => Copy!Calm) /\ CopyFilesTyped /\ 1 \in Copy!Turns
    BY CopyBeginTInv, CopyContentsAre, CopyGroups DEF CopyCInv, CopyTInv, Copy!Calm
  <1>1. ASSUME Copy!Calm PROVE CopyLine' /\ CopyCopies' /\ CopyEvents'
    <2>1. CopyLine /\ CopyCopies /\ CopyEvents /\ copyTurn = 0
      BY <1>1 DEF CopyCInv, CopyCalmInv, CopyLine
    <2>2. CopyLine'
      BY <2>1 DEF CopyLine, CopyInTurn
    <2>3. \A k \in Copy!Turns : copySnaps[k] = Copy!NoCopy
          /\ (\A f \in CopyFiles : copyClaims[k][f] = "none") /\ (k > 1 \/ k = 1) /\ ~(k < 1)
      BY <2>1, CopyTurnsAre DEF CopyCopies
    <2>4. CopyCopies'
      BY <2>3 DEF CopyCopies, CopyInTurn
    <2>5. CopyEvents'
      <3> SUFFICES ASSUME NEW f \in CopyFiles, f \notin copyLate PROVE CopySays(f)'
        BY DEF CopyEvents
      <3>1. CopySays(f) /\ copyPending[f] = "none"
        BY <2>1 DEF CopyEvents, CopySays, CopyInTurn
      <3> QED BY <3>1 DEF CopySays
    <2> QED BY <2>2, <2>4, <2>5
  <1>2. CopyKnown'
    <2> SUFFICES ASSUME NEW f \in CopyFiles, Copy!Copied(f)'
                 PROVE  /\ \A k \in 1..copyTurn' : copyBegan'[k][f] = Copy!Before(k, f)'
                        /\ copyTree'[f] = copyBegan'[copyTurn'][f]
      BY DEF CopyKnown
    <2>1. /\ copyPre'[f] = IF copyTree[f] # copyHead[f]
             /\ copyTree[f] # Copy!Absent THEN copyTree[f] ELSE Copy!None
          /\ copyBegan'[1][f] = copyTree[f]
      BY <1>0, CopyBeginTInv
    <2>2. copyTree[f] # Copy!Absent \/ copyHead[f] = Copy!Absent
      BY <2>1 DEF Copy!Copied
    <2>3. Copy!Before(1, f)' = IF copyPre'[f] # Copy!None THEN copyPre'[f] ELSE copyHead[f]
      BY CopyBeforeBase
    <2>4. copyTree[f] # Copy!None
      BY <1>0, CopyContentsAre DEF CopyFilesTyped
    <2>5. Copy!Before(1, f)' = copyTree[f]
      BY <2>1, <2>2, <2>3, <2>4
    <2> QED BY <2>1, <2>5
  <1> QED BY <1>0, <1>1, <1>2 DEF CopyCInv, CopyCalmInv, CopyFirstInv

\* An agent that works on a message has it to itself: its calls are in the turn's
\* events or in the wire.
LEMMA CopyEditCInv ==
  ASSUME Copy!CheckpointsAssumption, CopyCInv, NEW f \in CopyFiles, NEW c \in Copy!Contents,
         Copy!Edit(f, c)
  PROVE  CopyCInv'
  <1>0. /\ CopyTInv /\ CopyTInv' /\ copyTurn \in Copy!Turns
        /\ UNCHANGED <<copyHead, copyPre, copySnaps, copyTurn, copyServing, copyStatus,
                       copyAgent, copyMessages, copyCancels, copyRewinds, copyEdits,
                       copyBegan, copyLate>>
        /\ copyAgent = "working"
    BY CopyEditTInv DEF CopyCInv, Copy!Edit, Copy!counts, Copy!copies
  <1>1. /\ \A g \in CopyFiles : g # f => copyTree'[g] = copyTree[g]
        /\ \A k \in Copy!Turns : copyWorked'[k]
             = IF k = copyServing THEN copyWorked[k] \cup {f} ELSE copyWorked[k]
        /\ \/ /\ UNCHANGED copyClaims
              /\ \A g \in CopyFiles :
                    copyPending'[g] = IF g = f THEN "done" ELSE copyPending[g]
           \/ \E k \in copyServing..copyTurn :
                 /\ UNCHANGED copyPending /\ copyClaims[k][f] = "called"
                 /\ \A j \in Copy!Turns, g \in CopyFiles : copyClaims'[j][g]
                      = IF j = k /\ g = f THEN "done" ELSE copyClaims[j][g]
    BY <1>0, CopyEditTInv
  <1>2. ASSUME Copy!Calm PROVE CopyLine' /\ CopyCopies' /\ CopyEvents'
    <2>1. CopyLine /\ CopyCopies /\ CopyEvents /\ CopyInTurn /\ copyServing = copyTurn
      BY <1>0, <1>2 DEF CopyCInv, CopyCalmInv, CopyLine
    <2>2. copyTurn \in Nat
      BY <1>0, CopyTurnsAre
    <2>3. CopyLine'
      BY <1>0, <2>1 DEF CopyLine, CopyInTurn
    <2>4. \A k \in Copy!Turns : k > copyTurn \/ k < copyTurn => k # copyTurn
      BY <1>0, CopyTurnsAre
    <2>5. \A k \in Copy!Turns : k # copyTurn =>
             \A g \in CopyFiles : copyClaims'[k][g] = copyClaims[k][g]
      <3>1. \A k \in copyServing..copyTurn : k = copyTurn
        BY <2>1, <2>2
      <3> QED BY <1>1, <3>1
    <2>6. CopyCopies'
      <3> SUFFICES ASSUME NEW k \in Copy!Turns
                   PROVE  /\ k > copyTurn \/ k = copyTurn => copySnaps[k] = Copy!NoCopy
                          /\ k < copyTurn => \A g \in CopyFiles : g \notin copyLate =>
                                (copyClaims'[k][g] # "none" => copySnaps[k][g] # Copy!None)
                          /\ k > copyTurn => \A g \in CopyFiles : copyClaims'[k][g] = "none"
        BY <1>0, <2>1 DEF CopyCopies, CopyInTurn
      <3> QED BY <2>1, <2>4, <2>5 DEF CopyCopies
    <2>7. CopyEvents'
      <3> SUFFICES ASSUME NEW g \in CopyFiles, g \notin copyLate PROVE CopySays(g)'
        BY <1>0 DEF CopyEvents
      <3>1. CopySays(g) /\ CopyInTurn'
        BY <1>0, <2>1 DEF CopyEvents, CopyInTurn
      <3>2. CASE g # f
        <4>1. /\ \A k \in Copy!Turns : /\ copyClaims'[k][g] = copyClaims[k][g]
                                       /\ g \in copyWorked'[k] <=> g \in copyWorked[k]
              /\ copyPending'[g] = copyPending[g]
          BY <1>1, <3>2
        <4> QED BY <1>0, <3>1, <4>1 DEF CopySays
      <3>3. CASE g = f
        <4>1. \A k \in Copy!Turns : g \in copyWorked'[k] <=> k = copyTurn \/ g \in copyWorked[k]
          BY <1>1, <2>1, <3>3
        <4>2. CASE UNCHANGED copyClaims /\ copyPending'[g] = "done"
          BY <1>0, <3>1, <4>1, <4>2 DEF CopySays
        <4>3. CASE /\ UNCHANGED copyPending
                   /\ \A j \in Copy!Turns : copyClaims'[j][g]
                        = IF j = copyTurn THEN "done" ELSE copyClaims[j][g]
          BY <1>0, <3>1, <4>1, <4>3 DEF CopySays
        <4>4. \A k \in copyServing..copyTurn : k = copyTurn
          BY <2>1, <2>2
        <4> QED BY <1>1, <3>3, <4>2, <4>3, <4>4
      <3> QED BY <3>2, <3>3
    <2> QED BY <2>3, <2>6, <2>7
  <1>3. ASSUME Copy!Calm, CopyKnown PROVE CopyKnown'
    <2>1. CopyInTurn /\ copyServing = copyTurn
      BY <1>0, <1>3 DEF CopyCInv, CopyCalmInv, CopyLine
    <2> SUFFICES ASSUME NEW g \in CopyFiles, Copy!Copied(g), g \notin copyLate
                 PROVE  /\ \A k \in 1..copyTurn : copyBegan[k][g] = Copy!Before(k, g)'
                        /\ g \notin copyWorked'[copyTurn]
                             => copyTree'[g] = copyBegan[copyTurn][g]
      BY <1>0, <2>1 DEF CopyKnown, CopyInTurn, Copy!Copied
    <2>2. \A k \in 1..copyTurn : Copy!Before(k, g)' = Copy!Before(k, g)
      BY <1>0 DEF Copy!Before
    <2>3. copyTurn > 0
      BY <1>0, CopyTurnsAre
    <2>4. g \notin copyWorked'[copyTurn] => copyTree'[g] = copyTree[g]
          /\ g \notin copyWorked[copyTurn]
      BY <1>0, <1>1, <2>1
    <2> QED BY <1>3, <2>2, <2>3, <2>4 DEF CopyKnown
  <1> QED BY <1>0, <1>2, <1>3 DEF CopyCInv, CopyCalmInv, CopyFirstInv, Copy!Calm

\* A step that leaves alone what the copies and the history rest on.
LEMMA CopyQuietCInv ==
  ASSUME CopyCInv, CopyTInv',
         UNCHANGED <<copyHead, copyPre, copySnaps, copyTurn, copyServing, copyAgent,
         copyMessages, copyCancels, copyBegan, copyWorked, copyLate>>,
         Copy!Calm => CopyCopies' /\ CopyEvents',
         copyStatus' = copyStatus \/ (CopyInTurn /\ CopyInTurn'),
         Copy!Calm /\ copyRewinds' = 0
         /\ copyEdits' = 0 => UNCHANGED <<copyTree, copyRewinds, copyEdits>>
  PROVE  CopyCInv'
  <1>1. ASSUME Copy!Calm PROVE CopyLine' /\ CopyCopies' /\ CopyEvents'
    BY <1>1 DEF CopyCInv, CopyCalmInv, CopyLine, CopyInTurn
  <1>2. ASSUME Copy!Calm, CopyKnown, UNCHANGED copyTree PROVE CopyKnown'
    <2>1. \A k \in 1..copyTurn, f \in CopyFiles : Copy!Before(k, f)' = Copy!Before(k, f)
      BY DEF Copy!Before
    <2> QED BY <1>2, <2>1 DEF CopyKnown, Copy!Copied, CopyInTurn
  <1> QED BY <1>1, <1>2 DEF CopyCInv, CopyCalmInv, CopyFirstInv, Copy!Calm

\* The same of a step that leaves the calls alone.
LEMMA CopyIdleCInv ==
  ASSUME CopyCInv, CopyTInv',
         UNCHANGED <<copyHead, copyPre, copySnaps, copyTurn, copyServing, copyAgent,
         copyMessages, copyCancels, copyBegan, copyWorked, copyLate, copyClaims, copyPending>>,
         copyStatus' = copyStatus \/ (CopyInTurn /\ CopyInTurn'),
         Copy!Calm /\ copyRewinds' = 0
         /\ copyEdits' = 0 => UNCHANGED <<copyTree, copyRewinds, copyEdits>>
  PROVE  CopyCInv'
  <1>1. ASSUME Copy!Calm PROVE CopyCopies' /\ CopyEvents'
    BY <1>1 DEF CopyCInv, CopyCalmInv, CopyCopies, CopyEvents, CopySays, CopyInTurn
  <1> QED BY <1>1, CopyQuietCInv

\* What a call says, and that it failed, and that the wire is written out.
LEMMA CopyToolCInv ==
  ASSUME Copy!CheckpointsAssumption, CopyCInv,
         (\E f \in CopyFiles : Copy!Call(f) \/ Copy!CallFails(f)) \/ Copy!Flush
  PROVE  CopyCInv'
  <1>0. /\ CopyTInv
        /\ UNCHANGED <<copyHead, copyPre, copySnaps, copyTree, copyTurn, copyServing,
                       copyStatus, copyAgent, copyMessages, copyCancels, copyRewinds,
                       copyEdits, copyBegan, copyWorked, copyLate>>
    BY DEF CopyCInv, Copy!Call, Copy!CallFails, Copy!Flush, Copy!counts, Copy!copies,
           Copy!history
  <1>1. ASSUME Copy!Calm PROVE CopyLine /\ CopyCopies /\ CopyEvents
    BY <1>1 DEF CopyCInv, CopyCalmInv
  <1>2. \A k \in Copy!Turns : k > copyTurn \/ k < copyTurn => k # copyTurn
    BY <1>0, CopyGroups, CopyTurnsAre DEF CopyTInv, CopyWorkTyped, Copy!CheckpointsAssumption
  \* what is left to show of the claims and of the wire
  <1>3. ASSUME CopyTInv',
               Copy!Calm => \A k \in Copy!Turns, g \in CopyFiles :
                  /\ k > copyTurn => copyClaims'[k][g] = "none"
                  /\ g \notin copyLate
                     /\ (k < copyTurn \/ (k = copyTurn /\ copyStatus = "ended"))
                     /\ copyClaims'[k][g] # "none" => copyClaims[k][g] # "none",
               Copy!Calm => \A g \in CopyFiles : g \notin copyLate => CopySays(g)'
        PROVE  CopyCInv'
    <2>1. ASSUME Copy!Calm PROVE CopyCopies'
      BY <1>0, <1>1, <1>3, <2>1 DEF CopyCopies, CopyInTurn
    <2>2. ASSUME Copy!Calm PROVE CopyEvents'
      BY <1>0, <1>3, <2>2 DEF CopyEvents
    <2> QED BY <1>0, <1>3, <2>1, <2>2, CopyQuietCInv
  <1>4. ASSUME NEW f \in CopyFiles, Copy!Call(f) PROVE CopyCInv'
    <2>1. /\ CopyTInv' /\ UNCHANGED copyClaims
          /\ \A g \in CopyFiles : copyPending'[g] = IF g = f THEN "called" ELSE copyPending[g]
      BY <1>0, <1>4, CopyCallTInv
    <2>2. ASSUME Copy!Calm, NEW g \in CopyFiles, g \notin copyLate PROVE CopySays(g)'
      <3>1. CopySays(g) /\ CopyInTurn /\ CopyInTurn' /\ copyPending[f] = "none"
        BY <1>0, <1>1, <1>4, <2>2 DEF CopyEvents, CopyLine, Copy!Call, CopyInTurn
      <3> QED BY <1>0, <2>1, <3>1 DEF CopySays
    <2>3. Copy!Calm => \A k \in Copy!Turns, g \in CopyFiles :
             k > copyTurn => copyClaims[k][g] = "none"
      BY <1>1 DEF CopyCopies
    <2> QED BY <1>3, <2>1, <2>2, <2>3
  <1>5. ASSUME NEW f \in CopyFiles, Copy!CallFails(f) PROVE CopyCInv'
    <2>1. /\ CopyTInv'
          /\ \A k \in Copy!Turns, g \in CopyFiles :
                copyClaims'[k][g] # copyClaims[k][g] =>
                   copyClaims[k][g] = "called" /\ copyClaims'[k][g] = "none"
          /\ \A g \in CopyFiles :
                copyPending'[g] # copyPending[g] =>
                   copyPending[g] = "called" /\ copyPending'[g] = "none"
      BY <1>0, <1>5, CopyCallFailsTInv
    <2>2. ASSUME Copy!Calm, NEW g \in CopyFiles, g \notin copyLate PROVE CopySays(g)'
      <3>1. CopySays(g) /\ (CopyInTurn => CopyInTurn')
        BY <1>0, <1>1, <2>2 DEF CopyEvents, CopyInTurn
      <3>2. (copyPending'[g] = "done" <=> copyPending[g] = "done")
            /\ \A k \in Copy!Turns : copyClaims'[k][g] = "done" <=> copyClaims[k][g] = "done"
        BY <2>1
      <3>3. copyPending'[g] # "none" => copyPending[g] # "none"
        BY <2>1
      <3> QED BY <1>0, <3>1, <3>2, <3>3 DEF CopySays
    <2>3. Copy!Calm => \A k \in Copy!Turns, g \in CopyFiles :
             k > copyTurn => copyClaims[k][g] = "none"
      BY <1>1 DEF CopyCopies
    <2>4. \A k \in Copy!Turns, g \in CopyFiles :
             copyClaims[k][g] = "none" => copyClaims'[k][g] = "none"
      BY <2>1
    <2> QED BY <1>3, <2>1, <2>2, <2>3, <2>4
  <1>6. ASSUME Copy!Flush PROVE CopyCInv'
    <2>1. /\ CopyTInv' /\ \A g \in CopyFiles : copyPending'[g] = "none"
          /\ \A k \in Copy!Turns, g \in CopyFiles : copyClaims'[k][g]
               = IF k # copyTurn \/ copyPending[g] = "none" \/ copyClaims[k][g] = "done"
                 THEN copyClaims[k][g] ELSE copyPending[g]
      BY <1>0, <1>6, CopyFlushTInv
    <2>2. ASSUME Copy!Calm, NEW g \in CopyFiles, g \notin copyLate PROVE CopySays(g)'
      <3>1. CopySays(g)
        BY <1>1, <2>2 DEF CopyEvents
      <3>2. \A k \in Copy!Turns : copyClaims'[k][g] = "done"
              <=> copyClaims[k][g] = "done" \/ (k = copyTurn /\ copyPending[g] = "done")
        BY <2>1
      <3> QED BY <1>0, <2>1, <3>1, <3>2 DEF CopySays
    <2>3. ASSUME Copy!Calm, NEW k \in Copy!Turns, NEW g \in CopyFiles
          PROVE  /\ k > copyTurn => copyClaims'[k][g] = "none"
                 /\ g \notin copyLate
                    /\ (k < copyTurn \/ (k = copyTurn /\ copyStatus = "ended"))
                    /\ copyClaims'[k][g] # "none" => copyClaims[k][g] # "none"
      <3>1. k > copyTurn => copyClaims[k][g] = "none"
        BY <1>1, <2>3 DEF CopyCopies
      <3>2. g \notin copyLate /\ copyStatus = "ended" => copyPending[g] = "none"
        BY <1>1, <2>3 DEF CopyEvents, CopySays, CopyInTurn
      <3> QED BY <1>2, <2>1, <3>1, <3>2
    <2> QED BY <1>3, <2>1, <2>2, <2>3
  <1> QED BY <1>4, <1>5, <1>6

LEMMA CopyQuietSteps ==
  ASSUME Copy!CheckpointsAssumption, CopyCInv,
         \/ Copy!Ask \/ Copy!Answer
         \/ \E f \in CopyFiles : Copy!UserEdits(f)
         \/ \E n \in Copy!Turns, set \in SUBSET CopyFiles : Copy!Restore(n, set)
  PROVE  CopyCInv'
  <1> USE DEF Copy!copies, Copy!calls, Copy!history
  <1>0. CopyTInv
    BY DEF CopyCInv
  <1>1. CASE Copy!Ask \/ Copy!Answer
    <2>1. CopyTInv'
      BY <1>0, <1>1, CopyMoveTInv
    <2> QED
      BY <1>1, <2>1, CopyIdleCInv DEF Copy!Ask, Copy!Answer, Copy!counts, CopyInTurn
  <1>2. ASSUME NEW f \in CopyFiles, Copy!UserEdits(f) PROVE CopyCInv'
    <2>1. CopyTInv' /\ copyEdits' # 0
      BY <1>0, <1>2, CopyUserEditsTInv
    <2> QED BY <1>2, <2>1, CopyIdleCInv DEF Copy!UserEdits
  <1>3. ASSUME NEW n \in Copy!Turns, NEW set \in SUBSET CopyFiles, Copy!Restore(n, set)
        PROVE CopyCInv'
    <2>1. CopyTInv' /\ copyRewinds' # 0
      BY <1>0, <1>3, CopyRestoreTInv
    <2> QED BY <1>3, <2>1, CopyIdleCInv DEF Copy!Restore
  <1> QED BY <1>1, <1>2, <1>3

\* A message ends the calm, and so does a cancel; only then an agent outlives its turn.
LEMMA CopyUncalmCInv ==
  ASSUME Copy!CheckpointsAssumption, CopyCInv, Copy!Message \/ Copy!Cancel \/ Copy!AgentStops
  PROVE  CopyCInv'
  <1>0. CopyTInv /\ CopyTInv' /\ CopyCountsTyped
    BY CopyMoveTInv, CopyEndsTInv, CopyGroups DEF CopyCInv, CopyTInv
  <1>1. ~Copy!Calm'
    <2>1. CASE Copy!Message \/ Copy!Cancel
      BY <1>0, <2>1, CopyCountsAre DEF Copy!Message, Copy!Cancel, Copy!Calm
    <2>2. CASE Copy!AgentStops
      BY <2>2
         DEF Copy!AgentStops, Copy!Calm, Copy!counts, CopyCInv, CopyCalmInv, CopyLine,
             CopyInTurn
    <2> QED BY <2>1, <2>2
  <1> QED BY <1>0, <1>1 DEF CopyCInv, CopyCalmInv, CopyFirstInv

LEMMA CopyFinishCInv ==
  ASSUME Copy!CheckpointsAssumption, CopyCInv, Copy!Finish
  PROVE  CopyCInv'
  <1> USE DEF Copy!Finish, Copy!counts, Copy!calls
  <1>0. CopyTInv /\ CopyTInv' /\ Copy!TypeOK /\ CopyFilesTyped /\ CopyWorkTyped
    BY CopyEndsTInv, CopyGroups DEF CopyCInv, CopyTInv
  <1>1. ASSUME Copy!Calm
        PROVE  /\ CopyLine /\ CopyCopies /\ CopyEvents /\ copyTurn \in Copy!Turns
                  /\ copyTurn > 0
                  /\ \A k \in Copy!Turns : k # copyTurn => copySnaps'[k] = copySnaps[k]
               /\ \A f \in CopyFiles : copySnaps'[copyTurn][f]
                    = IF f \in Copy!Changed(copyTurn) THEN copyTree[f] ELSE Copy!None
    <2>1. CopyLine /\ CopyCopies /\ CopyEvents /\ copyTurn # 0
      BY <1>1 DEF CopyCInv, CopyCalmInv, CopyLine
    <2>2. copyTurn \in Copy!Turns /\ copyTurn > 0
      BY <1>0, <2>1 DEF CopyWorkTyped, Copy!Turns, Copy!CheckpointsAssumption
    <2>3. copySnaps[copyTurn] = Copy!NoCopy
      BY <2>1, <2>2 DEF CopyCopies, CopyInTurn
    <2> QED BY <1>0, <2>1, <2>2, <2>3, CopyCaptured
  <1>2. ASSUME Copy!Calm PROVE CopyLine' /\ CopyCopies' /\ CopyEvents'
    <2>1. CopyLine'
      BY <1>1, <1>2 DEF CopyLine, CopyInTurn
    <2>2. \A f \in CopyFiles : copyTree[f] # Copy!None
      BY <1>0, CopyContentsAre DEF CopyFilesTyped
    <2>3. \A f \in CopyFiles : f \notin copyLate'
            => f \notin copyLate /\ copyPending[f] = "none"
      OBVIOUS
    <2>4. \A k \in Copy!Turns : k > copyTurn \/ k < copyTurn => k # copyTurn
      BY <1>1, <1>2, CopyTurnsAre
    <2>5. CopyCopies'
      <3> SUFFICES ASSUME NEW k \in Copy!Turns
                   PROVE  /\ k > copyTurn => copySnaps'[k] = Copy!NoCopy
                          /\ k < copyTurn \/ k = copyTurn =>
                                \A f \in CopyFiles : f \notin copyLate' =>
                                   (copyClaims[k][f] # "none" => copySnaps'[k][f] # Copy!None)
                          /\ k > copyTurn => \A f \in CopyFiles : copyClaims[k][f] = "none"
        BY DEF CopyCopies, CopyInTurn
      <3>1. CASE k = copyTurn
        BY <1>1, <1>2, <2>2, <2>4, <3>1 DEF Copy!Changed
      <3>2. CASE k # copyTurn
        BY <1>1, <1>2, <2>3, <3>2 DEF CopyCopies
      <3> QED BY <3>1, <3>2
    <2>6. CopyEvents'
      BY <1>1, <1>2, <2>3 DEF CopyEvents, CopySays
    <2> QED BY <2>1, <2>5, <2>6
  <1>3. ASSUME Copy!Calm, CopyKnown PROVE CopyKnown'
    <2>1. \A k \in 1..copyTurn, f \in CopyFiles : Copy!Before(k, f)' = Copy!Before(k, f)
      <3> SUFFICES ASSUME NEW k \in 1..copyTurn, NEW f \in CopyFiles
                   PROVE Copy!Before(k, f)' = Copy!Before(k, f)
        OBVIOUS
      <3>1. k \in Copy!Turns /\ k <= copyTurn /\ copyTurn \in Nat /\ k \in Nat
        BY <1>1, <1>3 DEF Copy!Turns, Copy!CheckpointsAssumption
      <3>2. \A j \in 1..(k - 1) : j \in Copy!Turns /\ j # copyTurn
        BY <3>1, CopyTurnsAre
      <3> QED BY <1>1, <1>3, <3>1, <3>2, CopyBeforeSame
    <2> QED BY <1>1, <1>3, <2>1 DEF CopyKnown, Copy!Copied
  <1> QED BY <1>0, <1>2, <1>3 DEF CopyCInv, CopyCalmInv, CopyFirstInv, Copy!Calm

LEMMA CopyResumeCInv ==
  ASSUME Copy!CheckpointsAssumption, CopyCInv, Copy!Resume
  PROVE  CopyCInv'
  <1> USE DEF Copy!Resume, Copy!counts, Copy!calls
  <1>0. /\ CopyTInv /\ CopyTInv' /\ Copy!TypeOK /\ CopyFilesTyped /\ CopyWorkTyped
           /\ CopyCopiesTyped /\ CopyCopiesTyped'
        /\ copyBegan'[copyServing + 1] = copyTree
           /\ \A k \in Copy!Turns : k # copyServing + 1 => copyBegan'[k] = copyBegan[k]
    BY CopyResumeTInv, CopyGroups DEF CopyCInv, CopyTInv
  <1>1. ASSUME Copy!Calm
        PROVE  /\ CopyLine /\ CopyCopies /\ CopyEvents /\ copyTurn \in Copy!Turns
                  /\ copyTurn > 0
                  /\ copyServing = copyTurn /\ copyTurn + 1 \in Copy!Turns
               /\ copyTurn' = copyTurn + 1 /\ Copy!CaptureTurnEnd
    <2>1. CopyLine /\ CopyCopies /\ CopyEvents /\ copyTurn # 0 /\ copyServing = copyTurn
      BY <1>1 DEF CopyCInv, CopyCalmInv, CopyLine
    <2>2. copyTurn \in Nat /\ ~(copyServing < copyTurn)
      BY <1>0, <2>1 DEF CopyWorkTyped, Copy!CheckpointsAssumption
    <2>3. copyTurn < CopyMaxTurns /\ copyTurn' = copyTurn + 1 /\ Copy!CaptureTurnEnd
      BY <2>2
    <2> QED BY <2>1, <2>2, <2>3 DEF Copy!Turns, Copy!CheckpointsAssumption
  \* the copy that is made now, if any, has only files that were late
  <1>2. ASSUME Copy!Calm
        PROVE  /\ \A k \in Copy!Turns : k # copyTurn => copySnaps'[k] = copySnaps[k]
               /\ \A k \in Copy!Turns, f \in CopyFiles :
                     f \notin copyLate => copySnaps'[k][f] = copySnaps[k][f]
    <2>1. \A k \in Copy!Turns : k # copyTurn => copySnaps'[k] = copySnaps[k]
      BY <1>0, <1>1, <1>2, CopyCaptured
    <2>2. ASSUME NEW f \in CopyFiles, f \notin copyLate
          PROVE  copySnaps'[copyTurn][f] = copySnaps[copyTurn][f]
      <3>1. CASE copySnaps[copyTurn] # Copy!NoCopy
        BY <1>0, <1>1, <1>2, <3>1, CopyCaptured
      <3>2. CASE copySnaps[copyTurn] = Copy!NoCopy
        <4>1. copySnaps[copyTurn][f] = Copy!None
          BY <2>2, <3>2 DEF Copy!NoCopy
        <4>2. f \notin Copy!Changed(copyTurn)
          BY <1>1, <1>2, <2>2, <4>1 DEF CopyCopies, Copy!Changed
        <4> QED BY <1>0, <1>1, <1>2, <2>2, <3>2, <4>1, <4>2, CopyCaptured
      <3> QED BY <3>1, <3>2
    <2> QED BY <2>1, <2>2
  <1>3. ASSUME Copy!Calm PROVE CopyLine' /\ CopyCopies' /\ CopyEvents'
    <2>0. copyTurn \in Nat
      BY <1>1, <1>3, CopyTurnsAre
    <2>1. CopyLine'
      BY <1>1, <1>3, <2>0 DEF CopyLine, CopyInTurn
    <2>2. \A k \in Copy!Turns : /\ k > copyTurn + 1 \/ k = copyTurn + 1
                                     => k > copyTurn /\ k # copyTurn
                                /\ k < copyTurn + 1 => k < copyTurn \/ k = copyTurn
                                /\ k > copyTurn + 1 => k > copyTurn
      BY <1>1, <1>3, CopyTurnsAre
    <2>3. CopyCopies'
      <3> SUFFICES ASSUME NEW k \in Copy!Turns
                   PROVE  /\ k > copyTurn' \/ k = copyTurn' => copySnaps'[k] = Copy!NoCopy
                          /\ k < copyTurn' =>
                                \A f \in CopyFiles : f \notin copyLate =>
                                   (copyClaims[k][f] # "none" => copySnaps'[k][f] # Copy!None)
                          /\ k > copyTurn' => \A f \in CopyFiles : copyClaims[k][f] = "none"
        BY DEF CopyCopies, CopyInTurn
      <3> QED BY <1>1, <1>2, <1>3, <2>2 DEF CopyCopies
    <2>4. CopyEvents'
      <3> SUFFICES ASSUME NEW f \in CopyFiles, f \notin copyLate PROVE CopySays(f)'
        BY DEF CopyEvents
      <3>1. CopySays(f) /\ copyPending[f] = "none"
        BY <1>1, <1>3 DEF CopyEvents, CopySays, CopyInTurn
      <3> QED BY <3>1 DEF CopySays
    <2> QED BY <2>1, <2>3, <2>4
  <1>4. ASSUME Copy!Calm, CopyKnown PROVE CopyKnown'
    <2> SUFFICES ASSUME NEW f \in CopyFiles, Copy!Copied(f)', f \notin copyLate
                 PROVE  /\ \A k \in 1..(copyTurn + 1) : copyBegan'[k][f] = Copy!Before(k, f)'
                        /\ copyTree[f] = copyBegan'[copyTurn + 1][f]
      BY <1>1, <1>4 DEF CopyKnown
    <2>0. copyTurn \in Copy!Turns /\ copyTurn \in Nat /\ copyTurn > 0
          /\ copyTurn + 1 \in Copy!Turns /\ copyServing = copyTurn
      BY <1>1, <1>4, CopyTurnsAre
    <2>1. Copy!Copied(f)
      <3>1. 1 \in Copy!Turns /\ 1 # copyTurn + 1
        BY <2>0, CopyContentsAre
      <3> QED BY <1>0, <2>0, <3>1 DEF Copy!Copied
    <2>2. /\ \A k \in 1..copyTurn : copyBegan[k][f] = Copy!Before(k, f)
          /\ f \notin copyWorked[copyTurn] => copyTree[f] = copyBegan[copyTurn][f]
          /\ copySnaps[copyTurn][f] # Copy!None => copySnaps[copyTurn][f] = copyTree[f]
      BY <1>4, <2>0, <2>1 DEF CopyKnown
    <2>3. Copy!Before(copyTurn + 1, f) = copyTree[f]
      <3>1. f \in copyWorked[copyTurn] => copySnaps[copyTurn][f] # Copy!None
        <4>1. CopySays(f) /\ copyPending[f] = "none"
          BY <1>1, <1>4 DEF CopyEvents, CopySays, CopyInTurn
        <4>2. f \in copyWorked[copyTurn] => copyClaims[copyTurn][f] = "done"
          BY <2>0, <4>1 DEF CopySays
        <4> QED BY <1>1, <1>4, <4>2 DEF CopyCopies
      <3>2. copyBegan[copyTurn][f] = Copy!Before(copyTurn, f)
        BY <2>0, <2>2
      <3> QED BY <2>0, <2>2, <3>1, <3>2, CopyBeforeNext
    <2>4. \A k \in Copy!Turns : Copy!Before(k, f)' = Copy!Before(k, f)
      <3> SUFFICES ASSUME NEW k \in Copy!Turns PROVE Copy!Before(k, f)' = Copy!Before(k, f)
        OBVIOUS
      <3>1. \A j \in 1..(k - 1) : copySnaps'[j][f] = copySnaps[j][f]
        BY <1>2, <1>4, CopyTurnsAre
      <3> QED BY <3>1, CopyBeforeSame
    <2>5. \A k \in 1..(copyTurn + 1) : k \in Copy!Turns
          /\ ((k \in 1..copyTurn /\ k # copyTurn + 1) \/ k = copyTurn + 1)
      BY <2>0 DEF Copy!Turns, Copy!CheckpointsAssumption
    <2> QED BY <1>0, <2>0, <2>2, <2>3, <2>4, <2>5
  <1> QED BY <1>0, <1>3, <1>4 DEF CopyCInv, CopyCalmInv, CopyFirstInv, Copy!Calm

LEMMA CopyNextCInv == Copy!CheckpointsAssumption /\ CopyCInv /\ [Copy!Next]_copyVars => CopyCInv'
  <1> SUFFICES ASSUME Copy!CheckpointsAssumption, CopyCInv, [Copy!Next]_copyVars PROVE CopyCInv'
    OBVIOUS
  <1>1. CASE Copy!Next
    <2>1. CopyTInv
      BY DEF CopyCInv
    <2> QED
      BY <1>1, <2>1, CopySteps, CopyBeginCInv, CopyEditCInv, CopyToolCInv, CopyQuietSteps, CopyUncalmCInv,
         CopyFinishCInv, CopyResumeCInv
  <1>2. CASE UNCHANGED copyVars
    <2>1. CopyTInv'
      BY <1>2, CopyNextTInv DEF CopyCInv
    <2> QED BY <1>2, <2>1, CopyIdleCInv DEF copyVars, Copy!counts
  <1> QED BY <1>1, <1>2

\* What the step of the first rewind makes of a file.
CopyExact(n) ==
    \A f \in CopyFiles : Copy!Told(f) =>
        IF Copy!WorkedOn(n, f) THEN (copyEdits = 0 /\ Copy!Copied(f))
          => copyTree'[f] = copyBegan[n][f]
        ELSE ~Copy!Called(n, f) => copyTree'[f] = copyTree[f]

LEMMA CopyRewinds ==
  ASSUME Copy!CheckpointsAssumption, CopyCInv, NEW n \in Copy!Turns, Copy!RewindToTurn(n),
         Copy!Calm,
         copyRewinds = 0
  PROVE  CopyExact(n)
  <1> SUFFICES ASSUME NEW f \in CopyFiles, Copy!Told(f)
               PROVE  IF Copy!WorkedOn(n, f) THEN (copyEdits = 0 /\ Copy!Copied(f))
                        => copyTree'[f] = copyBegan[n][f]
                      ELSE ~Copy!Called(n, f) => copyTree'[f] = copyTree[f]
    BY DEF CopyExact
  <1>0. Copy!Restore(n, Copy!ChangedSince(n)) /\ CopyTInv
    BY DEF Copy!RewindToTurn, CopyCInv
  <1>1. copyTree'[f] = IF f \in Copy!ChangedSince(n) THEN Copy!Before(n, f) ELSE copyTree[f]
    BY <1>0, CopyRestoreTInv
  <1>2. /\ Copy!WorkedOn(n, f) => f \in Copy!ChangedSince(n)
        /\ f \in Copy!ChangedSince(n) => Copy!WorkedOn(n, f) \/ Copy!Called(n, f)
    <2>1. \A k \in n..CopyMaxTurns : k \in Copy!Turns
      BY CopyTurnsAre DEF Copy!Turns, Copy!CheckpointsAssumption
    <2>2. CopySays(f) /\ copyPending[f] = "none"
      BY DEF CopyCInv, CopyCalmInv, CopyEvents, Copy!Told
    <2>3. \A k \in Copy!Turns : f \in copyWorked[k] <=> copyClaims[k][f] = "done"
      BY <2>2 DEF CopySays
    <2>4. \A k \in Copy!Turns : copyClaims[k][f] \in {"none", "called", "done"}
      BY <1>0, CopyGroups DEF CopyTInv, CopyClaimsTyped, Copy!Sayings
    <2> QED BY <2>1, <2>3, <2>4 DEF Copy!WorkedOn, Copy!Called, Copy!ChangedSince, Copy!Changed
  <1>3. ASSUME copyEdits = 0, Copy!Copied(f) PROVE Copy!Before(n, f) = copyBegan[n][f]
    <2>1. n \in 1..copyTurn /\ copyTurn > 0
      <3>1. n <= copyTurn /\ copyTurn \in Nat
        BY <1>0, CopyGroups
           DEF Copy!Restore, CopyTInv, CopyWorkTyped, Copy!CheckpointsAssumption
      <3> QED BY <3>1, CopyTurnsAre
    <2> QED BY <1>3, <2>1 DEF CopyCInv, CopyFirstInv, CopyKnown, Copy!Told
  <1> QED BY <1>1, <1>2, <1>3

------------------------------------------------------------------------------
(* The tunnel. Processes are spawned in the order of their numbers, and what a *)
(* start holds, what is active and what the file names has been spawned.       *)

LinkHeld(c) ==
    /\ c.at \in {"spawn", "wait", "pid", "watch"} => c.token # 0
    /\ c.at \in {"wait", "pid", "watch"} => c.proc \in Link!Spawned
LinkInv ==
    /\ Link!TypeOK
    /\ \E n \in 0..LinkMaxProcs : Link!Spawned = 1..n
    /\ {linkCmd, linkPidFile} \subseteq {0} \cup Link!Spawned
    /\ \A s \in LinkStarters : LinkHeld(linkCall[s])

LinkProcs == {"none", "starting", "up", "dead"}
LinkCalls == [at : Link!Steps, saw : {0} \cup Link!ProcIds,
              token : {0} \cup Link!TokenIds, proc : {0} \cup Link!ProcIds]

LEMMA LinkCardinality ==
    ASSUME NEW n \in Nat
    PROVE  Link!Cardinality(1..n) = n
<1>1. Link!Cardinality(1..n) = Cardinality(1..n)
  BY DEF Link!Cardinality, Cardinality, Link!IsFiniteSet, IsFiniteSet
<1> QED  BY <1>1, FS_Interval

(* A step that changes where a start is goes on with what it holds.            *)
LEMMA LinkCallTyped ==
    ASSUME LinkInv, NEW s \in LinkStarters, NEW c \in LinkCalls,
           linkCall' = [linkCall EXCEPT ![s] = c],
           Link!Spawned \subseteq Link!Spawned',
           c.at \in {"spawn", "wait", "pid", "watch"} => c.token # 0,
           c.at \in {"wait", "pid", "watch"} => c.proc \in Link!Spawned'
    PROVE  /\ linkCall' \in [LinkStarters -> LinkCalls]
           /\ \A u \in LinkStarters : LinkHeld(linkCall[u])'
<1>1. linkCall \in [LinkStarters -> LinkCalls]
  BY DEF LinkInv, Link!TypeOK, LinkCalls
<1>2. /\ linkCall' \in [LinkStarters -> LinkCalls] /\ linkCall'[s] = c
      /\ \A u \in LinkStarters : u # s => linkCall'[u] = linkCall[u]
  BY <1>1
<1>3. ASSUME NEW u \in LinkStarters PROVE LinkHeld(linkCall[u])'
  <2>1. CASE u = s
    BY <2>1, <1>2 DEF LinkHeld
  <2>2. CASE u # s
    BY <2>2, <1>2 DEF LinkInv, LinkHeld
  <2> QED  BY <2>1, <2>2
<1> QED  BY <1>2, <1>3

LEMMA LinkGoes ==
    ASSUME LinkInv, NEW s \in LinkStarters, NEW at \in Link!Steps, Link!Goto(s, at),
           Link!Spawned \subseteq Link!Spawned',
           at \in {"spawn", "wait", "pid", "watch"} => linkCall[s].token # 0,
           at \in {"wait", "pid", "watch"} => linkCall[s].proc \in Link!Spawned
    PROVE  /\ linkCall' \in [LinkStarters -> LinkCalls]
           /\ \A u \in LinkStarters : LinkHeld(linkCall[u])'
<1> DEFINE c == [linkCall[s] EXCEPT !.at = at]
<1>1. linkCall \in [LinkStarters -> LinkCalls]
  BY DEF LinkInv, Link!TypeOK, LinkCalls
<1>2. c \in LinkCalls /\ c.at = at /\ c.token = linkCall[s].token /\ c.proc = linkCall[s].proc
  BY <1>1 DEF LinkCalls
<1>3. linkCall' = [linkCall EXCEPT ![s] = c]
  BY DEF Link!Goto
<1> HIDE DEF c
<1> QED  BY <1>2, <1>3, LinkCallTyped

LEMMA LinkGives ==
    ASSUME LinkInv, NEW s \in LinkStarters, Link!Give(s), Link!Spawned \subseteq Link!Spawned'
    PROVE  /\ linkCall' \in [LinkStarters -> LinkCalls]
           /\ \A u \in LinkStarters : LinkHeld(linkCall[u])'
<1>1. Link!NoCall \in LinkCalls /\ Link!NoCall.at = "idle"
  BY DEF Link!NoCall, LinkCalls, Link!Steps
<1>2. linkCall' = [linkCall EXCEPT ![s] = Link!NoCall]
  BY DEF Link!Give
<1> QED  BY <1>1, <1>2, LinkCallTyped

LEMMA LinkBegins ==
    ASSUME Link!TunnelAssumption, Link!Init
    PROVE  LinkInv
<1>1. Link!Spawned = {}
  BY DEF Link!Init, Link!Spawned
<1>2. Link!NoCall \in LinkCalls /\ Link!NoCall.at = "idle"
  BY DEF Link!NoCall, LinkCalls, Link!Steps
<1>3. linkCall \in [LinkStarters -> LinkCalls] /\ \A s \in LinkStarters : LinkHeld(linkCall[s])
  BY <1>2 DEF Link!Init, LinkHeld
<1>4. Link!TypeOK
  BY <1>1, <1>3 DEF Link!Init, Link!TypeOK, LinkCalls, Link!TunnelAssumption, Link!ProcIds,
     Link!TokenIds
<1>5. 0 \in 0..LinkMaxProcs /\ Link!Spawned = 1..0
  BY <1>1 DEF Link!TunnelAssumption
<1> QED  BY <1>1, <1>3, <1>4, <1>5 DEF LinkInv, Link!Init

(* What every step of the tunnel has to show.                                  *)
LEMMA LinkKept ==
    ASSUME Link!TunnelAssumption, LinkInv,
           UNCHANGED Link!config,
           linkProcs' \in [Link!ProcIds -> LinkProcs],
           \/ Link!Spawned' = Link!Spawned
           \/ \E n \in Nat : /\ n < LinkMaxProcs /\ Link!Spawned = 1..n
                             /\ Link!Spawned' = 1..(n + 1),
           linkLost' \subseteq Link!Spawned', linkWatched' \subseteq Link!Spawned',
           {linkCmd', linkPidFile'} \subseteq {0} \cup Link!Spawned',
           linkIssued' \in 0..LinkMaxTokens, linkTokens' \subseteq 1..linkIssued',
           linkToken' \in {0} \cup Link!TokenIds, linkCmd' = 0 <=> linkToken' = 0,
           linkCmd' # 0 => linkProcs'[linkCmd'] \in {"up", "dead"},
           linkStreak' \in 0..LinkFailures,
           linkCall' \in [LinkStarters -> LinkCalls],
           \A s \in LinkStarters : LinkHeld(linkCall[s])'
    PROVE  LinkInv'
<1>1. Link!Spawned' \subseteq Link!ProcIds
  BY DEF Link!Spawned
<1>2. \E n \in 0..LinkMaxProcs : Link!Spawned' = 1..n
  BY DEF LinkInv, Link!TunnelAssumption
<1>3. Link!TypeOK'
  BY <1>1 DEF LinkInv, Link!TypeOK, Link!config, LinkCalls, LinkProcs, Link!Spawned
<1> QED  BY <1>2, <1>3 DEF LinkInv, Link!Spawned

(* A process that ends has been spawned still, and an active one may be dead.  *)
LEMMA LinkKilled ==
    ASSUME LinkInv, NEW p \in {0} \cup Link!Spawned,
           linkProcs' = IF p = 0 THEN linkProcs ELSE Link!Kill(p)
    PROVE  /\ linkProcs' \in [Link!ProcIds -> LinkProcs]
           /\ Link!Spawned' = Link!Spawned
           /\ \A q \in Link!ProcIds : linkProcs[q] \in {"up", "dead"}
                => linkProcs'[q] \in {"up", "dead"}
BY DEF LinkInv, Link!TypeOK, Link!Kill, Link!Spawned, LinkProcs

LEMMA LinkStops ==
    ASSUME LinkInv, Link!StopLocked
    PROVE  /\ linkProcs' \in [Link!ProcIds -> LinkProcs] /\ Link!Spawned' = Link!Spawned
           /\ linkCmd' = 0 /\ linkToken' = 0 /\ linkPidFile' = 0 /\ linkTokens' = {}
<1>1. linkCmd \in {0} \cup Link!Spawned
  BY DEF LinkInv
<1> QED  BY <1>1, LinkKilled DEF Link!StopLocked

LEMMA LinkFacts ==
    ASSUME Link!TunnelAssumption, LinkInv
    PROVE  /\ linkProcs \in [Link!ProcIds -> LinkProcs]
           /\ linkLost \subseteq Link!Spawned /\ linkWatched \subseteq Link!Spawned
           /\ {linkCmd, linkPidFile} \subseteq {0} \cup Link!Spawned
           /\ linkIssued \in 0..LinkMaxTokens /\ linkTokens \subseteq 1..linkIssued
           /\ linkToken \in {0} \cup Link!TokenIds /\ (linkCmd = 0 <=> linkToken = 0)
           /\ linkCmd # 0 => linkProcs[linkCmd] \in {"up", "dead"}
           /\ linkStreak \in 0..LinkFailures
           /\ linkCall \in [LinkStarters -> LinkCalls]
           /\ \A s \in LinkStarters : LinkHeld(linkCall[s])
           /\ Link!Spawned \subseteq Link!ProcIds /\ 0 \notin Link!ProcIds
           /\ 0 \notin Link!TokenIds
           /\ LinkFailures \in Nat \ {0} /\ LinkMaxProcs \in Nat /\ LinkMaxTokens \in Nat
BY DEF LinkInv, Link!TypeOK, LinkCalls, LinkProcs, Link!Spawned, Link!TunnelAssumption,
   Link!ProcIds, Link!TokenIds

LEMMA LinkIssues ==
    ASSUME Link!TunnelAssumption, LinkInv, Link!IssueAlone
    PROVE  /\ linkIssued + 1 \in Link!TokenIds
           /\ linkIssued' \in 0..LinkMaxTokens /\ linkTokens' \subseteq 1..linkIssued'
BY LinkFacts DEF Link!IssueAlone, Link!TokenIds

(* The step of a start that spawns takes the next number.                      *)
LEMMA LinkSpawns ==
    ASSUME Link!TunnelAssumption, LinkInv, NEW s \in LinkStarters, Link!Spawn(s)
    PROVE  LinkInv'
<1> USE LinkFacts
<1>1. PICK n \in 0..LinkMaxProcs : Link!Spawned = 1..n
  BY DEF LinkInv
<1>2. Link!Cardinality(Link!Spawned) = n
  BY <1>1, LinkCardinality
<1>3. CASE Link!Give(s) /\ UNCHANGED linkProcs
  <2>1. Link!Spawned' = Link!Spawned
    BY <1>3 DEF Link!Spawned
  <2>2. /\ linkCall' \in [LinkStarters -> LinkCalls]
        /\ \A u \in LinkStarters : LinkHeld(linkCall[u])'
    BY <1>3, <2>1, LinkGives
  <2> QED
    BY <1>3, <2>1, <2>2, LinkKept DEF Link!Spawn, Link!active, Link!config
<1>4. CASE /\ n < LinkMaxProcs /\ linkProcs' = [linkProcs EXCEPT ![n + 1] = "starting"]
           /\ linkCall' = [linkCall EXCEPT ![s].at = "wait", ![s].proc = n + 1]
  <2>1. n + 1 \in Link!ProcIds /\ n \in Nat
    BY <1>4 DEF Link!ProcIds
  <2>2. linkProcs' \in [Link!ProcIds -> LinkProcs]
        /\ \A q \in Link!ProcIds : linkProcs'[q]
             = IF q = n + 1 THEN "starting" ELSE linkProcs[q]
    BY <1>4, <2>1 DEF LinkProcs
  <2>3. Link!Spawned' = Link!Spawned \cup {n + 1}
    BY <2>1, <2>2 DEF Link!Spawned
  <2>4. Link!Spawned' = 1..(n + 1)
    BY <1>1, <2>1, <2>3
  <2> DEFINE c == [linkCall[s] EXCEPT !.at = "wait", !.proc = n + 1]
  <2>5. linkCall[s].token # 0
    BY DEF Link!Spawn, Link!At, LinkHeld
  <2>6. c \in LinkCalls /\ c.at = "wait" /\ c.proc = n + 1 /\ c.token = linkCall[s].token
    BY <2>1 DEF LinkCalls, Link!Steps
  <2>7. linkCall' = [linkCall EXCEPT ![s] = c]
    BY <1>4
  <2>8. /\ linkCall' \in [LinkStarters -> LinkCalls]
        /\ \A u \in LinkStarters : LinkHeld(linkCall[u])'
    <3> HIDE DEF c
    <3> QED  BY <2>3, <2>5, <2>6, <2>7, LinkCallTyped
  <2>9. linkCmd # 0 => linkCmd # n + 1
    BY <1>1
  <2>10. linkCmd # 0 => linkProcs'[linkCmd] \in {"up", "dead"}
    BY <2>2, <2>9
  <2>11. /\ UNCHANGED <<Link!config, linkCmd, linkToken, linkLost, linkPidFile, linkWatched>>
         /\ UNCHANGED <<linkIssued, linkTokens, linkStreak>>
    BY DEF Link!Spawn, Link!active
  <2>12. linkLost' \subseteq Link!Spawned' /\ linkWatched' \subseteq Link!Spawned'
         /\ {linkCmd', linkPidFile'} \subseteq {0} \cup Link!Spawned'
    BY <2>3, <2>11
  <2> QED  BY <1>1, <1>4, <2>1, <2>2, <2>4, <2>8, <2>10, <2>11, <2>12, LinkKept
<1> QED  BY <1>2, <1>3, <1>4 DEF Link!Spawn

LEMMA LinkStarts ==
    ASSUME Link!TunnelAssumption, LinkInv, NEW s \in LinkStarters, Link!StartStep(s)
    PROVE  LinkInv'
<1> USE LinkFacts
<1> DEFINE Typed == /\ linkCall' \in [LinkStarters -> LinkCalls]
                    /\ \A u \in LinkStarters : LinkHeld(linkCall[u])'
<1>1. ASSUME Link!CleanLook(s) PROVE LinkInv'
  <2>1. Link!Spawned' = Link!Spawned
    BY <1>1 DEF Link!CleanLook, Link!Spawned
  <2> DEFINE c == [linkCall[s] EXCEPT !.at = "kill", !.saw = linkCmd]
  <2>2. c \in LinkCalls /\ c.at = "kill"
    BY DEF LinkCalls, Link!Steps
  <2>3. linkCall' = [linkCall EXCEPT ![s] = c]
    BY <1>1 DEF Link!CleanLook
  <2>4. Typed
    <3> HIDE DEF c
    <3> QED  BY <2>1, <2>2, <2>3, LinkCallTyped
  <2> QED  BY <1>1, <2>1, <2>4, LinkKept DEF Link!CleanLook, Link!active, Link!config
<1>2. ASSUME Link!CleanKill(s) PROVE LinkInv'
  <2>1. PICK p \in {0} \cup Link!Spawned :
           linkProcs' = IF p = 0 THEN linkProcs ELSE Link!Kill(p)
    BY <1>2 DEF Link!CleanKill
  <2>2. /\ linkProcs' \in [Link!ProcIds -> LinkProcs]
        /\ Link!Spawned' = Link!Spawned
        /\ \A q \in Link!ProcIds : linkProcs[q] \in {"up", "dead"}
             => linkProcs'[q] \in {"up", "dead"}
    BY <2>1, LinkKilled
  <2>3. "stop" \in Link!Steps /\ Link!Goto(s, "stop")
    BY <1>2 DEF Link!CleanKill, Link!Steps
  <2>4. Typed
    BY <2>2, <2>3, LinkGoes
  <2>5. linkPidFile' \in {0, linkPidFile}
    BY <1>2 DEF Link!CleanKill
  <2> QED  BY <1>2, <2>2, <2>4, <2>5, LinkKept DEF Link!CleanKill, Link!active, Link!config
<1>3. ASSUME Link!StopOld(s) PROVE LinkInv'
  <2>1. /\ linkProcs' \in [Link!ProcIds -> LinkProcs] /\ Link!Spawned' = Link!Spawned
        /\ linkCmd' = 0 /\ linkToken' = 0 /\ linkPidFile' = 0 /\ linkTokens' = {}
    BY <1>3, LinkStops DEF Link!StopOld
  <2>2. "issue" \in Link!Steps /\ Link!Goto(s, "issue")
    BY <1>3 DEF Link!StopOld, Link!Steps
  <2>3. Typed
    BY <2>1, <2>2, LinkGoes
  <2> QED  BY <1>3, <2>1, <2>3, LinkKept DEF Link!StopOld, Link!config
<1>4. ASSUME Link!IssueToken(s) PROVE LinkInv'
  <2>1. Link!Spawned' = Link!Spawned
    BY <1>4 DEF Link!IssueToken, Link!Spawned
  <2>2. CASE Link!IssueAlone
             /\ linkCall' = [linkCall EXCEPT ![s].at = "spawn", ![s].token = linkIssued + 1]
    <3>1. /\ linkIssued + 1 \in Link!TokenIds
          /\ linkIssued' \in 0..LinkMaxTokens /\ linkTokens' \subseteq 1..linkIssued'
      BY <2>2, LinkIssues
    <3> DEFINE c == [linkCall[s] EXCEPT !.at = "spawn", !.token = linkIssued + 1]
    <3>2. c \in LinkCalls /\ c.at = "spawn" /\ c.token # 0
      BY <3>1 DEF LinkCalls, Link!Steps
    <3>3. linkCall' = [linkCall EXCEPT ![s] = c]
      BY <2>2
    <3>4. Typed
      <4> HIDE DEF c
      <4> QED  BY <2>1, <3>2, <3>3, LinkCallTyped
    <3> QED
      BY <1>4, <2>1, <3>1, <3>4, LinkKept DEF Link!IssueToken, Link!active, Link!config
  <2>3. CASE Link!Give(s) /\ UNCHANGED <<linkIssued, linkTokens>>
    <3>1. Typed
      BY <2>1, <2>3, LinkGives
    <3> QED
      BY <1>4, <2>1, <2>3, <3>1, LinkKept DEF Link!IssueToken, Link!active, Link!config
  <2> QED  BY <1>4, <2>2, <2>3 DEF Link!IssueToken
<1>5. ASSUME Link!Finalize(s) PROVE LinkInv'
  <2>1. linkCall[s].proc \in Link!Spawned /\ linkCall[s].token \in Link!TokenIds
    BY <1>5 DEF Link!Finalize, Link!At, LinkHeld, LinkCalls
  <2>2. /\ linkProcs' \in [Link!ProcIds -> LinkProcs] /\ Link!Spawned' = Link!Spawned
        /\ linkProcs'[linkCall[s].proc] = "up"
    BY <1>5, <2>1 DEF Link!Finalize, Link!Spawned, LinkProcs
  <2>3. "pid" \in Link!Steps /\ Link!Goto(s, "pid") /\ linkCall[s].token # 0
    BY <1>5, <2>1 DEF Link!Finalize, Link!Steps
  <2>4. Typed
    BY <2>1, <2>2, <2>3, LinkGoes
  <2>5. linkCmd' \in Link!Spawned /\ linkToken' \in Link!TokenIds /\ linkProcs'[linkCmd'] = "up"
    BY <1>5, <2>1, <2>2 DEF Link!Finalize
  <2>6. UNCHANGED <<Link!config, linkLost, linkPidFile, linkWatched, linkIssued, linkTokens,
        linkStreak>>
    BY <1>5 DEF Link!Finalize
  <2> QED  BY <2>2, <2>4, <2>5, <2>6, LinkKept
<1>6. ASSUME Link!SpawnFails(s), linkTokens' \in {linkTokens, {}} PROVE LinkInv'
  <2>1. linkCall[s].proc \in Link!Spawned /\ linkCall[s].proc # 0
    BY <1>6 DEF Link!SpawnFails, Link!At, LinkHeld
  <2>2. /\ linkProcs' \in [Link!ProcIds -> LinkProcs]
        /\ Link!Spawned' = Link!Spawned
        /\ \A q \in Link!ProcIds : linkProcs[q] \in {"up", "dead"}
             => linkProcs'[q] \in {"up", "dead"}
    BY <1>6, <2>1, LinkKilled DEF Link!SpawnFails
  <2>3. Typed
    BY <1>6, <2>2, LinkGives DEF Link!SpawnFails
  <2> QED  BY <1>6, <2>2, <2>3, LinkKept DEF Link!SpawnFails, Link!active, Link!config
<1>7. ASSUME Link!WritePid(s) PROVE LinkInv'
  <2>1. Link!Spawned' = Link!Spawned
    BY <1>7 DEF Link!WritePid, Link!Spawned
  <2>2. linkCall[s].proc \in Link!Spawned /\ linkCall[s].token # 0
    BY <1>7 DEF Link!WritePid, Link!At, LinkHeld
  <2>3. "watch" \in Link!Steps /\ Link!Goto(s, "watch")
    BY <1>7 DEF Link!WritePid, Link!Steps
  <2>4. Typed
    BY <2>1, <2>2, <2>3, LinkGoes
  <2> QED
    BY <1>7, <2>1, <2>2, <2>4, LinkKept DEF Link!WritePid, Link!active, Link!config
<1>8. ASSUME Link!StartWatch(s) PROVE LinkInv'
  <2>1. Link!Spawned' = Link!Spawned
    BY <1>8 DEF Link!StartWatch, Link!Spawned
  <2>2. linkCall[s].proc \in Link!Spawned
    BY <1>8 DEF Link!StartWatch, Link!At, LinkHeld
  <2>3. Typed
    BY <1>8, <2>1, LinkGives DEF Link!StartWatch
  <2> QED
    BY <1>8, <2>1, <2>2, <2>3, LinkKept DEF Link!StartWatch, Link!active, Link!config
<1>9. ASSUME Link!QuickStart(s) \/ Link!NamedStart(s) PROVE LinkInv'
  BY <1>5, <1>6, <1>9, LinkSpawns DEF Link!QuickStart, Link!NamedStart
<1> QED
  BY <1>1, <1>2, <1>3, <1>4, <1>7, <1>8, <1>9 DEF Link!StartStep

(* One step of the tunnel keeps its invariant.                                 *)
LEMMA LinkStep ==
    ASSUME Link!TunnelAssumption, LinkInv, Link!Next
    PROVE  LinkInv'
<1> USE LinkFacts
<1>1. ASSUME NEW p \in Link!ProcIds, Link!WatchExit(p) PROVE LinkInv'
  <2>1. Link!Spawned' = Link!Spawned
    BY <1>1 DEF Link!WatchExit, Link!Spawned
  <2>2. /\ linkTokens' \in {linkTokens, {}} /\ linkPidFile' \in {linkPidFile, 0}
        /\ \/ linkCmd' = linkCmd /\ linkToken' = linkToken
           \/ linkCmd' = 0 /\ linkToken' = 0
    BY <1>1 DEF Link!WatchExit, Link!active
  <2>3. \A u \in LinkStarters : LinkHeld(linkCall[u])'
    BY <1>1, <2>1 DEF Link!WatchExit, LinkHeld
  <2> QED  BY <1>1, <2>1, <2>2, <2>3, LinkKept DEF Link!WatchExit, Link!config
<1>2. ASSUME NEW p \in Link!ProcIds, Link!Dies(p) PROVE LinkInv'
  <2>1. p \in Link!Spawned /\ p # 0
    BY <1>2 DEF Link!Dies, Link!Spawned
  <2>2. /\ linkProcs' \in [Link!ProcIds -> LinkProcs]
        /\ Link!Spawned' = Link!Spawned
        /\ \A q \in Link!ProcIds : linkProcs[q] \in {"up", "dead"}
             => linkProcs'[q] \in {"up", "dead"}
    BY <1>2, <2>1, LinkKilled DEF Link!Dies
  <2>3. \A u \in LinkStarters : LinkHeld(linkCall[u])'
    BY <1>2, <2>2 DEF Link!Dies, LinkHeld
  <2> QED  BY <1>2, <2>2, <2>3, LinkKept DEF Link!Dies, Link!active, Link!config
<1>3. ASSUME NEW p \in Link!ProcIds, Link!LosesHost(p) PROVE LinkInv'
  <2>1. Link!Spawned' = Link!Spawned /\ p \in Link!Spawned
    BY <1>3 DEF Link!LosesHost, Link!Spawned
  <2>2. \A u \in LinkStarters : LinkHeld(linkCall[u])'
    BY <1>3, <2>1 DEF Link!LosesHost, LinkHeld
  <2> QED  BY <1>3, <2>1, <2>2, LinkKept DEF Link!LosesHost, Link!active, Link!config
<1>4. ASSUME NEW t \in Link!TokenIds, Link!Expire(t) PROVE LinkInv'
  <2>1. Link!Spawned' = Link!Spawned
    BY <1>4 DEF Link!Expire, Link!Spawned
  <2>2. \A u \in LinkStarters : LinkHeld(linkCall[u])'
    BY <1>4, <2>1 DEF Link!Expire, LinkHeld
  <2> QED  BY <1>4, <2>1, <2>2, LinkKept DEF Link!Expire, Link!active, Link!config
<1>5. ASSUME Link!HealTick PROVE LinkInv'
  <2>1. Link!Spawned' = Link!Spawned /\ LinkHealer \in LinkStarters
    BY <1>5 DEF Link!HealTick, Link!Spawned, Link!TunnelAssumption
  <2>2. linkStreak' \in 0..LinkFailures
    BY <1>5 DEF Link!HealTick
  <2>3. UNCHANGED linkCall \/ Link!Goto(LinkHealer, "look")
    BY <1>5 DEF Link!HealTick
  <2>4. "look" \in Link!Steps
    BY DEF Link!Steps
  <2>5. /\ linkCall' \in [LinkStarters -> LinkCalls]
        /\ \A u \in LinkStarters : LinkHeld(linkCall[u])'
    <3>1. CASE UNCHANGED linkCall
      BY <2>1, <3>1 DEF LinkHeld
    <3>2. CASE Link!Goto(LinkHealer, "look")
      BY <2>1, <2>4, <3>2, LinkGoes
    <3> QED  BY <2>3, <3>1, <3>2
  <2> QED  BY <1>5, <2>1, <2>2, <2>5, LinkKept DEF Link!HealTick, Link!active, Link!config
<1>6. ASSUME NEW s \in LinkStarters, Link!Begin(s) PROVE LinkInv'
  <2>1. Link!Spawned' = Link!Spawned
    BY <1>6 DEF Link!Begin, Link!Spawned
  <2>2. "look" \in Link!Steps /\ Link!Goto(s, "look")
    BY <1>6 DEF Link!Begin, Link!Steps
  <2>3. /\ linkCall' \in [LinkStarters -> LinkCalls]
        /\ \A u \in LinkStarters : LinkHeld(linkCall[u])'
    BY <2>1, <2>2, LinkGoes
  <2> QED  BY <1>6, <2>1, <2>3, LinkKept DEF Link!Begin, Link!active, Link!config
<1>7. ASSUME Link!Stop PROVE LinkInv'
  <2>1. /\ linkProcs' \in [Link!ProcIds -> LinkProcs] /\ Link!Spawned' = Link!Spawned
        /\ linkCmd' = 0 /\ linkToken' = 0 /\ linkPidFile' = 0 /\ linkTokens' = {}
    BY <1>7, LinkStops DEF Link!Stop
  <2>2. \A u \in LinkStarters : LinkHeld(linkCall[u])'
    BY <1>7, <2>1 DEF Link!Stop, LinkHeld
  <2> QED  BY <1>7, <2>1, <2>2, LinkKept DEF Link!Stop, Link!config
<1>8. ASSUME Link!ResetToken \/ Link!RenewToken PROVE LinkInv'
  <2>1. Link!IssueAlone /\ linkToken' = linkIssued + 1 /\ linkCmd' = linkCmd /\ linkCmd # 0
    BY <1>8 DEF Link!ResetToken, Link!RenewToken
  <2>2. /\ linkIssued + 1 \in Link!TokenIds
        /\ linkIssued' \in 0..LinkMaxTokens /\ linkTokens' \subseteq 1..linkIssued'
    BY <2>1, LinkIssues
  <2>3. UNCHANGED <<Link!config, linkProcs, linkLost, linkPidFile, linkWatched, linkCall,
        linkStreak>>
    BY <1>8 DEF Link!ResetToken, Link!RenewToken
  <2>4. Link!Spawned' = Link!Spawned
    BY <2>3 DEF Link!Spawned
  <2>5. \A u \in LinkStarters : LinkHeld(linkCall[u])'
    BY <2>3, <2>4 DEF LinkHeld
  <2> QED  BY <2>1, <2>2, <2>3, <2>4, <2>5, LinkKept
<1>9. ASSUME Link!ServiceKilled PROVE LinkInv'
  <2>1. Link!Spawned' = Link!Spawned
    BY <1>9 DEF Link!ServiceKilled, Link!Spawned
  <2>2. Link!NoCall \in LinkCalls /\ Link!NoCall.at = "idle"
    BY DEF Link!NoCall, LinkCalls, Link!Steps
  <2>3. /\ linkCall' \in [LinkStarters -> LinkCalls]
        /\ \A u \in LinkStarters : LinkHeld(linkCall[u])'
    BY <1>9, <2>2 DEF Link!ServiceKilled, LinkHeld
  <2> QED  BY <1>9, <2>1, <2>3, LinkKept DEF Link!ServiceKilled, Link!config
<1> QED
  BY <1>1, <1>2, <1>3, <1>4, <1>5, <1>6, <1>7, <1>8, <1>9, LinkStarts
     DEF Link!Next, Link!Command

------------------------------------------------------------------------------
(* Who waits for the process that is shown.                                    *)

LEMMA WatchBegins == ASSUME Link!Init PROVE Link!ShownIsWatched
BY DEF Link!Init, Link!ShownIsWatched

LEMMA WatchRests ==
    ASSUME Link!ShownIsWatched, UNCHANGED linkVars PROVE Link!ShownIsWatched'
BY DEF linkVars, Link!ShownIsWatched

LEMMA WatchStarts ==
    ASSUME Link!TunnelAssumption, LinkInv, Link!ShownIsWatched, NEW s \in LinkStarters,
           Link!StartStep(s)
    PROVE  Link!ShownIsWatched'
<1>0. linkCall \in [LinkStarters -> LinkCalls]
  BY LinkFacts
<1> USE DEF Link!At, Link!active, Link!config
<1>1. ASSUME linkCall[s].at \notin {"pid", "watch"}, UNCHANGED <<linkCmd, linkWatched>>,
             NEW c, linkCall' = [linkCall EXCEPT ![s] = c]
      PROVE  Link!ShownIsWatched'
  <2>1. \A u \in LinkStarters : u # s => linkCall'[u] = linkCall[u]
    BY <1>0, <1>1
  <2> QED  BY <1>1, <2>1 DEF Link!ShownIsWatched
<1>2. CASE Link!CleanLook(s) \/ Link!CleanKill(s) \/ Link!IssueToken(s) \/ Link!Spawn(s)
           \/ Link!SpawnFails(s)
  <2>1. linkCall[s].at \notin {"pid", "watch"} /\ UNCHANGED <<linkCmd, linkWatched>>
    BY <1>2 DEF Link!CleanLook, Link!CleanKill, Link!IssueToken, Link!Spawn, Link!SpawnFails
  <2>2. \E c : linkCall' = [linkCall EXCEPT ![s] = c]
    BY <1>2 DEF Link!CleanLook, Link!CleanKill, Link!IssueToken, Link!Spawn, Link!SpawnFails,
                Link!Goto, Link!Give
  <2> QED  BY <1>1, <2>1, <2>2
<1>3. CASE Link!StopOld(s)
  BY <1>3 DEF Link!StopOld, Link!StopLocked, Link!ShownIsWatched
<1>4. CASE Link!Finalize(s)
  <2>1. linkCall'[s].at = "pid" /\ linkCall'[s].proc = linkCmd'
    BY <1>0, <1>4 DEF Link!Finalize, Link!Goto, LinkCalls
  <2> QED  BY <2>1 DEF Link!ShownIsWatched
<1>5. CASE Link!WritePid(s)
  <2>1. /\ linkCall'[s].at = "watch" /\ linkCall'[s].proc = linkCall[s].proc
        /\ \A u \in LinkStarters : u # s => linkCall'[u] = linkCall[u]
        /\ UNCHANGED <<linkCmd, linkWatched>>
    BY <1>0, <1>5 DEF Link!WritePid, Link!Goto, LinkCalls
  <2> QED  BY <2>1 DEF Link!ShownIsWatched
<1>6. CASE Link!StartWatch(s)
  <2>1. /\ linkWatched' = linkWatched \cup {linkCall[s].proc} /\ linkCmd' = linkCmd
        /\ \A u \in LinkStarters : u # s => linkCall'[u] = linkCall[u]
    BY <1>0, <1>6 DEF Link!StartWatch, Link!Give
  <2> QED  BY <2>1 DEF Link!ShownIsWatched
<1> QED  BY <1>2, <1>3, <1>4, <1>5, <1>6 DEF Link!StartStep, Link!QuickStart, Link!NamedStart

LEMMA WatchStep ==
    ASSUME Link!TunnelAssumption, LinkInv, Link!ShownIsWatched, Link!Next
    PROVE  Link!ShownIsWatched'
<1>0. linkCall \in [LinkStarters -> LinkCalls] /\ LinkHealer \in LinkStarters
  BY LinkFacts DEF Link!TunnelAssumption
<1> USE DEF Link!At, Link!active, Link!config
<1>1. ASSUME NEW p \in Link!ProcIds, Link!WatchExit(p) PROVE Link!ShownIsWatched'
  BY <1>1 DEF Link!WatchExit, Link!ShownIsWatched
<1>2. ASSUME UNCHANGED <<linkCmd, linkWatched, linkCall>> PROVE Link!ShownIsWatched'
  BY <1>2 DEF Link!ShownIsWatched
<1>3. ASSUME NEW p \in Link!ProcIds, Link!Dies(p) \/ Link!LosesHost(p)
      PROVE  Link!ShownIsWatched'
  BY <1>2, <1>3 DEF Link!Dies, Link!LosesHost
<1>4. ASSUME NEW t \in Link!TokenIds, Link!Expire(t) PROVE Link!ShownIsWatched'
  BY <1>2, <1>4 DEF Link!Expire
<1>5. ASSUME NEW s \in LinkStarters, linkCall[s].at = "idle", Link!Goto(s, "look"),
             UNCHANGED <<linkCmd, linkWatched>>
      PROVE  Link!ShownIsWatched'
  <2>1. \A u \in LinkStarters : u # s => linkCall'[u] = linkCall[u]
    BY <1>0, <1>5 DEF Link!Goto
  <2> QED  BY <1>5, <2>1 DEF Link!ShownIsWatched
<1>6. CASE Link!HealTick
  BY <1>0, <1>2, <1>5, <1>6 DEF Link!HealTick
<1>7. ASSUME NEW s \in LinkStarters, Link!Begin(s) PROVE Link!ShownIsWatched'
  BY <1>5, <1>7 DEF Link!Begin
<1>8. CASE Link!Stop \/ Link!ServiceKilled
  BY <1>8 DEF Link!Stop, Link!StopLocked, Link!ServiceKilled, Link!ShownIsWatched
<1>9. CASE Link!ResetToken \/ Link!RenewToken
  BY <1>2, <1>9 DEF Link!ResetToken, Link!RenewToken
<1> QED  BY <1>1, <1>3, <1>4, <1>6, <1>7, <1>8, <1>9, WatchStarts DEF Link!Next, Link!Command

------------------------------------------------------------------------------
(* The door. Only a guess is counted, so whoever has a count or a place on the *)
(* black list has guessed; and a request is let in only below the bound, which *)
(* its own guess then may reach but not pass.                                  *)

DoorInv ==
    /\ Door!TypeOK
    /\ doorBlocked \subseteq DoorGuessers
    /\ \A v \in DoorVisitors :
          /\ doorRequest[v].at # "none" => doorFailures[v] < DoorMaxFailures
          /\ doorRequest[v].token = Door!Guess => v \in DoorGuessers
          /\ doorFailures[v] > 0 => v \in DoorGuessers

(* Of the origins of a request, the tunnel alone is outside (auth.go ClientIP). *)
LEMMA DoorOrigins ==
    \A o \in Door!Origins : Door!IsInternalRequest(o) <=> o.origin # "tunnel"
<1> DEFINE both == Append(Door!Sent, "external")
<1>1. Door!Sent \in Seq({"internal", "external"}) /\ Len(Door!Sent) = 1
  BY DEF Door!Sent
<1>2. both # <<>> /\ both[Len(both)] = "external"
  BY <1>1
<1>3. SUFFICES ASSUME NEW o \in Door!Origins
               PROVE  Door!IsInternalRequest(o) <=> o.origin # "tunnel"
  OBVIOUS
<1>4. CASE o.peer # "loopback"
  BY <1>4, <1>3 DEF Door!Origins, Door!Sent, Door!IsInternalRequest, Door!ClientIP
<1>5. CASE o.cf # "none"
  BY <1>5, <1>3 DEF Door!Origins, Door!Sent, Door!IsInternalRequest, Door!ClientIP
<1>6. CASE o.peer = "loopback" /\ o.cf = "none"
  <2>1. \/ o.origin = "process" /\ o.xff = <<>>
        \/ o.origin = "tunnel" /\ o.xff = both
    BY <1>6, <1>3 DEF Door!Origins
  <2>2. Door!Hop(<<>>) = "none" /\ Door!Hop(both) = "external"
    BY <1>2 DEF Door!Hop, Door!LastHop
  <2> QED  BY <2>1, <2>2, <1>6 DEF Door!IsInternalRequest, Door!ClientIP
<1> QED  BY <1>4, <1>5, <1>6

(* Nobody has asked yet, and nobody has a count.                               *)
LEMMA DoorBegins ==
    ASSUME Door!AccessAssumption, Door!Init
    PROVE  DoorInv
<1>1. Door!NoRequest \in [at : Door!Stages, kid : Door!Assertions, token : 0..Door!Guess]
      /\ Door!NoRequest.token # Door!Guess
  BY DEF Door!AccessAssumption, Door!NoRequest, Door!Stages, Door!Assertions, Door!Guess
<1>2. Door!TypeOK
  BY <1>1 DEF Door!Init, Door!TypeOK, Door!AccessAssumption, Door!KeyIds
<1>3. \A v \in DoorVisitors : doorRequest[v] = Door!NoRequest /\ doorFailures[v] = 0
  BY DEF Door!Init
<1>4. Door!NoRequest.at = "none"
  BY DEF Door!NoRequest
<1> QED  BY <1>1, <1>2, <1>3, <1>4 DEF DoorInv, Door!Init

(* The limiter looks at one count, which goes to the black list when it is full. *)
LEMMA DoorBlock ==
    ASSUME Door!AccessAssumption, DoorInv, NEW v \in DoorVisitors, Door!Block(v)
    PROVE  /\ doorFailures' \in [DoorVisitors -> 0..DoorMaxFailures]
           /\ doorBlocked' \subseteq DoorGuessers
           /\ \A u \in DoorVisitors : doorFailures'[u] = doorFailures[u]
              \/ (u = v /\ doorFailures'[u] = 0)
<1>1. CASE v \notin doorBlocked /\ doorFailures[v] >= DoorMaxFailures
  <2>1. doorBlocked' = doorBlocked \cup {v} /\ doorFailures' = [doorFailures EXCEPT ![v] = 0]
    BY <1>1 DEF Door!Block
  <2>2. v \in DoorGuessers
    BY <1>1 DEF DoorInv, Door!TypeOK, Door!AccessAssumption
  <2> QED  BY <2>1, <2>2 DEF DoorInv, Door!TypeOK, Door!AccessAssumption
<1>2. CASE ~(v \notin doorBlocked /\ doorFailures[v] >= DoorMaxFailures)
  BY <1>2 DEF Door!Block, Door!limiter, DoorInv, Door!TypeOK
<1> QED  BY <1>1, <1>2

(* One step of the door keeps its invariant.                                   *)
LEMMA DoorStep ==
    ASSUME Door!AccessAssumption, DoorInv, Door!Next
    PROVE  DoorInv'
<1> DEFINE R == [at : Door!Stages, kid : Door!Assertions, token : 0..Door!Guess]
<1>1. /\ doorFailures \in [DoorVisitors -> 0..DoorMaxFailures]
         /\ doorRequest \in [DoorVisitors -> R]
      /\ DoorMaxFailures \in Nat \ {0} /\ DoorMaxLinks \in Nat /\ DoorMaxKeys \in Nat \ {0}
      /\ DoorGuessers \subseteq DoorVisitors /\ doorBlocked \subseteq DoorGuessers
  BY DEF DoorInv, Door!TypeOK, Door!AccessAssumption
<1>2. Door!NoRequest \in R /\ Door!NoRequest.at = "none" /\ Door!NoRequest.token # Door!Guess
  BY <1>1 DEF Door!NoRequest, Door!Stages, Door!Assertions, Door!Guess
<1>3. \A r \in R : r.at \in Door!Stages /\ r.kid \in Door!Assertions
      /\ r.token \in 0..Door!Guess
  OBVIOUS
<1>4. Door!Guess = DoorMaxLinks + 1
  BY DEF Door!Guess
<1>5. ASSUME NEW v \in DoorVisitors, NEW o \in Door!Origins, NEW kid \in Door!Assertions,
             NEW token \in 0..Door!Guess, Door!Ask(v, o, kid, token)
      PROVE  DoorInv'
  <2>1. /\ doorFailures' \in [DoorVisitors -> 0..DoorMaxFailures]
        /\ doorBlocked' \subseteq DoorGuessers
        /\ \A u \in DoorVisitors : doorFailures'[u] = doorFailures[u]
           \/ (u = v /\ doorFailures'[u] = 0)
    BY <1>5, DoorBlock DEF Door!Ask
  <2> DEFINE q == [at |-> IF doorAccessOn THEN "access" ELSE "token", kid |-> kid,
             token |-> token]
  <2>2. q \in R /\ q.token = token
    BY <1>5 DEF Door!Stages
  <2>3. token = Door!Guess => v \in DoorGuessers
    BY <1>5, <1>1, <1>4 DEF Door!Ask, DoorInv, Door!TypeOK
  <2>4. doorRequest' = IF Door!Allow(v) THEN [doorRequest EXCEPT ![v] = q] ELSE doorRequest
    BY <1>5 DEF Door!Ask
  <2>5. Door!Allow(v) => doorFailures[v] < DoorMaxFailures /\ doorFailures' = doorFailures
    BY <1>5, <1>1 DEF Door!Ask, Door!Allow, Door!Block, Door!limiter
  <2>6. /\ doorRequest' \in [DoorVisitors -> R]
        /\ \A u \in DoorVisitors : doorRequest'[u] = doorRequest[u]
                                   \/ (u = v /\ doorRequest'[u] = q /\ Door!Allow(v))
    <3> HIDE DEF q, R
    <3> QED  BY <2>2, <2>4, <1>1
  <2>7. /\ doorAccessOn' = doorAccessOn /\ doorKeys' = doorKeys /\ doorFetched' = doorFetched
        /\ doorAttempted' = doorAttempted /\ doorPublished' = doorPublished
        /\ doorGiven' = doorGiven /\ doorLive' = doorLive
    BY <1>5 DEF Door!Ask, Door!cache, Door!links
  <2>8. Door!TypeOK'
    BY <2>1, <2>6, <2>7, <1>1
       DEF DoorInv, Door!TypeOK, Door!KeyIds, Door!Stages, Door!Assertions,
       Door!Guess
  <2>9. ASSUME NEW u \in DoorVisitors
        PROVE  /\ doorRequest'[u].at # "none" => doorFailures'[u] < DoorMaxFailures
               /\ doorRequest'[u].token = Door!Guess => u \in DoorGuessers
               /\ doorFailures'[u] > 0 => u \in DoorGuessers
    <3> HIDE DEF q, R
    <3>1. CASE doorRequest'[u] = doorRequest[u]
      BY <3>1, <2>1, <1>1 DEF DoorInv
    <3>2. CASE u = v /\ doorRequest'[u] = q /\ Door!Allow(v)
      BY <3>2, <2>2, <2>3, <2>5, <1>1 DEF DoorInv
    <3> QED  BY <3>1, <3>2, <2>6
  <2> QED  BY <2>1, <2>8, <2>9 DEF DoorInv, Door!Guess
<1>6. ASSUME NEW v \in DoorVisitors,
             doorRequest' \in [DoorVisitors -> R],
             \A u \in DoorVisitors : \/ doorRequest'[u] = doorRequest[u]
                                     \/ doorRequest'[u] = Door!NoRequest
                                     \/ /\ doorRequest'[u].token = doorRequest[u].token
                                        /\ doorRequest[u].at # "none",
             UNCHANGED Door!limiter,
             UNCHANGED <<doorAccessOn, Door!links>>,
             doorKeys' \subseteq Door!KeyIds, doorFetched' \in {"never", "fresh", "stale"},
             doorAttempted' \in {"near", "far"}, doorFetched' = "never" <=> doorKeys' = {}
      PROVE  DoorInv'
  <2>1. doorFailures' = doorFailures /\ doorBlocked' = doorBlocked
    BY <1>6 DEF Door!limiter
  <2>2. Door!TypeOK'
    BY <2>1, <1>6, <1>1 DEF DoorInv, Door!TypeOK, Door!links, Door!KeyIds, Door!Stages,
       Door!Assertions, Door!Guess
  <2>3. ASSUME NEW u \in DoorVisitors
        PROVE  /\ doorRequest'[u].at # "none" => doorFailures'[u] < DoorMaxFailures
               /\ doorRequest'[u].token = Door!Guess => u \in DoorGuessers
               /\ doorFailures'[u] > 0 => u \in DoorGuessers
    BY <2>1, <1>6, <1>2 DEF DoorInv
  <2> QED  BY <2>1, <2>2, <2>3 DEF DoorInv, Door!Guess
<1>7. ASSUME NEW v \in DoorVisitors, Door!Goto(v, "token") \/ Door!Goto(v, "fetch")
             \/ Door!Done(v),
             doorRequest[v].at # "none"
      PROVE  /\ doorRequest' \in [DoorVisitors -> R]
             /\ \A u \in DoorVisitors : \/ doorRequest'[u] = doorRequest[u]
                                        \/ doorRequest'[u] = Door!NoRequest
                                        \/ /\ doorRequest'[u].token = doorRequest[u].token
                                           /\ doorRequest[u].at # "none"
  <2>1. CASE Door!Done(v)
    BY <2>1, <1>1, <1>2 DEF Door!Done
  <2>2. ASSUME NEW s \in {"token", "fetch"}, Door!Goto(v, s)
        PROVE  /\ doorRequest' \in [DoorVisitors -> R]
               /\ \A u \in DoorVisitors : u # v => doorRequest'[u] = doorRequest[u]
               /\ doorRequest'[v].token = doorRequest[v].token
    <3>1. s \in Door!Stages
      BY DEF Door!Stages
    <3>2. [doorRequest[v] EXCEPT !.at = s] \in R
          /\ [doorRequest[v] EXCEPT !.at = s].token = doorRequest[v].token
      BY <3>1, <1>1
    <3>3. doorRequest' = [doorRequest EXCEPT ![v] = [doorRequest[v] EXCEPT !.at = s]]
      BY <2>2 DEF Door!Goto
    <3> HIDE DEF R
    <3> QED  BY <3>2, <3>3, <1>1
  <2> QED  BY <2>1, <2>2, <1>7
<1> HIDE DEF R
<1>8. ASSUME NEW v \in DoorVisitors, Door!Verify(v)
      PROVE  DoorInv'
  <2>1. doorRequest[v].at # "none"
    BY <1>8 DEF Door!Verify, Door!At
  <2>2. Door!Goto(v, "token") \/ Door!Goto(v, "fetch") \/ Door!Done(v)
    BY <1>8 DEF Door!Verify
  <2>3. /\ doorKeys' = doorKeys /\ doorFetched' = doorFetched
        /\ doorAttempted' \in {doorAttempted, "near"}
    BY <1>8 DEF Door!Verify, Door!cache
  <2>4. UNCHANGED Door!limiter /\ UNCHANGED <<doorAccessOn, Door!links>>
    BY <1>8 DEF Door!Verify
  <2> QED  BY <1>6, <1>7, <2>1, <2>2, <2>3, <2>4 DEF DoorInv, Door!TypeOK
<1>9. ASSUME NEW v \in DoorVisitors, Door!FetchAnswers(v)
      PROVE  DoorInv'
  <2>1. doorRequest[v].at # "none"
    BY <1>9 DEF Door!FetchAnswers, Door!At
  <2>2. Door!Goto(v, "token") \/ Door!Done(v)
    BY <1>9 DEF Door!FetchAnswers
  <2>3. /\ doorKeys' = {doorPublished} /\ doorFetched' = "fresh"
           /\ doorAttempted' = doorAttempted
        /\ UNCHANGED Door!limiter /\ UNCHANGED <<doorAccessOn, Door!links>>
    BY <1>9 DEF Door!FetchAnswers
  <2> QED  BY <1>6, <1>7, <2>1, <2>2, <2>3 DEF DoorInv, Door!TypeOK
<1>10. ASSUME NEW v \in DoorVisitors, Door!FetchFails(v)
       PROVE  DoorInv'
  <2>1. doorRequest[v].at # "none"
    BY <1>10 DEF Door!FetchFails, Door!At
  <2>2. Door!Goto(v, "token") \/ Door!Done(v)
    BY <1>10 DEF Door!FetchFails
  <2>3. /\ doorKeys' = doorKeys /\ doorFetched' = doorFetched /\ doorAttempted' = doorAttempted
        /\ UNCHANGED Door!limiter /\ UNCHANGED <<doorAccessOn, Door!links>>
    BY <1>10 DEF Door!FetchFails, Door!cache
  <2> QED  BY <1>6, <1>7, <2>1, <2>2, <2>3 DEF DoorInv, Door!TypeOK
<1>11. ASSUME NEW v \in DoorVisitors, Door!CheckToken(v)
       PROVE  DoorInv'
  <2>1. doorRequest[v].at # "none" /\ doorRequest' = [doorRequest EXCEPT ![v] = Door!NoRequest]
    BY <1>11 DEF Door!CheckToken, Door!At, Door!Done
  <2>2. doorFailures[v] \in Nat /\ doorFailures[v] < DoorMaxFailures
    BY <2>1, <1>1 DEF DoorInv
  <2>3. \/ doorFailures' = doorFailures
        \/ v \in DoorGuessers
           /\ doorFailures' = [doorFailures EXCEPT ![v] = doorFailures[v] + 1]
    BY <1>11 DEF Door!CheckToken, Door!IsGuess, Door!Suspicious, DoorInv
  <2>4. doorRequest' \in [DoorVisitors -> R]
        /\ \A u \in DoorVisitors : doorRequest'[u]
             = IF u = v THEN Door!NoRequest ELSE doorRequest[u]
    BY <2>1, <1>1, <1>2
  <2>5. doorFailures' \in [DoorVisitors -> 0..DoorMaxFailures]
    BY <2>2, <2>3, <1>1
  <2>6. /\ doorAccessOn' = doorAccessOn /\ doorKeys' = doorKeys /\ doorFetched' = doorFetched
        /\ doorAttempted' = doorAttempted /\ doorPublished' = doorPublished
        /\ doorGiven' = doorGiven /\ doorLive' = doorLive /\ doorBlocked' = doorBlocked
    BY <1>11 DEF Door!CheckToken, Door!cache, Door!links
  <2>7. Door!TypeOK'
    BY <2>4, <2>5, <2>6 DEF DoorInv, Door!TypeOK, R, Door!KeyIds, Door!Stages, Door!Assertions,
       Door!Guess
  <2>8. ASSUME NEW u \in DoorVisitors
        PROVE  /\ doorRequest'[u].at # "none" => doorFailures'[u] < DoorMaxFailures
               /\ doorRequest'[u].token = Door!Guess => u \in DoorGuessers
               /\ doorFailures'[u] > 0 => u \in DoorGuessers
    <3>1. CASE u = v
      BY <3>1, <2>3, <2>4, <1>2 DEF DoorInv
    <3>2. CASE u # v
      BY <3>2, <2>3, <2>4, <1>1 DEF DoorInv
    <3> QED  BY <3>1, <3>2
  <2> QED  BY <2>6, <2>7, <2>8, <1>1 DEF DoorInv, Door!Guess
<1>12. ASSUME NEW v \in DoorVisitors, Door!MinutePasses(v) \/ Door!BlacklistEnds(v)
       PROVE  DoorInv'
  <2>1. /\ doorFailures' \in [DoorVisitors -> 0..DoorMaxFailures]
        /\ \A u \in DoorVisitors : doorFailures'[u] = doorFailures[u] \/ doorFailures'[u] = 0
        /\ doorBlocked' \subseteq doorBlocked
    BY <1>12, <1>1 DEF Door!MinutePasses, Door!BlacklistEnds
  <2>2. /\ doorRequest' = doorRequest
        /\ doorAccessOn' = doorAccessOn /\ doorKeys' = doorKeys /\ doorFetched' = doorFetched
        /\ doorAttempted' = doorAttempted /\ doorPublished' = doorPublished
        /\ doorGiven' = doorGiven /\ doorLive' = doorLive
    BY <1>12 DEF Door!MinutePasses, Door!BlacklistEnds, Door!cache, Door!links
  <2>3. Door!TypeOK'
    BY <2>1, <2>2
       DEF DoorInv, Door!TypeOK, Door!KeyIds, Door!Stages, Door!Assertions, Door!Guess
  <2> QED  BY <2>1, <2>2, <2>3, <1>1 DEF DoorInv, Door!Guess
<1>13. ASSUME Door!CacheGrowsOld \/ Door!GapPasses \/ Door!TeamRotates \/ Door!NewLink
       PROVE  DoorInv'
  <2>1. doorRequest' = doorRequest /\ doorFailures' = doorFailures /\ doorBlocked' = doorBlocked
        /\ doorAccessOn' = doorAccessOn
    BY <1>13
       DEF Door!CacheGrowsOld, Door!GapPasses, Door!TeamRotates, Door!NewLink, Door!limiter
  <2>2. /\ doorKeys' = doorKeys /\ doorFetched' \in {doorFetched, "stale"}
        /\ doorFetched' = "never" <=> doorFetched = "never"
        /\ doorAttempted' \in {"near", "far"}
    BY <1>13 DEF Door!CacheGrowsOld, Door!GapPasses, Door!TeamRotates, Door!NewLink, Door!cache,
       DoorInv, Door!TypeOK
  <2>3. doorPublished' \in Door!KeyIds /\ doorGiven' \in 0..DoorMaxLinks
        /\ doorLive' \subseteq 1..doorGiven'
    <3>1. doorPublished' \in Door!KeyIds
      BY <1>13, <1>1 DEF Door!CacheGrowsOld, Door!GapPasses, Door!TeamRotates, Door!NewLink,
         Door!links, DoorInv, Door!TypeOK, Door!KeyIds
    <3>2. CASE Door!NewLink
      BY <3>1, <3>2, <1>1 DEF Door!NewLink, DoorInv, Door!TypeOK
    <3>3. CASE doorGiven' = doorGiven /\ doorLive' = doorLive
      BY <3>1, <3>3 DEF DoorInv, Door!TypeOK
    <3> QED
      BY <3>1, <3>2, <3>3, <1>13
         DEF Door!CacheGrowsOld, Door!GapPasses, Door!TeamRotates, Door!links
  <2>4. Door!TypeOK'
    BY <2>1, <2>2, <2>3 DEF DoorInv, Door!TypeOK, Door!KeyIds, Door!Stages, Door!Assertions,
       Door!Guess
  <2> QED  BY <2>1, <2>4 DEF DoorInv, Door!Guess
<1> QED
  BY <1>5, <1>8, <1>9, <1>10, <1>11, <1>12, <1>13 DEF Door!Next, Door!VisitStep

(* What stands of the door is its invariant, in every state of it.             *)
LEMMA DoorTrue ==
    ASSUME DoorInv
    PROVE  Door!VisitorsAreJudged
BY DoorOrigins DEF DoorInv, Door!VisitorsAreJudged

------------------------------------------------------------------------------
(* The store, whatever the tasks and writers, the retention, the starts and    *)
(* the writes that fail, also while one process hands over to the next. The    *)
(* lock is the argument: a process has one call at a time, which holds the     *)
(* task as memory has it; so memory is never behind what was promised, and     *)
(* what is written next is no older.                                           *)

\* The numbers rise, and the next one is the next one.
StoreNumbered(task) ==
    /\ \A i, j \in DOMAIN task.events : i < j => task.events[i] < task.events[j]
    /\ task.next = 0 \/ task.next = Store!Newest(task.events) + 1
StoreNumbers ==
    \A t \in StoreTasks :
        /\ storeRows[t] # NoValue => StoreNumbered(storeRows[t])
        /\ \A p \in Store!Procs : storeMemory[p][t] # NoValue => StoreNumbered(storeMemory[p][t])

\* A process that does not serve has nothing in memory but what it corrects.
StoreBlank == \A p \in Store!Procs : storeStage[p] \notin {"correct", "up"} => storeMemory[p] = Store!NoTasks

\* A call under way holds the lock of its process, alone, and the task as memory
\* has it.
StoreCalls ==
    /\ \A w \in StoreWriters : storeCall[w].op = "none" => storeCall[w] = Store!Idle
    /\ \A w \in StoreWriters : storeCall[w].op # "none" =>
          /\ storeStage[storeCall[w].of] = "up" /\ <<storeCall[w].of, w>> \in storeLock /\ storeCall[w].id \in StoreTasks
          /\ storeMemory[storeCall[w].of][storeCall[w].id] = storeCall[w].copy
          /\ storeCall[w].op = "delete" <=> storeCall[w].copy = NoValue
    /\ \A v, w \in StoreWriters :
          storeCall[v].op # "none" /\ storeCall[w].op # "none" /\ storeCall[v].of = storeCall[w].of => v = w

StoreTInv == Store!TypeOK /\ StoreNumbers /\ StoreBlank /\ StoreCalls

\* What a process corrects it has in memory.
StoreCorrected ==
    \A p \in Store!Procs, t \in StoreTasks :
        storeStage[p] = "correct" /\ t \in storeTodo[p] => storeMemory[p][t] # NoValue

\* Memory is never behind what was promised, in whichever process.
StoreAhead ==
    \A p \in Store!Procs, t \in StoreTasks \ (storeDeleted \cup storeRaced) :
        storeMemory[p][t] # NoValue => Store!Newest(storeMemory[p][t].events) >= storePromised[t]

StoreKeptInv == StoreTInv /\ StoreCorrected /\ Store!PromisesAreKept /\ StoreAhead

\* Of the files that no start passed over, none is left to import when a process
\* serves, and none when its task is deleted.
StoreFilesAreDone ==
    \A t \in StoreTasks \ storeUnread : storeFiles[t] = "good" =>
        /\ t \notin storeDeleted
        /\ \A p \in Store!Procs :
              /\ storeStage[p] \notin {"correct", "up"}
              /\ storeStage[p] = "migrate" => t \in storeTodo[p] \/ t = storeMoving[p]

StoreAwayInv == StoreKeptInv /\ StoreFilesAreDone /\ Store!DeletedStaysDeleted

-----------------------------------------------------------------------------
(* The events of a task *)

StoreRising(s) == \A i, j \in DOMAIN s : i < j => s[i] < s[j]

LEMMA StoreSequences ==
  ASSUME NEW S, NEW s \in Seq(S)
  PROVE  /\ Len(s) \in Nat /\ DOMAIN s = 1..Len(s) /\ \A i \in DOMAIN s : s[i] \in S
         /\ s # <<>> => Len(s) \in DOMAIN s
         /\ \A m, n \in DOMAIN s : m <= n =>
               /\ SubSeq(s, m, n) \in Seq(S) /\ Len(SubSeq(s, m, n)) = n - m + 1
               /\ \A i \in 1..(n - m + 1) : SubSeq(s, m, n)[i] = s[m + i - 1] /\ m + i - 1 \in DOMAIN s
  <1>1. Len(s) \in Nat /\ DOMAIN s = 1..Len(s) /\ \A i \in DOMAIN s : s[i] \in S
    OBVIOUS
  <1>2. s # <<>> => Len(s) \in DOMAIN s
    <2>1. s # <<>> => Len(s) # 0
      OBVIOUS
    <2> QED BY <1>1, <2>1
  <1>3. ASSUME NEW m \in DOMAIN s, NEW n \in DOMAIN s, m <= n
        PROVE  /\ SubSeq(s, m, n) \in Seq(S) /\ Len(SubSeq(s, m, n)) = n - m + 1
               /\ \A i \in 1..(n - m + 1) : SubSeq(s, m, n)[i] = s[m + i - 1] /\ m + i - 1 \in DOMAIN s
    BY <1>1, <1>3
  <1> QED BY <1>1, <1>2, <1>3

\* The newest event is the last one.
LEMMA StoreNewestIsLast ==
  ASSUME Store!StoreAssumption, NEW s \in Seq(1..StoreMaxSeq), StoreRising(s)
  PROVE  /\ s = <<>> => Store!Newest(s) = 0
         /\ s # <<>> => Store!Newest(s) = s[Len(s)]
         /\ Store!Newest(s) \in 0..StoreMaxSeq
         /\ \A i \in DOMAIN s : s[i] <= Store!Newest(s)
  <1>0. StoreMaxSeq \in Nat
    BY DEF Store!StoreAssumption
  <1>1. CASE s = <<>>
    BY <1>0, <1>1 DEF Store!Newest
  <1>2. CASE s # <<>>
    <2>1. Len(s) \in DOMAIN s /\ s[Len(s)] \in 1..StoreMaxSeq
      BY <1>2, StoreSequences
    <2>2. \A i \in DOMAIN s : s[i] <= s[Len(s)]
      <3> SUFFICES ASSUME NEW i \in DOMAIN s PROVE s[i] <= s[Len(s)]
        OBVIOUS
      <3>1. (i = Len(s) \/ i < Len(s)) /\ s[i] \in 1..StoreMaxSeq
        <4>1. i \in 1..Len(s) /\ s[i] \in 1..StoreMaxSeq /\ Len(s) \in Nat
          BY StoreSequences
        <4> QED BY <4>1
      <3>2. CASE i = Len(s)
        BY <1>0, <3>1, <3>2
      <3>3. CASE i < Len(s)
        <4>1. s[i] < s[Len(s)]
          BY <2>1, <3>3 DEF StoreRising
        <4> QED BY <1>0, <2>1, <3>1, <4>1
      <3> QED BY <3>1, <3>2, <3>3
    <2> DEFINE T == {s[i] : i \in DOMAIN s}
    <2> DEFINE Top(n) == \A i \in DOMAIN s : s[i] <= n
    <2>3. s[Len(s)] \in T /\ Top(s[Len(s)])
      BY <2>1, <2>2
    <2>4. Store!Newest(s) = CHOOSE n \in T : Top(n)
      BY <1>2 DEF Store!Newest
    <2>5. Store!Newest(s) \in T /\ Top(Store!Newest(s))
      <3> HIDE DEF T, Top
      <3> QED BY <2>3, <2>4
    <2>6. PICK i \in DOMAIN s : Store!Newest(s) = s[i]
      BY <2>5
    <2>7. s[Len(s)] <= s[i] /\ s[i] <= s[Len(s)] /\ s[i] \in 1..StoreMaxSeq
      <3>1. s[i] \in 1..StoreMaxSeq
        BY StoreSequences
      <3> QED BY <2>1, <2>2, <2>5, <2>6, <3>1
    <2>8. Store!Newest(s) = s[Len(s)]
      BY <1>0, <2>1, <2>6, <2>7
    <2> QED BY <1>2, <2>1, <2>2, <2>8
  <1> QED BY <1>1, <1>2

\* A new event bears the next number, and the retention takes it last.
LEMMA StoreEventIsNew ==
  ASSUME Store!StoreAssumption, NEW task \in Store!Task, StoreNumbered(task), Store!Newest(task.events) < StoreMaxSeq,
         NEW l \in BOOLEAN, NEW new, new = [Store!WithEvent(task) EXCEPT !.live = l]
  PROVE  new \in Store!Task /\ StoreNumbered(new) /\ Store!Newest(new.events) = Store!Newest(task.events) + 1
  <1> DEFINE old == task.events
             seq == Store!Newest(old) + 1
             all == Append(old, seq)
             n == Len(all)
             kept == IF StoreRetention > 0 /\ n > StoreRetention THEN SubSeq(all, n - StoreRetention + 1, n) ELSE all
  <1>0. StoreMaxSeq \in Nat /\ StoreRetention \in Nat
    BY DEF Store!StoreAssumption
  <1>1. old \in Seq(1..StoreMaxSeq) /\ task.next \in 0..StoreMaxSeq + 1 /\ StoreRising(old)
    BY DEF Store!Task, StoreNumbered, StoreRising
  <1>2. Store!Newest(old) \in 0..StoreMaxSeq /\ \A i \in DOMAIN old : old[i] <= Store!Newest(old)
    BY <1>1, StoreNewestIsLast
  <1>3. seq \in 1..StoreMaxSeq /\ \A i \in DOMAIN old : old[i] < seq /\ old[i] \in 1..StoreMaxSeq
    BY SMTT(30), <1>1, <1>2 DEF Store!StoreAssumption
  <1>4. task.next = 0 \/ task.next = seq
    BY DEF StoreNumbered
  <1>5. /\ all \in Seq(1..StoreMaxSeq) /\ n = Len(old) + 1 /\ all[n] = seq
        /\ \A i \in DOMAIN old : all[i] = old[i]
    BY <1>1, <1>3
  <1> HIDE DEF seq, all, n
  <1>6. StoreRising(all)
    <2> SUFFICES ASSUME NEW i \in DOMAIN all, NEW j \in DOMAIN all, i < j PROVE all[i] < all[j]
      BY DEF StoreRising
    <2>1. i \in DOMAIN old /\ (j \in DOMAIN old \/ j = n)
      BY <1>1, <1>5 DEF n
    <2> QED BY <1>1, <1>3, <1>5, <2>1 DEF StoreRising
  <1>7. kept \in Seq(1..StoreMaxSeq) /\ kept # <<>> /\ kept[Len(kept)] = seq /\ StoreRising(kept)
    <2>1. CASE StoreRetention > 0 /\ n > StoreRetention
      <3> DEFINE k == n - StoreRetention
      <3>1. StoreRetention \in Nat /\ n \in Nat /\ k \in Nat /\ n = Len(all)
        <4>1. n \in Nat
          BY <1>1, <1>5
        <4> QED BY <1>0, <2>1, <4>1 DEF n
      <3>2. kept = SubSeq(all, k + 1, n)
        BY <2>1
      <3>3. /\ kept \in Seq(1..StoreMaxSeq) /\ Len(kept) = StoreRetention
            /\ \A i \in 1..StoreRetention : kept[i] = all[k + i] /\ k + i \in 1..n
        <4>1. /\ k + 1 \in 1..n /\ n \in 1..n /\ k + 1 <= n /\ n - (k + 1) + 1 = StoreRetention
              /\ \A i \in 1..StoreRetention : (k + 1) + i - 1 = k + i
          BY <2>1, <3>1
        <4>2. DOMAIN all = 1..n
          BY <1>5, <3>1, StoreSequences
        <4> HIDE DEF kept, k
        <4> DEFINE e == k + 1
        <4>3. e \in DOMAIN all /\ n \in DOMAIN all /\ e <= n /\ n - e + 1 = StoreRetention
          BY <4>1, <4>2
        <4> HIDE DEF e
        <4>4. /\ SubSeq(all, e, n) \in Seq(1..StoreMaxSeq) /\ Len(SubSeq(all, e, n)) = n - e + 1
              /\ \A i \in 1..(n - e + 1) :
                    SubSeq(all, e, n)[i] = all[e + i - 1] /\ e + i - 1 \in DOMAIN all
          <5>1. all \in Seq(1..StoreMaxSeq)
            BY <1>5
          <5> QED BY <4>3, <5>1, StoreSequences, Zenon
        <4>5. /\ SubSeq(all, e, n) \in Seq(1..StoreMaxSeq) /\ Len(SubSeq(all, e, n)) = StoreRetention
              /\ \A i \in 1..StoreRetention :
                    SubSeq(all, e, n)[i] = all[e + i - 1] /\ e + i - 1 \in DOMAIN all
          BY <4>3, <4>4
        <4> QED BY <3>2, <4>1, <4>2, <4>5 DEF e
      <3> HIDE DEF kept
      <3>4. kept[StoreRetention] = seq
        BY <1>5, <2>1, <3>1, <3>3
      <3>5. StoreRising(kept)
        <4> SUFFICES ASSUME NEW i \in 1..StoreRetention, NEW j \in 1..StoreRetention, i < j PROVE kept[i] < kept[j]
          BY <3>3 DEF StoreRising
        <4>1. k + i \in DOMAIN all /\ k + j \in DOMAIN all /\ k + i < k + j
          <5>1. DOMAIN all = 1..n
            BY <1>5, <3>1
          <5> QED BY <3>1, <3>3, <5>1
        <4> QED BY <1>6, <3>3, <4>1 DEF StoreRising
      <3> QED BY <2>1, <3>1, <3>3, <3>4, <3>5
    <2>2. CASE ~(StoreRetention > 0 /\ n > StoreRetention)
      <3>1. kept = all
        BY <2>2
      <3>2. all # <<>> /\ Len(all) = n
        BY <1>1, <1>5 DEF n
      <3> QED BY <1>5, <1>6, <3>1, <3>2
    <2> QED BY <2>1, <2>2
  <1>8. new = [task EXCEPT !.next = seq + 1, !.events = kept, !.live = l]
    <2>1. Store!WithEvent(task) = [task EXCEPT !.next = seq + 1, !.events = kept]
      BY <1>4 DEF Store!WithEvent, seq, all, n
    <2> QED BY <2>1
  <1> HIDE DEF kept
  <1>9. new \in Store!Task /\ new.events = kept /\ new.next = seq + 1
    <2>1. seq + 1 \in 0..StoreMaxSeq + 1
      BY <1>0, <1>3
    <2> QED BY <1>7, <1>8, <2>1 DEF Store!Task
  <1>10. Store!Newest(kept) = seq
    BY <1>7, StoreNewestIsLast
  <1> QED BY <1>7, <1>9, <1>10 DEF StoreNumbered, StoreRising, seq

LEMMA StoreTasks0 ==
  ASSUME Store!StoreAssumption
  PROVE  /\ Store!OldTask \in Store!Task /\ StoreNumbered(Store!OldTask) /\ Store!OldTask # NoValue
         /\ Store!NewTask \in Store!Task /\ StoreNumbered(Store!NewTask) /\ Store!NewTask # NoValue
         /\ Store!Newest(Store!NewTask.events) = 0
         /\ \A task \in Store!Task : task # NoValue /\ [task EXCEPT !.live = FALSE] \in Store!Task
  <1>1. Store!OldTask \in Store!Task /\ Store!NewTask \in Store!Task
    BY DEF Store!OldTask, Store!NewTask, Store!Task, Store!StoreAssumption
  <1>2. StoreNumbered(Store!OldTask) /\ StoreNumbered(Store!NewTask) /\ Store!Newest(Store!NewTask.events) = 0
    BY DEF Store!OldTask, Store!NewTask, StoreNumbered, Store!Newest
  <1>3. \A task \in Store!Task : task # NoValue /\ [task EXCEPT !.live = FALSE] \in Store!Task
    BY DEF Store!Task, Store!StoreAssumption
  <1> QED BY <1>1, <1>2, <1>3

-----------------------------------------------------------------------------
(* Typing, the numbers of events, and the calls *)

StoreRows == [StoreTasks -> Store!Task \cup {NoValue}]
StoreStartTyped ==
    /\ storeFiles \in [StoreTasks -> {"none", "good", "bad", "moved"}]
    /\ storeStage \in [Store!Procs -> {"none", "migrate", "load", "correct", "up", "gone"}]
    /\ storeTodo \in [Store!Procs -> SUBSET StoreTasks] /\ storeMoving \in [Store!Procs -> StoreTasks \cup {NoValue}]
    /\ storeFaults \in 0..StoreMaxFaults
StoreTablesTyped == storeRows \in StoreRows /\ storeMemory \in [Store!Procs -> StoreRows]
StoreToldTyped ==
    /\ storePromised \in [StoreTasks -> 0..StoreMaxSeq] /\ storeDeleted \subseteq StoreTasks
    /\ storeRaced \subseteq StoreTasks /\ storeUnread \subseteq StoreTasks
StoreCallType ==
    [op : {"none", "insert", "update", "delete"}, of : Store!Procs, id : StoreTasks \cup {NoValue},
     copy : Store!Task \cup {NoValue}]
StoreCallsTyped == storeLock \subseteq Store!Procs \X StoreWriters /\ storeCall \in [StoreWriters -> StoreCallType]

LEMMA StoreGroups ==
  /\ Store!TypeOK <=> StoreStartTyped /\ StoreTablesTyped /\ StoreToldTyped /\ StoreCallsTyped
  /\ Store!TypeOK' <=> StoreStartTyped' /\ StoreTablesTyped' /\ StoreToldTyped' /\ StoreCallsTyped'
  BY DEF Store!TypeOK, StoreStartTyped, StoreTablesTyped, StoreToldTyped, StoreCallsTyped,
     StoreCallType, StoreRows

LEMMA StoreIdleIsIdle ==
  ASSUME Store!StoreAssumption
  PROVE  Store!Idle \in StoreCallType /\ Store!Idle.op = "none" /\ Store!NoTasks \in StoreRows /\ 1 \in Store!Procs
  <1>1. 1 \in Store!Procs
    BY DEF Store!StoreAssumption, Store!Procs
  <1> QED BY <1>1 DEF Store!Idle, StoreCallType, Store!NoTasks, StoreRows

LEMMA StoreInitTInv == Store!StoreAssumption /\ Store!Init => StoreTInv
  <1> SUFFICES ASSUME Store!StoreAssumption, Store!Init PROVE StoreTInv
    OBVIOUS
  <1> USE DEF Store!Init
  <1>1. StoreStartTyped
    BY DEF StoreStartTyped, Store!StoreAssumption
  <1>2. StoreTablesTyped /\ StoreCallsTyped /\ StoreToldTyped
    BY StoreIdleIsIdle DEF StoreTablesTyped, StoreCallsTyped, StoreToldTyped,
       Store!StoreAssumption
  <1>3. StoreNumbers
    BY DEF StoreNumbers, Store!NoTasks
  <1>4. StoreBlank /\ StoreCalls
    BY StoreIdleIsIdle DEF StoreBlank, StoreCalls
  <1> QED BY <1>1, <1>2, <1>3, <1>4, StoreGroups DEF StoreTInv

LEMMA StoreFaultsTyped ==
  ASSUME Store!StoreAssumption, storeFaults \in 0..StoreMaxFaults, Store!Fault \/ Store!Works
  PROVE  storeFaults' \in 0..StoreMaxFaults
  BY DEF Store!Fault, Store!Works, Store!StoreAssumption

LEMMA StoreStageMoves ==
  ASSUME StoreStartTyped, NEW p \in Store!Procs, NEW s \in {"none", "migrate", "load", "correct", "up", "gone"},
         Store!Becomes(p, s)
  PROVE  /\ storeStage' \in [Store!Procs -> {"none", "migrate", "load", "correct", "up", "gone"}]
         /\ storeStage'[p] = s /\ \A q \in Store!Procs \ {p} : storeStage'[q] = storeStage[q]
  BY DEF StoreStartTyped, Store!Becomes

\* A start that is not over disturbs no call.
LEMMA StoreStartKeepsCalls ==
  ASSUME StoreTInv, NEW p \in Store!Procs, storeStage[p] # "up", UNCHANGED <<storeMemory, storeLock, storeCall>>,
         \A q \in Store!Procs \ {p} : storeStage'[q] = storeStage[q],
         storeStage'[p] \in {"correct", "up"} \/ storeMemory[p] = Store!NoTasks
  PROVE  StoreBlank' /\ StoreCalls' /\ StoreCallsTyped'
  <1>1. StoreBlank'
    BY DEF StoreTInv, StoreBlank
  <1>2. StoreCallsTyped /\ \A w \in StoreWriters : storeCall[w].op # "none" => storeCall[w].of \in Store!Procs
    BY StoreGroups DEF StoreTInv, StoreCallsTyped, StoreCallType
  <1>3. StoreCalls'
    BY <1>2 DEF StoreTInv, StoreCalls
  <1> QED BY <1>1, <1>2, <1>3 DEF StoreCallsTyped

LEMMA StoreRowPut ==
  ASSUME StoreTablesTyped, StoreNumbers, NEW t \in StoreTasks, NEW task \in Store!Task \cup {NoValue},
         task # NoValue => StoreNumbered(task), storeRows' = [storeRows EXCEPT ![t] = task], UNCHANGED storeMemory
  PROVE  /\ StoreTablesTyped' /\ StoreNumbers' /\ storeRows'[t] = task
         /\ \A u \in StoreTasks \ {t} : storeRows'[u] = storeRows[u]
  <1>1. StoreTablesTyped' /\ storeRows'[t] = task /\ \A u \in StoreTasks \ {t} : storeRows'[u] = storeRows[u]
    BY DEF StoreTablesTyped, StoreRows
  <1>2. StoreNumbers'
    BY <1>1 DEF StoreNumbers
  <1> QED BY <1>1, <1>2

LEMMA StoreMemoryPut ==
  ASSUME StoreTablesTyped, NEW p \in Store!Procs, NEW t \in StoreTasks, NEW task \in Store!Task \cup {NoValue},
         storeMemory' = [storeMemory EXCEPT ![p][t] = task], UNCHANGED storeRows
  PROVE  /\ StoreTablesTyped' /\ storeMemory'[p][t] = task
         /\ \A u \in StoreTasks \ {t} : storeMemory'[p][u] = storeMemory[p][u]
         /\ \A q \in Store!Procs \ {p} : storeMemory'[q] = storeMemory[q]
  BY DEF StoreTablesTyped, StoreRows

LEMMA StoreStartTInv ==
  ASSUME Store!StoreAssumption, StoreTInv, NEW p \in Store!Procs, Store!Start(p)
  PROVE  StoreTInv'
  <1> USE DEF Store!Start, Store!disk, Store!CallsStay, Store!told
  <1>0. StoreStartTyped /\ StoreTablesTyped /\ StoreToldTyped
    BY StoreGroups DEF StoreTInv
  <1>1. storeStage'[p] = "migrate" /\ \A q \in Store!Procs \ {p} : storeStage'[q] = storeStage[q]
    BY <1>0, StoreStageMoves
  <1>2. StoreStartTyped'
    <2>1. storeStage' \in [Store!Procs -> {"none", "migrate", "load", "correct", "up", "gone"}]
      BY <1>0, StoreStageMoves
    <2> QED BY <1>0, <2>1 DEF StoreStartTyped
  <1>3. StoreBlank' /\ StoreCalls' /\ StoreCallsTyped'
    BY <1>1, StoreStartKeepsCalls DEF StoreTInv, StoreBlank
  <1>4. StoreTablesTyped' /\ StoreToldTyped' /\ StoreNumbers'
    BY <1>0 DEF StoreTInv, StoreTablesTyped, StoreToldTyped, StoreNumbers
  <1> QED BY <1>2, <1>3, <1>4, StoreGroups DEF StoreTInv

LEMMA StoreImportTInv ==
  ASSUME Store!StoreAssumption, StoreTInv, NEW p \in Store!Procs, NEW t \in StoreTasks, Store!Import(p, t)
  PROVE  StoreTInv'
  <1> USE DEF Store!Import, Store!disk, Store!CallsStay, Store!told
  <1>0. StoreStartTyped /\ StoreTablesTyped /\ StoreToldTyped /\ StoreNumbers
    BY StoreGroups DEF StoreTInv
  <1>1. /\ storeStage' \in [Store!Procs -> {"none", "migrate", "load", "correct", "up", "gone"}]
        /\ storeStage'[p] \in {"migrate", "gone"} /\ \A q \in Store!Procs \ {p} : storeStage'[q] = storeStage[q]
    <2>1. CASE UNCHANGED storeStage
      BY <1>0, <2>1 DEF StoreStartTyped
    <2>2. CASE Store!Becomes(p, "gone")
      BY <1>0, <2>2, StoreStageMoves
    <2> QED BY <2>1, <2>2
  <1>2. StoreStartTyped'
    <2>1. storeTodo' \in [Store!Procs -> SUBSET StoreTasks]
      BY <1>0 DEF StoreStartTyped, Store!Visited
    <2>2. storeMoving' \in [Store!Procs -> StoreTasks \cup {NoValue}]
      BY <1>0 DEF StoreStartTyped
    <2>3. storeFiles' \in [StoreTasks -> {"none", "good", "bad", "moved"}]
      BY <1>0 DEF StoreStartTyped
    <2>4. storeFaults' \in 0..StoreMaxFaults
      BY <1>0, StoreFaultsTyped DEF StoreStartTyped
    <2> QED BY <1>1, <2>1, <2>2, <2>3, <2>4 DEF StoreStartTyped
  <1>3. StoreBlank' /\ StoreCalls' /\ StoreCallsTyped'
    BY <1>1, StoreStartKeepsCalls DEF StoreTInv, StoreBlank
  <1>4. StoreTablesTyped' /\ StoreNumbers'
    <2>1. CASE storeRows' = [storeRows EXCEPT ![t] = Store!OldTask]
      BY <1>0, <2>1, StoreTasks0, StoreRowPut
    <2>2. CASE UNCHANGED storeRows
      BY <1>0, <2>2 DEF StoreTablesTyped, StoreNumbers
    <2> QED BY <2>1, <2>2
  <1>5. StoreToldTyped'
    BY <1>0 DEF StoreToldTyped
  <1> QED BY <1>2, <1>3, <1>4, <1>5, StoreGroups DEF StoreTInv

LEMMA StoreArchiveTInv ==
  ASSUME Store!StoreAssumption, StoreTInv, NEW p \in Store!Procs, Store!Archive(p)
  PROVE  StoreTInv'
  <1> USE DEF Store!Archive, Store!disk, Store!CallsStay, Store!told
  <1>0. StoreStartTyped /\ StoreTablesTyped /\ StoreToldTyped /\ StoreNumbers
    BY StoreGroups DEF StoreTInv
  <1>1. /\ storeStage' \in [Store!Procs -> {"none", "migrate", "load", "correct", "up", "gone"}]
        /\ storeStage'[p] \in {"migrate", "gone"} /\ \A q \in Store!Procs \ {p} : storeStage'[q] = storeStage[q]
    <2>1. CASE UNCHANGED storeStage
      BY <1>0, <2>1 DEF StoreStartTyped
    <2>2. CASE Store!Becomes(p, "gone")
      BY <1>0, <2>2, StoreStageMoves
    <2> QED BY <2>1, <2>2
  <1>2. StoreStartTyped'
    <2>1. storeTodo' \in [Store!Procs -> SUBSET StoreTasks] /\ storeMoving' \in [Store!Procs -> StoreTasks \cup {NoValue}]
      BY <1>0 DEF StoreStartTyped
    <2>2. storeFiles' \in [StoreTasks -> {"none", "good", "bad", "moved"}]
      BY <1>0 DEF StoreStartTyped
    <2>3. storeFaults' \in 0..StoreMaxFaults
      BY <1>0, StoreFaultsTyped DEF StoreStartTyped
    <2> QED BY <1>1, <2>1, <2>2, <2>3 DEF StoreStartTyped
  <1>3. StoreBlank' /\ StoreCalls' /\ StoreCallsTyped'
    BY <1>1, StoreStartKeepsCalls DEF StoreTInv, StoreBlank
  <1>4. StoreTablesTyped' /\ StoreToldTyped' /\ StoreNumbers'
    BY <1>0 DEF StoreTablesTyped, StoreToldTyped, StoreNumbers
  <1> QED BY <1>2, <1>3, <1>4, StoreGroups DEF StoreTInv

\* What load makes of a row: it may end the task, and leaves its events.
StoreEnded(task) == [task EXCEPT !.live = FALSE]
StoreLoads(p) ==
    /\ storeMemory' \in [Store!Procs -> StoreRows] /\ \A q \in Store!Procs \ {p} : storeMemory'[q] = storeMemory[q]
    /\ \A t \in StoreTasks : storeMemory'[p][t] = storeRows[t] \/ (storeRows[t] # NoValue /\ storeMemory'[p][t] = StoreEnded(storeRows[t]))

LEMMA StoreLoadEffect ==
  ASSUME Store!StoreAssumption, StoreTablesTyped, NEW p \in Store!Procs, NEW failed \in SUBSET StoreTasks,
         \A t \in failed : storeRows[t] # NoValue,
         storeMemory' = [storeMemory EXCEPT ![p] =
                      [t \in StoreTasks |-> IF t \in failed THEN [storeRows[t] EXCEPT !.live = FALSE] ELSE storeRows[t]]]
  PROVE  StoreLoads(p)
  <1> DEFINE loaded == [t \in StoreTasks |-> IF t \in failed THEN [storeRows[t] EXCEPT !.live = FALSE] ELSE storeRows[t]]
  <1>1. \A t \in StoreTasks : loaded[t] = IF t \in failed THEN StoreEnded(storeRows[t]) ELSE storeRows[t]
    BY DEF StoreEnded
  <1>2. \A t \in failed : StoreEnded(storeRows[t]) \in Store!Task
    BY StoreTasks0 DEF StoreTablesTyped, StoreRows, StoreEnded
  <1>3. loaded \in StoreRows
    BY <1>2 DEF StoreTablesTyped, StoreRows, StoreEnded
  <1> HIDE DEF loaded
  <1>4. storeMemory' = [storeMemory EXCEPT ![p] = loaded]
    BY DEF loaded
  <1>5. storeMemory'[p] = loaded /\ storeMemory' \in [Store!Procs -> StoreRows] /\ \A q \in Store!Procs \ {p} : storeMemory'[q] = storeMemory[q]
    BY <1>3, <1>4 DEF StoreTablesTyped
  <1> QED BY <1>1, <1>5 DEF StoreLoads

LEMMA StoreEndedKeeps ==
  ASSUME NEW task \in Store!Task
  PROVE  /\ StoreEnded(task).events = task.events
         /\ StoreNumbered(task) => StoreNumbered(StoreEnded(task))
  <1>1. StoreEnded(task).events = task.events /\ StoreEnded(task).next = task.next
    BY DEF StoreEnded, Store!Task
  <1> QED BY <1>1 DEF StoreNumbered

LEMMA StoreLoadCases ==
  ASSUME Store!StoreAssumption, StoreTInv, NEW p \in Store!Procs, Store!Load(p)
  PROVE  \/ /\ storeStage'[p] = "gone" /\ \A q \in Store!Procs \ {p} : storeStage'[q] = storeStage[q]
            /\ UNCHANGED storeMemory
         \/ /\ storeStage'[p] = "correct" /\ \A q \in Store!Procs \ {p} : storeStage'[q] = storeStage[q]
            /\ StoreLoads(p)
  <1>0. StoreStartTyped /\ StoreTablesTyped
    BY StoreGroups DEF StoreTInv
  <1>1. CASE Store!Becomes(p, "gone") /\ UNCHANGED storeMemory
    BY <1>0, <1>1, StoreStageMoves
  <1>2. CASE /\ Store!Becomes(p, "correct")
             /\ \E planned \in IF p = 1 THEN {{}} ELSE SUBSET StoreTasks :
                  LET failed == {t \in StoreTasks \ planned : storeRows[t] # NoValue /\ storeRows[t].live} IN
                  storeMemory' = [storeMemory EXCEPT ![p] =
                      [t \in StoreTasks |-> IF t \in failed THEN [storeRows[t] EXCEPT !.live = FALSE] ELSE storeRows[t]]]
    <2>1. PICK planned : storeMemory' = [storeMemory EXCEPT ![p] =
                      [t \in StoreTasks |-> IF t \in {u \in StoreTasks \ planned : storeRows[u] # NoValue /\ storeRows[u].live}
                                       THEN [storeRows[t] EXCEPT !.live = FALSE] ELSE storeRows[t]]]
      BY <1>2
    <2> DEFINE failed == {u \in StoreTasks \ planned : storeRows[u] # NoValue /\ storeRows[u].live}
    <2>2. failed \in SUBSET StoreTasks /\ \A t \in failed : storeRows[t] # NoValue
      OBVIOUS
    <2>3. storeMemory' = [storeMemory EXCEPT ![p] =
                      [t \in StoreTasks |-> IF t \in failed THEN [storeRows[t] EXCEPT !.live = FALSE] ELSE storeRows[t]]]
      BY <2>1
    <2> HIDE DEF failed
    <2>4. StoreLoads(p)
      BY <1>0, <2>2, <2>3, StoreLoadEffect
    <2> QED BY <1>0, <1>2, <2>4, StoreStageMoves
  <1> QED BY <1>1, <1>2 DEF Store!Load

LEMMA StoreLoadTInv ==
  ASSUME Store!StoreAssumption, StoreTInv, NEW p \in Store!Procs, Store!Load(p)
  PROVE  StoreTInv'
  <1> USE DEF Store!disk, Store!told, Store!history
  <1>0. StoreStartTyped /\ StoreTablesTyped /\ StoreToldTyped /\ StoreCallsTyped
    BY StoreGroups DEF StoreTInv
  <1>1. storeStage[p] = "migrate" /\ UNCHANGED <<storeFiles, storeRows, storeMoving, storeLock, storeCall, storePromised, storeDeleted,
                   storeRaced, storeUnread>>
    BY DEF Store!Load
  <1>2. \/ UNCHANGED storeMemory /\ storeStage'[p] = "gone"
        \/ StoreLoads(p) /\ storeStage'[p] = "correct"
    BY StoreLoadCases
  <1>3. \A q \in Store!Procs \ {p} : storeStage'[q] = storeStage[q]
    BY StoreLoadCases
  <1>4. storeMemory' \in [Store!Procs -> StoreRows] /\ \A q \in Store!Procs \ {p} : storeMemory'[q] = storeMemory[q]
    BY <1>0, <1>2 DEF StoreLoads, StoreTablesTyped
  <1>5. StoreStartTyped'
    <2>1. storeStage' \in [Store!Procs -> {"none", "migrate", "load", "correct", "up", "gone"}]
      BY <1>0, StoreStageMoves DEF Store!Load
    <2>2. storeTodo' \in [Store!Procs -> SUBSET StoreTasks]
      BY <1>0 DEF Store!Load, StoreStartTyped
    <2>3. storeFaults' \in 0..StoreMaxFaults
      BY <1>0, StoreFaultsTyped DEF Store!Load, StoreStartTyped
    <2> QED BY <1>0, <1>1, <2>1, <2>2, <2>3 DEF StoreStartTyped
  <1>6. StoreNumbers'
    <2>1. \A t \in StoreTasks : storeRows[t] # NoValue => StoreNumbered(storeRows[t]) /\ StoreNumbered(StoreEnded(storeRows[t]))
      BY <1>0, StoreEndedKeeps DEF StoreTInv, StoreNumbers, StoreTablesTyped, StoreRows
    <2>2. ASSUME NEW t \in StoreTasks, NEW q \in Store!Procs, storeMemory'[q][t] # NoValue PROVE StoreNumbered(storeMemory'[q][t])
      <3>1. CASE q # p \/ UNCHANGED storeMemory
        BY <1>4, <2>2, <3>1 DEF StoreTInv, StoreNumbers
      <3>2. CASE q = p /\ StoreLoads(p)
        BY <2>1, <2>2, <3>2 DEF StoreLoads
      <3> QED BY <1>2, <3>1, <3>2
    <2> QED BY <1>1, <2>1, <2>2 DEF StoreNumbers
  <1>7. StoreBlank'
    BY <1>1, <1>2, <1>3, <1>4 DEF StoreTInv, StoreBlank
  <1>8. StoreCalls'
    <2>1. \A w \in StoreWriters : storeCall[w].op # "none" => storeCall[w].of \in Store!Procs \ {p}
      BY <1>0, <1>1 DEF StoreTInv, StoreCalls, StoreCallsTyped, StoreCallType
    <2> QED BY <1>1, <1>3, <1>4, <2>1 DEF StoreTInv, StoreCalls
  <1>9. StoreTablesTyped' /\ StoreToldTyped' /\ StoreCallsTyped'
    BY <1>0, <1>1, <1>4 DEF StoreTablesTyped, StoreToldTyped, StoreCallsTyped
  <1> QED BY <1>5, <1>6, <1>7, <1>8, <1>9, StoreGroups DEF StoreTInv

LEMMA StoreCorrectTInv ==
  ASSUME Store!StoreAssumption, StoreTInv, NEW p \in Store!Procs, NEW t \in StoreTasks, Store!Correct(p, t)
  PROVE  StoreTInv'
  <1> USE DEF Store!Correct, Store!CallsStay, Store!told
  <1>0. StoreStartTyped /\ StoreTablesTyped /\ StoreToldTyped /\ StoreCallsTyped /\ StoreNumbers
    BY StoreGroups DEF StoreTInv
  <1>1. StoreStartTyped'
    <2>1. storeTodo' \in [Store!Procs -> SUBSET StoreTasks]
      BY <1>0 DEF StoreStartTyped, Store!Visited
    <2>2. storeFaults' \in 0..StoreMaxFaults
      BY <1>0, StoreFaultsTyped DEF StoreStartTyped
    <2> QED BY <1>0, <2>1, <2>2 DEF StoreStartTyped
  <1>2. StoreTablesTyped' /\ StoreNumbers'
    <2>1. CASE storeRows' = [storeRows EXCEPT ![t] = storeMemory[p][t]]
      <3>1. storeMemory[p][t] \in Store!Task \cup {NoValue} /\ (storeMemory[p][t] # NoValue => StoreNumbered(storeMemory[p][t]))
        BY <1>0 DEF StoreTablesTyped, StoreRows, StoreNumbers
      <3> QED BY <1>0, <2>1, <3>1, StoreRowPut
    <2>2. CASE UNCHANGED storeRows
      BY <1>0, <2>2 DEF StoreTablesTyped, StoreNumbers
    <2> QED BY <2>1, <2>2
  <1>3. StoreBlank' /\ StoreCalls' /\ StoreCallsTyped' /\ StoreToldTyped'
    BY <1>0 DEF StoreTInv, StoreBlank, StoreCalls, StoreCallsTyped, StoreToldTyped
  <1> QED BY <1>1, <1>2, <1>3, StoreGroups DEF StoreTInv

LEMMA StoreServeTInv ==
  ASSUME Store!StoreAssumption, StoreTInv, NEW p \in Store!Procs, Store!Serve(p)
  PROVE  StoreTInv'
  <1> USE DEF Store!Serve, Store!CallsStay, Store!told, Store!disk
  <1>0. StoreStartTyped /\ StoreTablesTyped /\ StoreToldTyped /\ StoreCallsTyped /\ StoreNumbers
    BY StoreGroups DEF StoreTInv
  <1>1. storeStage'[p] = "up" /\ \A q \in Store!Procs \ {p} : storeStage'[q] = storeStage[q]
    BY <1>0, StoreStageMoves
  <1>2. StoreStartTyped'
    <2>1. storeStage' \in [Store!Procs -> {"none", "migrate", "load", "correct", "up", "gone"}]
      BY <1>0, StoreStageMoves
    <2> QED BY <1>0, <2>1 DEF StoreStartTyped
  <1>3. StoreBlank' /\ StoreCalls' /\ StoreCallsTyped'
    BY <1>1, StoreStartKeepsCalls
  <1>4. StoreTablesTyped' /\ StoreToldTyped' /\ StoreNumbers'
    BY <1>0 DEF StoreTablesTyped, StoreToldTyped, StoreNumbers
  <1> QED BY <1>2, <1>3, <1>4, StoreGroups DEF StoreTInv

LEMMA StoreEndTInv ==
  ASSUME Store!StoreAssumption, StoreTInv, NEW p \in Store!Procs, Store!End(p)
  PROVE  StoreTInv'
  <1> USE DEF Store!End, Store!told, Store!disk, Store!history
  <1>0. StoreStartTyped /\ StoreTablesTyped /\ StoreToldTyped /\ StoreCallsTyped /\ StoreNumbers
    BY StoreGroups DEF StoreTInv
  <1>1. storeStage'[p] = "gone" /\ \A q \in Store!Procs \ {p} : storeStage'[q] = storeStage[q]
    BY <1>0, StoreStageMoves
  <1>2. StoreStartTyped'
    <2>1. storeStage' \in [Store!Procs -> {"none", "migrate", "load", "correct", "up", "gone"}]
      BY <1>0, StoreStageMoves
    <2>2. storeTodo' \in [Store!Procs -> SUBSET StoreTasks] /\ storeMoving' \in [Store!Procs -> StoreTasks \cup {NoValue}]
      BY <1>0 DEF StoreStartTyped
    <2> QED BY <1>0, <2>1, <2>2 DEF StoreStartTyped
  <1>3. /\ storeMemory' \in [Store!Procs -> StoreRows] /\ storeMemory'[p] = Store!NoTasks
        /\ \A q \in Store!Procs \ {p} : storeMemory'[q] = storeMemory[q]
    BY <1>0, StoreIdleIsIdle DEF StoreTablesTyped
  <1>4. StoreTablesTyped' /\ StoreToldTyped'
    BY <1>0, <1>3 DEF StoreTablesTyped, StoreToldTyped
  <1>5. StoreNumbers'
    <2>1. \A t \in StoreTasks : storeMemory'[p][t] = NoValue
      BY <1>3 DEF Store!NoTasks
    <2> QED BY <1>0, <1>3, <2>1 DEF StoreNumbers
  <1>6. StoreBlank'
    BY <1>1, <1>3 DEF StoreTInv, StoreBlank
  <1>7. /\ \A w \in StoreWriters : storeCall[w].of = p => storeCall'[w] = Store!Idle
        /\ \A w \in StoreWriters : storeCall[w].of # p => storeCall'[w] = storeCall[w]
        /\ StoreCallsTyped'
    BY <1>0, StoreIdleIsIdle DEF StoreCallsTyped
  <1>8. StoreCalls'
    <2>1. \A w \in StoreWriters : storeCall'[w].op # "none" =>
             storeCall'[w] = storeCall[w] /\ storeCall[w].op # "none" /\ storeCall[w].of \in Store!Procs \ {p}
      BY <1>0, <1>7, StoreIdleIsIdle DEF StoreCallsTyped, StoreCallType
    <2>2. \A w \in StoreWriters : storeCall'[w].op = "none" => storeCall'[w] = Store!Idle
      BY <1>7 DEF StoreTInv, StoreCalls
    <2>3. ASSUME NEW w \in StoreWriters, storeCall'[w].op # "none"
          PROVE  /\ storeStage'[storeCall'[w].of] = "up" /\ <<storeCall'[w].of, w>> \in storeLock' /\ storeCall'[w].id \in StoreTasks
                 /\ storeMemory'[storeCall'[w].of][storeCall'[w].id] = storeCall'[w].copy
                 /\ storeCall'[w].op = "delete" <=> storeCall'[w].copy = NoValue
      <3>1. <<storeCall[w].of, w>> \in storeLock /\ <<storeCall[w].of, w>>[1] # p
        BY <2>1, <2>3 DEF StoreTInv, StoreCalls
      <3>2. <<storeCall[w].of, w>> \in storeLock'
        BY <3>1
      <3> QED BY <1>1, <1>3, <2>1, <2>3, <3>2 DEF StoreTInv, StoreCalls
    <2> QED BY <2>1, <2>2, <2>3 DEF StoreTInv, StoreCalls
  <1> QED BY <1>2, <1>4, <1>5, <1>6, <1>7, <1>8, StoreGroups DEF StoreTInv

-----------------------------------------------------------------------------
(* Calls *)

\* A call changes its process's memory of one task, and no other call is under way
\* there.
StoreTaken(w, p, op, t, task) ==
    /\ storeMemory'[p][t] = task /\ \A u \in StoreTasks \ {t} : storeMemory'[p][u] = storeMemory[p][u]
    /\ \A q \in Store!Procs \ {p} : storeMemory'[q] = storeMemory[q]
    /\ storeCall'[w] = [op |-> op, of |-> p, id |-> t, copy |-> task]
    /\ \A v \in StoreWriters \ {w} : storeCall'[v] = storeCall[v]
    /\ \A v \in StoreWriters : storeCall[v].op # "none" => storeCall[v].of # p

LEMMA StoreTakesTInv ==
  ASSUME Store!StoreAssumption, StoreTInv, NEW w \in StoreWriters, NEW p \in Store!Procs, NEW t \in StoreTasks,
         NEW op \in {"insert", "update", "delete"}, NEW task \in Store!Task \cup {NoValue},
         task # NoValue => StoreNumbered(task), op = "delete" <=> task = NoValue,
         Store!Takes(w, p, op, t, task)
  PROVE  StoreTInv' /\ StoreTaken(w, p, op, t, task)
  <1> USE DEF Store!Takes, Store!disk, Store!starting, Store!told, Store!history
  <1>0. StoreStartTyped /\ StoreTablesTyped /\ StoreToldTyped /\ StoreCallsTyped /\ StoreNumbers
    BY StoreGroups DEF StoreTInv
  <1>1. /\ StoreTablesTyped' /\ storeMemory'[p][t] = task
        /\ \A u \in StoreTasks \ {t} : storeMemory'[p][u] = storeMemory[p][u]
        /\ \A q \in Store!Procs \ {p} : storeMemory'[q] = storeMemory[q]
    <2>1. UNCHANGED storeRows /\ storeMemory' = [storeMemory EXCEPT ![p][t] = task]
      OBVIOUS
    <2> QED BY <1>0, <2>1, StoreMemoryPut
  <1>2. [op |-> op, of |-> p, id |-> t, copy |-> task] \in StoreCallType
    BY DEF StoreCallType
  <1>3. /\ storeCall'[w] = [op |-> op, of |-> p, id |-> t, copy |-> task]
        /\ \A v \in StoreWriters \ {w} : storeCall'[v] = storeCall[v]
        /\ StoreCallsTyped'
    BY <1>0, <1>2 DEF StoreCallsTyped
  <1>4. \A v \in StoreWriters : storeCall[v].op # "none" => storeCall[v].of # p
    <2> SUFFICES ASSUME NEW v \in StoreWriters, storeCall[v].op # "none" PROVE storeCall[v].of # p
      OBVIOUS
    <2>1. <<storeCall[v].of, v>> \in storeLock
      BY DEF StoreTInv, StoreCalls
    <2>2. <<storeCall[v].of, v>>[1] # p
      BY <2>1 DEF Store!Free
    <2> QED BY <2>2
  <1>5. StoreNumbers'
    BY <1>0, <1>1 DEF StoreNumbers
  <1>6. StoreBlank'
    BY <1>1 DEF StoreTInv, StoreBlank
  <1>7. StoreCalls'
    <2>1. \A v \in StoreWriters : storeCall'[v].op = "none" => storeCall'[v] = Store!Idle
      BY <1>3 DEF StoreTInv, StoreCalls
    <2>2. ASSUME NEW v \in StoreWriters, storeCall'[v].op # "none"
          PROVE  /\ storeStage'[storeCall'[v].of] = "up" /\ <<storeCall'[v].of, v>> \in storeLock' /\ storeCall'[v].id \in StoreTasks
                 /\ storeMemory'[storeCall'[v].of][storeCall'[v].id] = storeCall'[v].copy
                 /\ storeCall'[v].op = "delete" <=> storeCall'[v].copy = NoValue
      <3>1. CASE v = w
        BY <1>1, <1>3, <3>1
      <3>2. CASE v # w
        <4>1. storeCall'[v] = storeCall[v] /\ storeCall[v].of \in Store!Procs \ {p}
          BY <1>0, <1>3, <1>4, <2>2, <3>2 DEF StoreCallsTyped, StoreCallType
        <4> QED BY <1>1, <2>2, <4>1 DEF StoreTInv, StoreCalls
      <3> QED BY <3>1, <3>2
    <2>3. ASSUME NEW v \in StoreWriters, NEW u \in StoreWriters, storeCall'[v].op # "none", storeCall'[u].op # "none",
                 storeCall'[v].of = storeCall'[u].of
          PROVE  v = u
      BY <1>3, <1>4, <2>3 DEF StoreTInv, StoreCalls
    <2> QED BY <2>1, <2>2, <2>3 DEF StoreCalls
  <1>8. StoreStartTyped' /\ StoreToldTyped'
    BY <1>0 DEF StoreStartTyped, StoreToldTyped
  <1> QED BY <1>1, <1>3, <1>4, <1>5, <1>6, <1>7, <1>8, StoreGroups DEF StoreTInv, StoreTaken

\* What Update writes.
StoreUpdates(w, p, t, new) ==
    /\ storeMemory[p][t] \in Store!Task /\ new \in Store!Task /\ new # NoValue /\ StoreNumbered(new)
    /\ Store!Newest(new.events) = Store!Newest(storeMemory[p][t].events) + 1
    /\ Store!Newest(storeMemory[p][t].events) \in 0..StoreMaxSeq
    /\ Store!Takes(w, p, "update", t, new)

LEMMA StoreUpdateTakes ==
  ASSUME Store!StoreAssumption, StoreTInv, NEW w \in StoreWriters, NEW p \in Store!Procs, NEW t \in StoreTasks, Store!Update(w, p, t)
  PROVE  \E new \in Store!Task : StoreUpdates(w, p, t, new)
  <1> DEFINE old == storeMemory[p][t]
  <1>1. old \in Store!Task /\ StoreNumbered(old) /\ Store!Newest(old.events) < StoreMaxSeq
    BY StoreGroups DEF StoreTInv, StoreTablesTyped, StoreRows, StoreNumbers, Store!Update
  <1>2. PICK l \in BOOLEAN : Store!Takes(w, p, "update", t, [Store!WithEvent(old) EXCEPT !.live = l])
    BY DEF Store!Update
  <1>3. Store!Newest(old.events) \in 0..StoreMaxSeq
    <2>1. old.events \in Seq(1..StoreMaxSeq) /\ StoreRising(old.events)
      BY <1>1 DEF Store!Task, StoreNumbered, StoreRising
    <2> QED BY <2>1, StoreNewestIsLast
  <1> DEFINE new == [Store!WithEvent(old) EXCEPT !.live = l]
  <1>4. Store!Takes(w, p, "update", t, new)
    BY <1>2
  <1>5. new = [Store!WithEvent(old) EXCEPT !.live = l]
    OBVIOUS
  <1> HIDE DEF old, new
  <1>6. new \in Store!Task /\ StoreNumbered(new) /\ Store!Newest(new.events) = Store!Newest(old.events) + 1
    BY <1>1, <1>5, StoreEventIsNew
  <1>7. new # NoValue
    BY <1>6, StoreTasks0
  <1> QED BY <1>1, <1>3, <1>4, <1>6, <1>7 DEF StoreUpdates, old

LEMMA StoreCreateTInv ==
  ASSUME Store!StoreAssumption, StoreTInv, NEW w \in StoreWriters, NEW p \in Store!Procs, NEW t \in StoreTasks, Store!Create(w, p, t)
  PROVE  StoreTInv' /\ StoreTaken(w, p, "insert", t, Store!NewTask)
  BY StoreTasks0, StoreTakesTInv DEF Store!Create

LEMMA StoreUpdateTInv ==
  ASSUME Store!StoreAssumption, StoreTInv, NEW w \in StoreWriters, NEW p \in Store!Procs, NEW t \in StoreTasks, Store!Update(w, p, t)
  PROVE  StoreTInv' /\ \E new \in Store!Task : StoreUpdates(w, p, t, new) /\ StoreTaken(w, p, "update", t, new)
  <1>1. PICK new \in Store!Task : StoreUpdates(w, p, t, new)
    BY StoreUpdateTakes
  <1>2. new # NoValue /\ StoreNumbered(new) /\ Store!Takes(w, p, "update", t, new)
    BY <1>1 DEF StoreUpdates
  <1>3. StoreTInv' /\ StoreTaken(w, p, "update", t, new)
    BY <1>2, StoreTakesTInv
  <1> QED BY <1>1, <1>3

LEMMA StoreDeleteTInv ==
  ASSUME Store!StoreAssumption, StoreTInv, NEW w \in StoreWriters, NEW p \in Store!Procs, NEW t \in StoreTasks, Store!Delete(w, p, t)
  PROVE  StoreTInv' /\ StoreTaken(w, p, "delete", t, NoValue)
  BY StoreTakesTInv DEF Store!Delete

\* The write that a call ends with: its own lock is given back, and only its own
\* task changes.
StoreWritten(w) ==
    LET p == storeCall[w].of
        t == storeCall[w].id
    IN  /\ p \in Store!Procs /\ t \in StoreTasks /\ storeCall[w].op # "none" /\ storeCall'[w] = Store!Idle
        /\ \A v \in StoreWriters \ {w} : storeCall'[v] = storeCall[v] /\ (storeCall[v].op # "none" => storeCall[v].of # p)
        /\ \A q \in Store!Procs, u \in StoreTasks : (q # p \/ u # t) => storeMemory'[q][u] = storeMemory[q][u]
        /\ \A u \in StoreTasks \ {t} : storeRows'[u] = storeRows[u]

LEMMA StoreEndsCall ==
  ASSUME Store!StoreAssumption, StoreTInv, NEW w \in StoreWriters, storeCall[w].op # "none",
         storeCall' = [storeCall EXCEPT ![w] = Store!Idle], Store!Unlock(w), UNCHANGED storeStage,
         StoreTablesTyped', StoreWritten(w)
  PROVE  StoreCallsTyped' /\ StoreCalls'
  <1>0. StoreCallsTyped /\ StoreTablesTyped
    BY StoreGroups DEF StoreTInv
  <1>1. StoreCallsTyped'
    BY <1>0, StoreIdleIsIdle DEF StoreCallsTyped, Store!Unlock
  <1>2. storeCall'[w] = Store!Idle /\ Store!Idle.op = "none" /\ \A v \in StoreWriters \ {w} : storeCall'[v] = storeCall[v]
    BY StoreIdleIsIdle DEF StoreWritten
  <1>3. \A v \in StoreWriters : storeCall'[v].op = "none" => storeCall'[v] = Store!Idle
    BY <1>2 DEF StoreTInv, StoreCalls
  <1>4. ASSUME NEW v \in StoreWriters, storeCall'[v].op # "none"
        PROVE  /\ storeStage'[storeCall'[v].of] = "up" /\ <<storeCall'[v].of, v>> \in storeLock' /\ storeCall'[v].id \in StoreTasks
               /\ storeMemory'[storeCall'[v].of][storeCall'[v].id] = storeCall'[v].copy
               /\ storeCall'[v].op = "delete" <=> storeCall'[v].copy = NoValue
    <2>1. v # w /\ storeCall'[v] = storeCall[v] /\ storeCall[v].op # "none" /\ storeCall[v].of # storeCall[w].of
      BY <1>2, <1>4 DEF StoreWritten
    <2>2. <<storeCall[v].of, v>> \in storeLock /\ <<storeCall[v].of, v>> # <<storeCall[w].of, w>>
      BY <2>1 DEF StoreTInv, StoreCalls
    <2>3. <<storeCall[v].of, v>> \in storeLock'
      BY <2>2 DEF Store!Unlock
    <2>4. storeCall[v].id \in StoreTasks /\ storeCall[v].of \in Store!Procs
      BY <1>0, <2>1 DEF StoreTInv, StoreCalls, StoreCallsTyped, StoreCallType
    <2>5. storeMemory'[storeCall[v].of][storeCall[v].id] = storeMemory[storeCall[v].of][storeCall[v].id]
      BY <2>1, <2>4 DEF StoreWritten
    <2> QED BY <2>1, <2>3, <2>5 DEF StoreTInv, StoreCalls
  <1>5. \A v, u \in StoreWriters :
           storeCall'[v].op # "none" /\ storeCall'[u].op # "none" /\ storeCall'[v].of = storeCall'[u].of => v = u
    BY <1>2 DEF StoreTInv, StoreCalls
  <1> QED BY <1>1, <1>3, <1>4, <1>5 DEF StoreCalls

\* What a call under way is.
LEMMA StoreUnderWay ==
  ASSUME Store!StoreAssumption, StoreTInv, NEW w \in StoreWriters, storeCall[w].op # "none"
  PROVE  /\ storeCall[w].of \in Store!Procs /\ storeCall[w].id \in StoreTasks /\ storeStage[storeCall[w].of] = "up"
         /\ storeCall[w].copy \in Store!Task \cup {NoValue} /\ (storeCall[w].op = "delete" <=> storeCall[w].copy = NoValue)
         /\ storeMemory[storeCall[w].of][storeCall[w].id] = storeCall[w].copy
         /\ storeCall[w].copy # NoValue => StoreNumbered(storeCall[w].copy) /\ Store!Newest(storeCall[w].copy.events) \in 0..StoreMaxSeq
         /\ \A v \in StoreWriters \ {w} : storeCall[v].op # "none" => storeCall[v].of # storeCall[w].of
  <1>0. StoreCallsTyped /\ StoreTablesTyped /\ StoreNumbers /\ StoreCalls
    BY StoreGroups DEF StoreTInv
  <1>1. storeCall[w].of \in Store!Procs /\ storeCall[w].copy \in Store!Task \cup {NoValue} /\ storeCall[w].id \in StoreTasks
    BY <1>0 DEF StoreCalls, StoreCallsTyped, StoreCallType
  <1>2. /\ storeStage[storeCall[w].of] = "up" /\ (storeCall[w].op = "delete" <=> storeCall[w].copy = NoValue)
        /\ storeMemory[storeCall[w].of][storeCall[w].id] = storeCall[w].copy
        /\ \A v \in StoreWriters \ {w} : storeCall[v].op # "none" => storeCall[v].of # storeCall[w].of
    BY <1>0 DEF StoreCalls
  <1>3. ASSUME storeCall[w].copy # NoValue
        PROVE  StoreNumbered(storeCall[w].copy) /\ Store!Newest(storeCall[w].copy.events) \in 0..StoreMaxSeq
    <2>1. StoreNumbered(storeCall[w].copy)
      BY <1>0, <1>1, <1>2, <1>3 DEF StoreNumbers
    <2>2. storeCall[w].copy.events \in Seq(1..StoreMaxSeq) /\ StoreRising(storeCall[w].copy.events)
      BY <1>1, <1>3, <2>1 DEF Store!Task, StoreNumbered, StoreRising
    <2>3. Store!Newest(storeCall[w].copy.events) \in 0..StoreMaxSeq
      BY <2>2, StoreNewestIsLast
    <2> QED BY <2>1, <2>3
  <1> QED BY <1>1, <1>2, <1>3

\* A write keeps the task, or leaves table and promises as they are; a failed insert
\* is taken back.
LEMMA StorePersistEffect ==
  ASSUME Store!StoreAssumption, StoreTInv, NEW w \in StoreWriters, Store!Persist(w)
  PROVE  /\ StoreWritten(w) /\ StoreTablesTyped' /\ StoreNumbers' /\ storeCall[w].copy \in Store!Task /\ storeCall[w].copy # NoValue
         /\ storePromised' \in [StoreTasks -> 0..StoreMaxSeq]
         /\ \/ /\ storeRows'[storeCall[w].id] = storeCall[w].copy /\ UNCHANGED storeMemory /\ Store!Race(w)
               /\ storePromised'[storeCall[w].id] = IF Store!Newest(storeCall[w].copy.events) > storePromised[storeCall[w].id]
                                          THEN Store!Newest(storeCall[w].copy.events) ELSE storePromised[storeCall[w].id]
               /\ \A u \in StoreTasks \ {storeCall[w].id} : storePromised'[u] = storePromised[u]
            \/ /\ UNCHANGED <<storeRows, storePromised, storeRaced>>
               /\ UNCHANGED storeMemory \/ storeMemory'[storeCall[w].of][storeCall[w].id] = NoValue
  <1> DEFINE p == storeCall[w].of
             t == storeCall[w].id
             copy == storeCall[w].copy
             high == IF Store!Newest(copy.events) > storePromised[t] THEN Store!Newest(copy.events) ELSE storePromised[t]
  <1>0. StoreStartTyped /\ StoreTablesTyped /\ StoreToldTyped /\ StoreCallsTyped /\ StoreNumbers
    BY StoreGroups DEF StoreTInv
  <1>1. /\ p \in Store!Procs /\ t \in StoreTasks /\ copy \in Store!Task /\ copy # NoValue /\ StoreNumbered(copy)
        /\ Store!Newest(copy.events) \in 0..StoreMaxSeq
        /\ storeMemory[p][t] = copy /\ storeCall[w].op # "none"
        /\ \A v \in StoreWriters \ {w} : storeCall[v].op # "none" => storeCall[v].of # p
    BY StoreUnderWay DEF Store!Persist
  <1>2. storeCall'[w] = Store!Idle /\ \A v \in StoreWriters \ {w} : storeCall'[v] = storeCall[v]
    BY <1>0 DEF Store!Persist, StoreCallsTyped
  <1>3. CASE /\ storeRows' = [storeRows EXCEPT ![t] = copy] /\ UNCHANGED storeMemory /\ Store!Race(w)
             /\ storePromised' = [storePromised EXCEPT ![t] = IF Store!Newest(copy.events) > @
                                                   THEN Store!Newest(copy.events) ELSE @]
    <2>1. /\ StoreTablesTyped' /\ StoreNumbers' /\ storeRows'[t] = copy
          /\ \A u \in StoreTasks \ {t} : storeRows'[u] = storeRows[u]
      <3>1. storeRows' = [storeRows EXCEPT ![t] = copy] /\ UNCHANGED storeMemory
        BY <1>3
      <3> HIDE DEF p, t, copy, high
      <3>2. copy \in Store!Task \cup {NoValue} /\ (copy # NoValue => StoreNumbered(copy)) /\ t \in StoreTasks
        BY <1>1
      <3> QED BY <1>0, <3>1, <3>2, StoreRowPut
    <2>2. high \in 0..StoreMaxSeq
      BY <1>0, <1>1 DEF StoreToldTyped
    <2>3. storePromised' = [storePromised EXCEPT ![t] = high]
      BY <1>0, <1>3 DEF StoreToldTyped
    <2> HIDE DEF high
    <2>4. /\ storePromised' \in [StoreTasks -> 0..StoreMaxSeq] /\ storePromised'[t] = high
          /\ \A u \in StoreTasks \ {t} : storePromised'[u] = storePromised[u]
      BY <1>0, <1>1, <2>2, <2>3 DEF StoreToldTyped
    <2>5. StoreWritten(w)
      BY <1>1, <1>2, <1>3, <2>1 DEF StoreWritten
    <2> QED BY <1>1, <1>3, <2>1, <2>4, <2>5 DEF high
  <1>4. CASE /\ UNCHANGED <<storeRows, storePromised, storeRaced>>
             /\ storeMemory' = [storeMemory EXCEPT ![p][t] = NoValue] \/ UNCHANGED storeMemory
    <2>1. CASE storeMemory' = [storeMemory EXCEPT ![p][t] = NoValue]
      <3> HIDE DEF p, t, copy
      <3>0. UNCHANGED storeRows /\ UNCHANGED storePromised /\ UNCHANGED storeRaced
        BY <1>4
      <3>1. /\ StoreTablesTyped' /\ storeMemory'[p][t] = NoValue
            /\ \A u \in StoreTasks \ {t} : storeMemory'[p][u] = storeMemory[p][u]
            /\ \A q \in Store!Procs \ {p} : storeMemory'[q] = storeMemory[q]
        BY <1>0, <1>1, <2>1, <3>0, StoreMemoryPut
      <3>2. StoreNumbers'
        BY <1>0, <3>0, <3>1 DEF StoreNumbers
      <3>3. StoreWritten(w)
        BY <1>1, <1>2, <3>0, <3>1 DEF StoreWritten, p, t
      <3> QED BY <1>0, <1>1, <3>0, <3>1, <3>2, <3>3 DEF StoreToldTyped, p, t, copy
    <2>2. CASE UNCHANGED storeMemory
      <3>1. StoreTablesTyped' /\ StoreNumbers'
        BY <1>0, <1>4, <2>2 DEF StoreTablesTyped, StoreNumbers
      <3>2. StoreWritten(w)
        BY <1>1, <1>2, <1>4, <2>2 DEF StoreWritten
      <3> QED BY <1>0, <1>1, <1>4, <2>2, <3>1, <3>2 DEF StoreToldTyped
    <2> QED BY <1>4, <2>1, <2>2
  <1> QED BY <1>3, <1>4 DEF Store!Persist

LEMMA StorePersistTInv ==
  ASSUME Store!StoreAssumption, StoreTInv, NEW w \in StoreWriters, Store!Persist(w)
  PROVE  StoreTInv'
  <1> USE DEF Store!starting
  <1>0. StoreStartTyped /\ StoreTablesTyped /\ StoreToldTyped /\ StoreCallsTyped
    BY StoreGroups DEF StoreTInv
  <1>1. StoreWritten(w) /\ StoreTablesTyped' /\ StoreNumbers' /\ storePromised' \in [StoreTasks -> 0..StoreMaxSeq]
    BY StorePersistEffect
  <1>2. /\ UNCHANGED <<storeFiles, storeStage, storeTodo, storeMoving, storeDeleted>> /\ Store!Unlock(w)
        /\ storeCall' = [storeCall EXCEPT ![w] = Store!Idle] /\ storeCall[w].op # "none"
    BY DEF Store!Persist
  <1>3. StoreCallsTyped' /\ StoreCalls'
    BY <1>1, <1>2, StoreEndsCall
  <1>4. StoreStartTyped'
    <2>1. storeFaults' \in 0..StoreMaxFaults
      BY <1>0, StoreFaultsTyped DEF Store!Persist, StoreStartTyped
    <2> QED BY <1>0, <1>2, <2>1 DEF StoreStartTyped
  <1>5. StoreBlank'
    <2> SUFFICES ASSUME NEW q \in Store!Procs, storeStage[q] \notin {"correct", "up"} PROVE storeMemory'[q] = Store!NoTasks
      BY <1>2 DEF StoreBlank
    <2>1. storeMemory[q] = Store!NoTasks /\ q # storeCall[w].of
      BY <1>2, StoreUnderWay DEF StoreTInv, StoreBlank
    <2>2. storeMemory[q] \in StoreRows /\ storeMemory'[q] \in StoreRows /\ \A u \in StoreTasks : storeMemory'[q][u] = storeMemory[q][u]
      BY <1>0, <1>1, <2>1 DEF StoreWritten, StoreTablesTyped
    <2>3. storeMemory'[q] = storeMemory[q]
      BY <2>2 DEF StoreRows
    <2> QED BY <2>1, <2>3
  <1>6. StoreToldTyped'
    <2>1. storeRaced' \subseteq StoreTasks
      <3>1. storeCall[w].id \in StoreTasks
        BY <1>2, StoreUnderWay
      <3> QED BY <1>0, <3>1, StorePersistEffect DEF Store!Race, StoreToldTyped
    <2>2. UNCHANGED storeUnread
      BY DEF Store!Persist
    <2> QED BY <1>0, <1>1, <1>2, <2>1, <2>2 DEF StoreToldTyped
  <1> QED BY <1>1, <1>3, <1>4, <1>5, <1>6, StoreGroups DEF StoreTInv

LEMMA StoreDeleteRowEffect ==
  ASSUME Store!StoreAssumption, StoreTInv, NEW w \in StoreWriters, Store!DeleteRow(w)
  PROVE  /\ StoreWritten(w) /\ StoreTablesTyped' /\ StoreNumbers' /\ UNCHANGED <<storeMemory, storePromised>>
         /\ storeMemory[storeCall[w].of][storeCall[w].id] = NoValue
         /\ \/ UNCHANGED <<storeRows, storeDeleted, storeRaced>>
            \/ /\ storeRows'[storeCall[w].id] = NoValue /\ storeDeleted' = storeDeleted \cup {storeCall[w].id}
               /\ Store!Race(w)
  <1>0. StoreTablesTyped /\ StoreCallsTyped /\ StoreNumbers
    BY StoreGroups DEF StoreTInv
  <1>1. /\ storeCall[w].of \in Store!Procs /\ storeCall[w].id \in StoreTasks /\ storeCall[w].op # "none"
        /\ storeMemory[storeCall[w].of][storeCall[w].id] = NoValue /\ UNCHANGED storeMemory
        /\ \A v \in StoreWriters \ {w} : storeCall[v].op # "none" => storeCall[v].of # storeCall[w].of
    BY StoreUnderWay DEF Store!DeleteRow
  <1>2. storeCall'[w] = Store!Idle /\ \A v \in StoreWriters \ {w} : storeCall'[v] = storeCall[v]
    BY <1>0 DEF Store!DeleteRow, StoreCallsTyped
  <1>3. CASE /\ storeRows' = [storeRows EXCEPT ![storeCall[w].id] = NoValue]
             /\ storeDeleted' = storeDeleted \cup {storeCall[w].id} /\ Store!Race(w)
    <2>1. /\ StoreTablesTyped' /\ StoreNumbers' /\ storeRows'[storeCall[w].id] = NoValue
          /\ \A u \in StoreTasks \ {storeCall[w].id} : storeRows'[u] = storeRows[u]
      <3> DEFINE t == storeCall[w].id
      <3>1. t \in StoreTasks /\ storeRows' = [storeRows EXCEPT ![t] = NoValue] /\ UNCHANGED storeMemory
        BY <1>1, <1>3
      <3> HIDE DEF t
      <3>2. StoreTablesTyped' /\ StoreNumbers' /\ storeRows'[t] = NoValue /\ \A u \in StoreTasks \ {t} : storeRows'[u] = storeRows[u]
        BY <1>0, <3>1, StoreRowPut
      <3> QED BY <3>2 DEF t
    <2> QED BY <1>1, <1>2, <1>3, <2>1 DEF StoreWritten, Store!DeleteRow
  <1>4. CASE UNCHANGED <<storeRows, storeDeleted, storeRaced>>
    <2>1. StoreTablesTyped' /\ StoreNumbers'
      BY <1>0, <1>1, <1>4 DEF StoreTablesTyped, StoreNumbers
    <2> QED BY <1>1, <1>2, <1>4, <2>1 DEF StoreWritten, Store!DeleteRow
  <1> QED BY <1>3, <1>4 DEF Store!DeleteRow

LEMMA StoreDeleteRowTInv ==
  ASSUME Store!StoreAssumption, StoreTInv, NEW w \in StoreWriters, Store!DeleteRow(w)
  PROVE  StoreTInv'
  <1> USE DEF Store!starting
  <1>0. StoreStartTyped /\ StoreTablesTyped /\ StoreToldTyped /\ StoreCallsTyped
    BY StoreGroups DEF StoreTInv
  <1>1. StoreWritten(w) /\ StoreTablesTyped' /\ StoreNumbers' /\ UNCHANGED <<storeMemory, storePromised>>
    BY StoreDeleteRowEffect
  <1>2. /\ UNCHANGED <<storeFiles, storeStage, storeTodo, storeMoving>> /\ Store!Unlock(w)
        /\ storeCall' = [storeCall EXCEPT ![w] = Store!Idle] /\ storeCall[w].op # "none"
    BY DEF Store!DeleteRow
  <1>3. StoreCallsTyped' /\ StoreCalls'
    BY <1>1, <1>2, StoreEndsCall
  <1>4. StoreStartTyped'
    <2>1. storeFaults' \in 0..StoreMaxFaults
      BY <1>0, StoreFaultsTyped DEF Store!DeleteRow, StoreStartTyped
    <2> QED BY <1>0, <1>2, <2>1 DEF StoreStartTyped
  <1>5. StoreBlank'
    BY <1>1, <1>2 DEF StoreTInv, StoreBlank
  <1>6. StoreToldTyped'
    <2>1. storeCall[w].id \in StoreTasks
      BY <1>2, StoreUnderWay
    <2>2. storeDeleted' \subseteq StoreTasks /\ storeRaced' \subseteq StoreTasks
      BY <1>0, <2>1, StoreDeleteRowEffect DEF Store!Race, StoreToldTyped
    <2>3. UNCHANGED storeUnread
      BY DEF Store!DeleteRow
    <2> QED BY <1>0, <1>1, <2>2, <2>3 DEF StoreToldTyped
  <1> QED BY <1>1, <1>3, <1>4, <1>5, <1>6, StoreGroups DEF StoreTInv

LEMMA StoreNextTInv == Store!StoreAssumption /\ StoreTInv /\ [Store!Next]_(Store!storeVars) => StoreTInv'
  <1> SUFFICES ASSUME Store!StoreAssumption, StoreTInv, [Store!Next]_(Store!storeVars) PROVE StoreTInv'
    OBVIOUS
  <1>1. ASSUME NEW p \in Store!Procs, Store!StartStep(p) PROVE StoreTInv'
    BY <1>1, StoreStartTInv, StoreArchiveTInv, StoreLoadTInv, StoreServeTInv, StoreEndTInv,
       StoreImportTInv, StoreCorrectTInv DEF Store!StartStep
  <1>2. ASSUME NEW w \in StoreWriters, Store!CallStep(w) PROVE StoreTInv'
    BY <1>2, StorePersistTInv, StoreDeleteRowTInv, StoreCreateTInv, StoreUpdateTInv,
       StoreDeleteTInv DEF Store!CallStep
  <1>3. CASE UNCHANGED Store!storeVars
    <2>1. UNCHANGED <<storeFiles, storeRows, storeStage, storeTodo, storeMoving, storeMemory, storeLock, storeCall,
                   storePromised, storeDeleted, storeRaced, storeUnread, storeFaults>>
      BY <1>3 DEF Store!storeVars, Store!disk, Store!starting, Store!told, Store!history
    <2>2. StoreNumbers' /\ StoreBlank' /\ StoreCalls' /\ Store!TypeOK'
      BY <2>1 DEF StoreTInv, StoreNumbers, StoreBlank, StoreCalls, Store!TypeOK
    <2> QED BY <2>2 DEF StoreTInv
  <1> QED BY <1>1, <1>2, <1>3 DEF Store!Next


\* Numbers that follow one another rise, and the next is above them.
LEMMA StoreNumbersRise ==
  ASSUME Store!StoreAssumption, StoreTInv
  PROVE  Store!EventsAreNumbered
  <1>1. ASSUME NEW task \in Store!Task, StoreNumbered(task)
        PROVE  /\ \A i, j \in DOMAIN task.events : i < j => task.events[i] < task.events[j]
               /\ task.next = 0 \/ task.next > Store!Newest(task.events)
    <2>1. Store!Newest(task.events) \in 0..StoreMaxSeq
      <3>1. task.events \in Seq(1..StoreMaxSeq) /\ StoreRising(task.events)
        BY <1>1 DEF Store!Task, StoreNumbered, StoreRising
      <3> QED BY <3>1, StoreNewestIsLast
    <2>2. StoreMaxSeq \in Nat
      BY DEF Store!StoreAssumption
    <2> QED BY <1>1, <2>1, <2>2 DEF StoreNumbered
  <1>2. StoreTablesTyped /\ StoreNumbers
    BY StoreGroups DEF StoreTInv
  <1>3. \A task \in ({storeRows[t] : t \in StoreTasks} \cup {storeMemory[p][t] : p \in Store!Procs, t \in StoreTasks}) \ {NoValue} :
           task \in Store!Task /\ StoreNumbered(task)
    BY <1>2 DEF StoreTablesTyped, StoreRows, StoreNumbers
  <1> QED BY <1>1, <1>3 DEF Store!EventsAreNumbered

-----------------------------------------------------------------------------
(* What was promised. A task that no two processes wrote at once follows the   *)
(* memory of one of them; the others hold what they loaded, which the table    *)
(* had when it was promised.                                                   *)

LEMMA StoreNewestOf ==
  ASSUME Store!StoreAssumption, NEW task \in Store!Task, StoreNumbered(task)
  PROVE  Store!Newest(task.events) \in Nat
  <1>1. task.events \in Seq(1..StoreMaxSeq) /\ StoreRising(task.events)
    BY DEF Store!Task, StoreNumbered, StoreRising
  <1>2. Store!Newest(task.events) \in 0..StoreMaxSeq /\ StoreMaxSeq \in Nat
    BY <1>1, StoreNewestIsLast DEF Store!StoreAssumption
  <1> QED BY <1>2

\* Only the process that takes a step changes what it has yet to correct.
LEMMA StoreCorrectedStays ==
  ASSUME StoreCorrected, NEW p \in Store!Procs,
         \A q \in Store!Procs \ {p} : storeStage'[q] = storeStage[q] /\ storeTodo'[q] = storeTodo[q],
         \A q \in Store!Procs \ {p}, t \in StoreTasks : storeMemory'[q][t] = storeMemory[q][t],
         storeStage'[p] = "correct" => \A t \in StoreTasks \cap storeTodo'[p] : storeMemory'[p][t] # NoValue
  PROVE  StoreCorrected'
  BY DEF StoreCorrected

LEMMA StoreInitKeptInv == Store!StoreAssumption /\ Store!Init => StoreKeptInv
  <1> SUFFICES ASSUME Store!StoreAssumption, Store!Init PROVE StoreKeptInv
    OBVIOUS
  <1>1. StoreTInv
    BY StoreInitTInv
  <1>2. StoreCorrected /\ Store!PromisesAreKept /\ StoreAhead
    BY DEF Store!Init, StoreCorrected, Store!PromisesAreKept, Store!Kept, StoreAhead, Store!NoTasks
  <1> QED BY <1>1, <1>2 DEF StoreKeptInv

LEMMA StoreStartKeptInv ==
  ASSUME Store!StoreAssumption, StoreKeptInv, NEW p \in Store!Procs, Store!Start(p)
  PROVE  StoreKeptInv'
  <1> USE DEF Store!Start, Store!disk, Store!CallsStay, Store!told
  <1>0. StoreTInv /\ StoreTInv' /\ StoreStartTyped
    BY StoreStartTInv, StoreGroups DEF StoreKeptInv, StoreTInv
  <1>1. storeStage'[p] = "migrate" /\ \A q \in Store!Procs \ {p} : storeStage'[q] = storeStage[q]
    BY <1>0, StoreStageMoves
  <1>2. \A q \in Store!Procs \ {p} : storeTodo'[q] = storeTodo[q]
    BY <1>0 DEF StoreStartTyped
  <1>3. StoreCorrected'
    BY <1>1, <1>2, StoreCorrectedStays DEF StoreKeptInv
  <1>4. Store!PromisesAreKept' /\ StoreAhead'
    BY DEF StoreKeptInv, Store!PromisesAreKept, Store!Kept, StoreAhead
  <1> QED BY <1>0, <1>3, <1>4 DEF StoreKeptInv

LEMMA StoreImportKeptInv ==
  ASSUME Store!StoreAssumption, StoreKeptInv, NEW p \in Store!Procs, NEW t \in StoreTasks, Store!Import(p, t)
  PROVE  /\ StoreKeptInv' /\ storeStage'[p] \in {"migrate", "gone"}
         /\ \A q \in Store!Procs \ {p} : storeStage'[q] = storeStage[q] /\ storeTodo'[q] = storeTodo[q]
  <1> USE DEF Store!Import, Store!disk, Store!CallsStay, Store!told
  <1>0. StoreTInv /\ StoreTInv' /\ StoreStartTyped /\ StoreTablesTyped
    BY StoreImportTInv, StoreGroups DEF StoreKeptInv, StoreTInv
  <1>1. storeStage'[p] \in {"migrate", "gone"} /\ \A q \in Store!Procs \ {p} : storeStage'[q] = storeStage[q]
    <2>1. CASE UNCHANGED storeStage
      BY <2>1
    <2>2. CASE Store!Becomes(p, "gone")
      BY <1>0, <2>2, StoreStageMoves
    <2> QED BY <2>1, <2>2
  <1>2. \A q \in Store!Procs \ {p} : storeTodo'[q] = storeTodo[q]
    BY <1>0 DEF StoreStartTyped, Store!Visited
  <1>3. StoreCorrected'
    BY <1>1, <1>2, StoreCorrectedStays DEF StoreKeptInv
  <1>4. Store!PromisesAreKept'
    <2>1. \A u \in StoreTasks : storeRows[u] # NoValue => storeRows'[u] = storeRows[u]
      BY <1>0 DEF StoreTablesTyped, StoreRows
    <2> QED BY <2>1 DEF StoreKeptInv, Store!PromisesAreKept, Store!Kept
  <1>5. StoreAhead'
    BY DEF StoreKeptInv, StoreAhead
  <1> QED BY <1>0, <1>1, <1>2, <1>3, <1>4, <1>5 DEF StoreKeptInv

LEMMA StoreArchiveKeptInv ==
  ASSUME Store!StoreAssumption, StoreKeptInv, NEW p \in Store!Procs, Store!Archive(p)
  PROVE  /\ StoreKeptInv' /\ storeStage'[p] \in {"migrate", "gone"}
         /\ \A q \in Store!Procs \ {p} : storeStage'[q] = storeStage[q]
  <1> USE DEF Store!Archive, Store!CallsStay, Store!told
  <1>0. StoreTInv /\ StoreTInv' /\ StoreStartTyped
    BY StoreArchiveTInv, StoreGroups DEF StoreKeptInv, StoreTInv
  <1>1. storeStage'[p] \in {"migrate", "gone"} /\ \A q \in Store!Procs \ {p} : storeStage'[q] = storeStage[q]
    <2>1. CASE UNCHANGED storeStage
      BY <2>1
    <2>2. CASE Store!Becomes(p, "gone")
      BY <1>0, <2>2, StoreStageMoves
    <2> QED BY <2>1, <2>2
  <1>2. StoreCorrected'
    BY <1>1, StoreCorrectedStays DEF StoreKeptInv
  <1>3. Store!PromisesAreKept' /\ StoreAhead'
    BY DEF StoreKeptInv, Store!PromisesAreKept, Store!Kept, StoreAhead
  <1> QED BY <1>0, <1>1, <1>2, <1>3 DEF StoreKeptInv

\* What load sets out to correct is in its memory.
LEMMA StoreLoadCorrects ==
  ASSUME Store!StoreAssumption, StoreTInv, NEW p \in Store!Procs, Store!Load(p), storeStage'[p] = "correct"
  PROVE  StoreLoads(p) /\ \A t \in storeTodo'[p] : t \in StoreTasks /\ storeRows[t] # NoValue
  <1>0. StoreStartTyped
    BY StoreGroups DEF StoreTInv
  <1>1. storeStage[p] = "migrate" /\ ~Store!Becomes(p, "gone")
    <2>1. Store!Becomes(p, "gone") => storeStage'[p] = "gone"
      BY <1>0, StoreStageMoves
    <2> QED BY <2>1 DEF Store!Load
  <1>2. StoreLoads(p)
    BY StoreLoadCases
  <1>3. PICK planned : storeTodo' = [storeTodo EXCEPT ![p] =
                          {t \in StoreTasks \ planned : storeRows[t] # NoValue /\ storeRows[t].live}]
    BY <1>1 DEF Store!Load
  <1> QED BY <1>0, <1>2, <1>3 DEF StoreStartTyped

LEMMA StoreLoadKeptInv ==
  ASSUME Store!StoreAssumption, StoreKeptInv, NEW p \in Store!Procs, Store!Load(p)
  PROVE  StoreKeptInv'
  <1>0. StoreTInv /\ StoreTInv' /\ StoreTablesTyped /\ StoreNumbers /\ StoreToldTyped /\ StoreStartTyped
    BY StoreLoadTInv, StoreGroups DEF StoreKeptInv, StoreTInv
  <1>1. /\ UNCHANGED <<storeRows, storePromised, storeDeleted, storeRaced>>
        /\ \A q \in Store!Procs \ {p} : storeTodo'[q] = storeTodo[q]
    BY <1>0 DEF Store!Load, Store!disk, Store!told, Store!history, StoreStartTyped
  <1>2. /\ \A q \in Store!Procs \ {p} : storeStage'[q] = storeStage[q] /\ storeMemory'[q] = storeMemory[q]
        /\ UNCHANGED storeMemory \/ StoreLoads(p)
    BY <1>0, StoreLoadCases DEF StoreLoads
  <1>3. ASSUME StoreLoads(p), NEW t \in StoreTasks
        PROVE  /\ storeMemory'[p][t] = NoValue <=> storeRows[t] = NoValue
               /\ storeRows[t] # NoValue => storeMemory'[p][t].events = storeRows[t].events
    <2>1. storeRows[t] # NoValue => StoreEnded(storeRows[t]) # NoValue /\ StoreEnded(storeRows[t]).events = storeRows[t].events
      BY <1>0, StoreTasks0, StoreEndedKeeps DEF StoreTablesTyped, StoreRows, StoreEnded
    <2> QED BY <1>3, <2>1 DEF StoreLoads
  <1>4. StoreCorrected'
    <2>1. ASSUME storeStage'[p] = "correct", NEW t \in StoreTasks \cap storeTodo'[p] PROVE storeMemory'[p][t] # NoValue
      BY <1>0, <1>3, <2>1, StoreLoadCorrects
    <2> QED BY <1>1, <1>2, <2>1, StoreCorrectedStays DEF StoreKeptInv
  <1>5. Store!PromisesAreKept'
    BY <1>1 DEF StoreKeptInv, Store!PromisesAreKept, Store!Kept
  <1>6. StoreAhead'
    <2>1. CASE UNCHANGED storeMemory
      BY <1>1, <2>1 DEF StoreKeptInv, StoreAhead
    <2>2. CASE StoreLoads(p)
      <3>1. ASSUME NEW t \in StoreTasks \ (storeDeleted \cup storeRaced), storeMemory'[p][t] # NoValue
            PROVE  Store!Newest(storeMemory'[p][t].events) >= storePromised[t]
        <4>1. storeRows[t] # NoValue /\ storeMemory'[p][t].events = storeRows[t].events
          BY <1>3, <2>2, <3>1
        <4>2. Store!Newest(storeRows[t].events) \in Nat /\ storePromised[t] \in 0..StoreMaxSeq /\ StoreMaxSeq \in Nat
          BY <1>0, <4>1, StoreNewestOf DEF StoreTablesTyped, StoreRows, StoreNumbers,
             StoreToldTyped, Store!StoreAssumption
        <4>3. storePromised[t] > 0 => Store!Newest(storeRows[t].events) >= storePromised[t]
          BY <3>1 DEF StoreKeptInv, Store!PromisesAreKept, Store!Kept
        <4> QED BY <4>1, <4>2, <4>3
      <3> QED BY <1>1, <1>2, <3>1 DEF StoreKeptInv, StoreAhead
    <2> QED BY <1>2, <2>1, <2>2
  <1> QED BY <1>0, <1>4, <1>5, <1>6 DEF StoreKeptInv

LEMMA StoreCorrectKeptInv ==
  ASSUME Store!StoreAssumption, StoreKeptInv, NEW p \in Store!Procs, NEW t \in StoreTasks, Store!Correct(p, t)
  PROVE  /\ StoreKeptInv' /\ storeMemory[p][t] # NoValue
         /\ \A u \in StoreTasks : storeRows'[u] = storeRows[u] \/ (u = t /\ storeRows'[u] = storeMemory[p][u])
  <1> USE DEF Store!Correct, Store!CallsStay, Store!told
  <1>0. StoreTInv /\ StoreTInv' /\ StoreTablesTyped /\ StoreStartTyped
    BY StoreCorrectTInv, StoreGroups DEF StoreKeptInv, StoreTInv
  <1>1. \A u \in StoreTasks : storeRows'[u] = storeRows[u] \/ (u = t /\ storeRows'[u] = storeMemory[p][u])
    BY <1>0 DEF StoreTablesTyped, StoreRows
  <1>2. storeMemory[p][t] # NoValue
    BY DEF StoreKeptInv, StoreCorrected
  <1>3. StoreCorrected'
    <2>1. storeTodo'[p] \subseteq storeTodo[p] /\ \A q \in Store!Procs \ {p} : storeTodo'[q] = storeTodo[q]
      BY <1>0 DEF StoreStartTyped, Store!Visited
    <2> QED BY <2>1 DEF StoreKeptInv, StoreCorrected
  <1>4. Store!PromisesAreKept'
    <2> SUFFICES ASSUME NEW u \in StoreTasks \ (storeDeleted \cup storeRaced), storePromised[u] > 0
                 PROVE  storeRows'[u] # NoValue /\ Store!Newest(storeRows'[u].events) >= storePromised[u]
      BY DEF Store!PromisesAreKept, Store!Kept
    <2>1. CASE storeRows'[u] = storeRows[u]
      BY <2>1 DEF StoreKeptInv, Store!PromisesAreKept, Store!Kept
    <2>2. CASE u = t /\ storeRows'[u] = storeMemory[p][u]
      BY <1>2, <2>2 DEF StoreKeptInv, StoreAhead
    <2> QED BY <1>1, <2>1, <2>2
  <1>5. StoreAhead'
    BY DEF StoreKeptInv, StoreAhead
  <1> QED BY <1>0, <1>1, <1>2, <1>3, <1>4, <1>5 DEF StoreKeptInv

LEMMA StoreServeKeptInv ==
  ASSUME Store!StoreAssumption, StoreKeptInv, NEW p \in Store!Procs, Store!Serve(p)
  PROVE  StoreKeptInv' /\ \A q \in Store!Procs \ {p} : storeStage'[q] = storeStage[q]
  <1> USE DEF Store!Serve, Store!CallsStay, Store!told, Store!disk
  <1>0. StoreTInv /\ StoreTInv' /\ StoreStartTyped
    BY StoreServeTInv, StoreGroups DEF StoreKeptInv, StoreTInv
  <1>1. storeStage'[p] = "up" /\ \A q \in Store!Procs \ {p} : storeStage'[q] = storeStage[q]
    BY <1>0, StoreStageMoves
  <1>2. StoreCorrected'
    BY <1>1, StoreCorrectedStays DEF StoreKeptInv
  <1>3. Store!PromisesAreKept' /\ StoreAhead'
    BY DEF StoreKeptInv, Store!PromisesAreKept, Store!Kept, StoreAhead
  <1> QED BY <1>0, <1>1, <1>2, <1>3 DEF StoreKeptInv

LEMMA StoreEndKeptInv ==
  ASSUME Store!StoreAssumption, StoreKeptInv, NEW p \in Store!Procs, Store!End(p)
  PROVE  /\ StoreKeptInv' /\ storeStage'[p] = "gone" /\ storeMemory'[p] = Store!NoTasks
         /\ \A q \in Store!Procs \ {p} : storeMemory'[q] = storeMemory[q] /\ storeStage'[q] = storeStage[q]
  <1> USE DEF Store!End, Store!told, Store!disk, Store!history
  <1>0. StoreTInv /\ StoreTInv' /\ StoreStartTyped /\ StoreTablesTyped
    BY StoreEndTInv, StoreGroups DEF StoreKeptInv, StoreTInv
  <1>1. storeStage'[p] = "gone" /\ \A q \in Store!Procs \ {p} : storeStage'[q] = storeStage[q]
    BY <1>0, StoreStageMoves
  <1>2. storeMemory'[p] = Store!NoTasks /\ \A q \in Store!Procs \ {p} : storeMemory'[q] = storeMemory[q]
    BY <1>0 DEF StoreTablesTyped
  <1>3. StoreCorrected'
    <2>1. \A q \in Store!Procs \ {p} : storeTodo'[q] = storeTodo[q]
      BY <1>0 DEF StoreStartTyped
    <2> QED BY <1>1, <1>2, <2>1, StoreCorrectedStays DEF StoreKeptInv
  <1>4. Store!PromisesAreKept'
    BY DEF StoreKeptInv, Store!PromisesAreKept, Store!Kept
  <1>5. StoreAhead'
    BY <1>2 DEF StoreKeptInv, StoreAhead, Store!NoTasks
  <1> QED BY <1>0, <1>1, <1>2, <1>3, <1>4, <1>5 DEF StoreKeptInv

\* A call that begins.
LEMMA StoreTakenKeptInv ==
  ASSUME Store!StoreAssumption, StoreKeptInv, StoreTInv', NEW w \in StoreWriters, NEW p \in Store!Procs, NEW t \in StoreTasks, NEW op,
         NEW task \in Store!Task \cup {NoValue}, Store!Takes(w, p, op, t, task), StoreTaken(w, p, op, t, task),
         task # NoValue => t \in storeDeleted \cup storeRaced \/ Store!Newest(task.events) >= storePromised[t]
  PROVE  StoreKeptInv'
  <1> USE DEF Store!Takes, Store!disk, Store!starting, Store!told, Store!history
  <1>1. StoreCorrected'
    BY StoreCorrectedStays DEF StoreKeptInv, StoreTaken
  <1>2. Store!PromisesAreKept'
    BY DEF StoreKeptInv, Store!PromisesAreKept, Store!Kept
  <1>3. StoreAhead'
    BY DEF StoreKeptInv, StoreAhead, StoreTaken
  <1> QED BY <1>1, <1>2, <1>3 DEF StoreKeptInv

LEMMA StoreCreateKeptInv ==
  ASSUME Store!StoreAssumption, StoreKeptInv, NEW w \in StoreWriters, NEW p \in Store!Procs, NEW t \in StoreTasks, Store!Create(w, p, t)
  PROVE  StoreKeptInv' /\ StoreTaken(w, p, "insert", t, Store!NewTask)
  <1>1. StoreTInv' /\ StoreTaken(w, p, "insert", t, Store!NewTask)
    BY StoreCreateTInv DEF StoreKeptInv
  <1>2. /\ Store!NewTask \in Store!Task \cup {NoValue} /\ Store!Takes(w, p, "insert", t, Store!NewTask)
        /\ Store!Newest(Store!NewTask.events) >= storePromised[t]
    BY StoreTasks0 DEF Store!Create
  <1> QED BY <1>1, <1>2, StoreTakenKeptInv

LEMMA StoreUpdateKeptInv ==
  ASSUME Store!StoreAssumption, StoreKeptInv, NEW w \in StoreWriters, NEW p \in Store!Procs, NEW t \in StoreTasks, Store!Update(w, p, t)
  PROVE  StoreKeptInv'
  <1>1. StoreTInv'
    BY StoreUpdateTInv DEF StoreKeptInv
  <1>2. PICK new \in Store!Task : StoreUpdates(w, p, t, new) /\ StoreTaken(w, p, "update", t, new)
    BY StoreUpdateTInv DEF StoreKeptInv
  <1>3. t \in storeDeleted \cup storeRaced \/ Store!Newest(new.events) >= storePromised[t]
    <2>1. storeMemory[p][t] \in Store!Task /\ storeMemory[p][t] # NoValue
      BY <1>2, StoreTasks0 DEF StoreUpdates
    <2>2. t \in storeDeleted \cup storeRaced \/ Store!Newest(storeMemory[p][t].events) >= storePromised[t]
      BY <2>1 DEF StoreKeptInv, StoreAhead
    <2>3. storePromised[t] \in 0..StoreMaxSeq /\ StoreMaxSeq \in Nat
      BY StoreGroups DEF StoreKeptInv, StoreTInv, StoreToldTyped, Store!StoreAssumption
    <2> QED BY <1>2, <2>2, <2>3 DEF StoreUpdates
  <1>4. Store!Takes(w, p, "update", t, new)
    BY <1>2 DEF StoreUpdates
  <1> QED BY <1>1, <1>2, <1>3, <1>4, StoreTakenKeptInv

LEMMA StoreDeleteKeptInv ==
  ASSUME Store!StoreAssumption, StoreKeptInv, NEW w \in StoreWriters, NEW p \in Store!Procs, NEW t \in StoreTasks, Store!Delete(w, p, t)
  PROVE  StoreKeptInv' /\ StoreTaken(w, p, "delete", t, NoValue)
  <1>1. StoreTInv' /\ StoreTaken(w, p, "delete", t, NoValue)
    BY StoreDeleteTInv DEF StoreKeptInv
  <1>2. Store!Takes(w, p, "delete", t, NoValue)
    BY DEF Store!Delete
  <1> QED BY <1>1, <1>2, StoreTakenKeptInv

\* A task that a write does not mark is in the memory of no other process.
LEMMA StoreUnraced ==
  ASSUME Store!StoreAssumption, StoreTInv, NEW w \in StoreWriters, storeCall[w].op # "none", Store!Race(w),
         storeCall[w].id \notin storeRaced'
  PROVE  \A q \in Store!Procs \ {storeCall[w].of}, u \in StoreTasks : storeMemory[q][u] = NoValue
  <1>1. \A q \in Store!Procs \ {storeCall[w].of} : storeStage[q] \notin {"correct", "up"}
    BY DEF Store!Race
  <1> QED BY <1>1 DEF StoreTInv, StoreBlank, Store!NoTasks

\* It is the newest version that is written and promised.
LEMMA StorePersistKeptInv ==
  ASSUME Store!StoreAssumption, StoreKeptInv, NEW w \in StoreWriters, Store!Persist(w)
  PROVE  StoreKeptInv'
  <1> DEFINE p == storeCall[w].of
             t == storeCall[w].id
             copy == storeCall[w].copy
             new == Store!Newest(copy.events)
  <1>0. StoreTInv /\ StoreTInv' /\ StoreToldTyped
    BY StorePersistTInv, StoreGroups DEF StoreKeptInv, StoreTInv
  <1>1. /\ p \in Store!Procs /\ t \in StoreTasks /\ storeStage[p] = "up" /\ storeMemory[p][t] = copy
        /\ copy \in Store!Task /\ copy # NoValue /\ StoreNumbered(copy) /\ storeCall[w].op # "none"
    BY <1>0, StoreUnderWay, StorePersistEffect DEF Store!Persist
  <1>2. UNCHANGED <<storeStage, storeTodo, storeDeleted>>
    BY DEF Store!Persist, Store!starting
  <1>3. \A q \in Store!Procs, u \in StoreTasks : (q # p \/ u # t) => storeMemory'[q][u] = storeMemory[q][u]
    BY <1>0, StorePersistEffect DEF StoreWritten
  <1>4. \A u \in StoreTasks \ {t} : storeRows'[u] = storeRows[u]
    BY <1>0, StorePersistEffect DEF StoreWritten
  <1>5. \/ /\ storeRows'[t] = copy /\ UNCHANGED storeMemory /\ Store!Race(w)
           /\ storePromised'[t] = IF new > storePromised[t] THEN new ELSE storePromised[t]
           /\ \A u \in StoreTasks \ {t} : storePromised'[u] = storePromised[u]
        \/ /\ UNCHANGED <<storeRows, storePromised, storeRaced>>
           /\ UNCHANGED storeMemory \/ storeMemory'[p][t] = NoValue
    BY <1>0, StorePersistEffect
  <1>6. Store!Race(w) /\ t \notin storeRaced' => \A q \in Store!Procs \ {p} : storeMemory[q][t] = NoValue
    BY <1>0, <1>1, StoreUnraced
  <1>7. Store!Race(w) => storeRaced \subseteq storeRaced'
    BY DEF Store!Race
  <1>8. new \in Nat /\ storePromised[t] \in Nat
    <2>1. new \in Nat
      BY <1>1, StoreNewestOf
    <2>2. storePromised[t] \in 0..StoreMaxSeq /\ StoreMaxSeq \in Nat
      BY <1>0, <1>1 DEF StoreToldTyped, Store!StoreAssumption
    <2> QED BY <2>1, <2>2
  <1>9. t \in storeDeleted \cup storeRaced \/ new >= storePromised[t]
    BY <1>1 DEF StoreKeptInv, StoreAhead
  <1> HIDE DEF p, t, copy
  <1>10. StoreCorrected'
    BY <1>1, <1>2, <1>3, StoreCorrectedStays DEF StoreKeptInv
  <1>11. CASE UNCHANGED <<storeRows, storePromised, storeRaced>> /\ (UNCHANGED storeMemory \/ storeMemory'[p][t] = NoValue)
    <2>1. Store!PromisesAreKept'
      BY <1>2, <1>11 DEF StoreKeptInv, Store!PromisesAreKept, Store!Kept
    <2>2. StoreAhead'
      <3> SUFFICES ASSUME NEW q \in Store!Procs, NEW u \in StoreTasks \ (storeDeleted \cup storeRaced), storeMemory'[q][u] # NoValue
                   PROVE  Store!Newest(storeMemory'[q][u].events) >= storePromised[u]
        BY <1>2, <1>11 DEF StoreAhead
      <3>1. storeMemory'[q][u] = storeMemory[q][u]
        BY <1>3, <1>11
      <3> QED BY <3>1 DEF StoreKeptInv, StoreAhead
    <2> QED BY <1>0, <1>10, <2>1, <2>2 DEF StoreKeptInv
  <1>12. CASE /\ storeRows'[t] = copy /\ UNCHANGED storeMemory /\ Store!Race(w)
              /\ storePromised'[t] = IF new > storePromised[t] THEN new ELSE storePromised[t]
              /\ \A u \in StoreTasks \ {t} : storePromised'[u] = storePromised[u]
    <2>1. t \in storeDeleted \cup storeRaced' \/ (new >= storePromised'[t] /\ storePromised'[t] \in Nat)
      BY <1>7, <1>8, <1>9, <1>12
    <2>2. Store!PromisesAreKept'
      <3> SUFFICES ASSUME NEW u \in StoreTasks \ (storeDeleted \cup storeRaced'), storePromised'[u] > 0
                   PROVE  storeRows'[u] # NoValue /\ Store!Newest(storeRows'[u].events) >= storePromised'[u]
        BY <1>2 DEF Store!PromisesAreKept, Store!Kept
      <3>1. CASE u = t
        BY <1>1, <1>12, <2>1, <3>1
      <3>2. CASE u # t
        BY <1>4, <1>7, <1>12, <3>2 DEF StoreKeptInv, Store!PromisesAreKept, Store!Kept
      <3> QED BY <3>1, <3>2
    <2>3. StoreAhead'
      <3> SUFFICES ASSUME NEW q \in Store!Procs, NEW u \in StoreTasks \ (storeDeleted \cup storeRaced'), storeMemory[q][u] # NoValue
                   PROVE  Store!Newest(storeMemory[q][u].events) >= storePromised'[u]
        BY <1>2, <1>12 DEF StoreAhead
      <3>1. CASE u = t
        BY <1>1, <1>6, <1>12, <2>1, <3>1
      <3>2. CASE u # t
        BY <1>7, <1>12, <3>2 DEF StoreKeptInv, StoreAhead
      <3> QED BY <3>1, <3>2
    <2> QED BY <1>0, <1>10, <2>2, <2>3 DEF StoreKeptInv
  <1> QED BY <1>5, <1>11, <1>12

LEMMA StoreDeleteRowKeptInv ==
  ASSUME Store!StoreAssumption, StoreKeptInv, NEW w \in StoreWriters, Store!DeleteRow(w)
  PROVE  StoreKeptInv'
  <1>0. StoreTInv /\ StoreTInv'
    BY StoreDeleteRowTInv DEF StoreKeptInv
  <1>1. UNCHANGED <<storeStage, storeTodo, storeMemory, storePromised>>
    BY DEF Store!DeleteRow, Store!starting
  <1>2. StoreCorrected'
    BY <1>1 DEF StoreKeptInv, StoreCorrected
  <1>3. /\ storeDeleted \subseteq storeDeleted' /\ storeRaced \subseteq storeRaced'
        /\ \A u \in StoreTasks \ storeDeleted' : storeRows'[u] = storeRows[u]
    BY <1>0, StoreDeleteRowEffect DEF StoreWritten, Store!Race
  <1>4. Store!PromisesAreKept' /\ StoreAhead'
    BY <1>1, <1>3 DEF StoreKeptInv, Store!PromisesAreKept, Store!Kept, StoreAhead
  <1> QED BY <1>0, <1>2, <1>4 DEF StoreKeptInv

LEMMA StoreNextKeptInv == Store!StoreAssumption /\ StoreKeptInv /\ [Store!Next]_(Store!storeVars) => StoreKeptInv'
  <1> SUFFICES ASSUME Store!StoreAssumption, StoreKeptInv, [Store!Next]_(Store!storeVars) PROVE StoreKeptInv'
    OBVIOUS
  <1>1. ASSUME NEW p \in Store!Procs, Store!StartStep(p) PROVE StoreKeptInv'
    BY <1>1, StoreStartKeptInv, StoreArchiveKeptInv, StoreLoadKeptInv, StoreServeKeptInv,
       StoreEndKeptInv, StoreImportKeptInv, StoreCorrectKeptInv DEF Store!StartStep
  <1>2. ASSUME NEW w \in StoreWriters, Store!CallStep(w) PROVE StoreKeptInv'
    BY <1>2, StorePersistKeptInv, StoreDeleteRowKeptInv, StoreCreateKeptInv, StoreUpdateKeptInv,
       StoreDeleteKeptInv DEF Store!CallStep
  <1>3. CASE UNCHANGED Store!storeVars
    <2>1. UNCHANGED <<storeRows, storeStage, storeTodo, storeMemory, storePromised, storeDeleted, storeRaced>>
      BY <1>3 DEF Store!storeVars, Store!disk, Store!starting, Store!told, Store!history
    <2>2. StoreCorrected' /\ Store!PromisesAreKept' /\ StoreAhead'
      BY <2>1 DEF StoreKeptInv, StoreCorrected, Store!PromisesAreKept, Store!Kept, StoreAhead
    <2>3. StoreTInv'
      BY StoreNextTInv DEF StoreKeptInv
    <2> QED BY <2>2, <2>3 DEF StoreKeptInv
  <1> QED BY <1>1, <1>2, <1>3 DEF Store!Next

-----------------------------------------------------------------------------
(* What was deleted stays away: no process holds it, and no file of it is left *)
(* that a start could read.                                                    *)

\* The files stay done when one process takes a step, if it ends, is where it was, or
\* had already imported what it could.
LEMMA StoreFilesStay ==
  ASSUME StoreFilesAreDone, UNCHANGED <<storeFiles, storeDeleted, storeUnread>>, NEW p \in Store!Procs,
         \A q \in Store!Procs \ {p} :
            storeStage'[q] = storeStage[q] /\ storeTodo'[q] = storeTodo[q] /\ storeMoving'[q] = storeMoving[q],
         storeStage'[p] = "gone" \/ storeStage[p] \in {"correct", "up"}
  PROVE  StoreFilesAreDone'
  <1> SUFFICES ASSUME NEW t \in StoreTasks \ storeUnread, storeFiles[t] = "good"
               PROVE  /\ t \notin storeDeleted
                      /\ \A q \in Store!Procs :
                            /\ storeStage'[q] \notin {"correct", "up"}
                            /\ storeStage'[q] = "migrate" => t \in storeTodo'[q] \/ t = storeMoving'[q]
    BY DEF StoreFilesAreDone
  <1>1. t \notin storeDeleted /\ storeStage'[p] = "gone"
    BY DEF StoreFilesAreDone
  <1> QED BY <1>1 DEF StoreFilesAreDone

LEMMA StoreDeletedTyped ==
  ASSUME StoreTInv, NEW t \in storeDeleted
  PROVE  t \in StoreTasks
  BY StoreGroups DEF StoreTInv, StoreToldTyped

LEMMA StoreInitAwayInv == Store!StoreAssumption /\ Store!Init => StoreAwayInv
  <1> SUFFICES ASSUME Store!StoreAssumption, Store!Init PROVE StoreAwayInv
    OBVIOUS
  <1>1. StoreFilesAreDone /\ Store!DeletedStaysDeleted
    BY DEF Store!Init, StoreFilesAreDone, Store!DeletedStaysDeleted
  <1> QED BY <1>1, StoreInitKeptInv DEF StoreAwayInv

LEMMA StoreStartAwayInv ==
  ASSUME Store!StoreAssumption, StoreAwayInv, NEW p \in Store!Procs, Store!Start(p)
  PROVE  StoreAwayInv'
  <1> USE DEF Store!Start, Store!disk, Store!CallsStay, Store!told
  <1>0. StoreKeptInv' /\ StoreStartTyped
    BY StoreStartKeptInv, StoreGroups DEF StoreAwayInv, StoreKeptInv, StoreTInv
  <1>1. storeStage'[p] = "migrate" /\ \A q \in Store!Procs \ {p} : storeStage'[q] = storeStage[q]
    BY <1>0, StoreStageMoves
  <1>2. /\ storeTodo'[p] = {t \in StoreTasks : storeFiles[t] \in {"good", "bad"}}
        /\ \A q \in Store!Procs \ {p} : storeTodo'[q] = storeTodo[q]
    BY <1>0 DEF StoreStartTyped
  <1>3. StoreFilesAreDone'
    BY <1>1, <1>2 DEF StoreAwayInv, StoreFilesAreDone
  <1>4. Store!DeletedStaysDeleted'
    BY DEF StoreAwayInv, Store!DeletedStaysDeleted, Store!Gone
  <1> QED BY <1>0, <1>3, <1>4 DEF StoreAwayInv

LEMMA StoreImportAwayInv ==
  ASSUME Store!StoreAssumption, StoreAwayInv, NEW p \in Store!Procs, NEW t \in StoreTasks, Store!Import(p, t)
  PROVE  StoreAwayInv'
  <1> USE DEF Store!Import, Store!disk, Store!CallsStay, Store!told
  <1>0. /\ StoreKeptInv' /\ StoreTInv /\ StoreStartTyped /\ StoreTablesTyped /\ storeStage'[p] \in {"migrate", "gone"}
        /\ \A q \in Store!Procs \ {p} : storeStage'[q] = storeStage[q] /\ storeTodo'[q] = storeTodo[q]
    BY StoreImportKeptInv, StoreGroups DEF StoreAwayInv, StoreKeptInv, StoreTInv
  <1>1. /\ storeTodo'[p] = storeTodo[p] \ {t} /\ storeUnread \subseteq storeUnread'
        /\ \A q \in Store!Procs \ {p} : storeMoving'[q] = storeMoving[q]
    BY <1>0 DEF StoreStartTyped, Store!Visited
  <1>2. \A u \in StoreTasks : storeFiles'[u] = "good" => storeFiles[u] = "good"
    BY <1>0 DEF StoreStartTyped
  <1>3. storeStage'[p] = "migrate" /\ storeFiles'[t] = "good" => t \in storeUnread' \/ t = storeMoving'[p]
    <2>1. CASE storeMoving' = [storeMoving EXCEPT ![p] = t]
      BY <1>0, <2>1 DEF StoreStartTyped
    <2>2. CASE storeFiles[t] = "bad"
      BY <1>2, <2>2
    <2>3. CASE Store!Becomes(p, "gone")
      BY <1>0, <2>3, StoreStageMoves
    <2>4. CASE storeUnread' = storeUnread \cup {t}
      BY <2>4
    <2> QED BY <2>1, <2>2, <2>3, <2>4
  <1>4. StoreFilesAreDone'
    <2> SUFFICES ASSUME NEW u \in StoreTasks \ storeUnread', storeFiles'[u] = "good"
                 PROVE  /\ u \notin storeDeleted
                        /\ \A q \in Store!Procs :
                              /\ storeStage'[q] \notin {"correct", "up"}
                              /\ storeStage'[q] = "migrate" => u \in storeTodo'[q] \/ u = storeMoving'[q]
      BY DEF StoreFilesAreDone
    <2>1. /\ u \notin storeDeleted
          /\ \A q \in Store!Procs :
                /\ storeStage[q] \notin {"correct", "up"}
                /\ storeStage[q] = "migrate" => u \in storeTodo[q] \/ u = storeMoving[q]
      BY <1>1, <1>2 DEF StoreAwayInv, StoreFilesAreDone
    <2>2. storeStage'[p] = "migrate" => u \in storeTodo'[p] \/ u = storeMoving'[p]
      BY <1>1, <1>3, <2>1 DEF Store!StoreAssumption
    <2> QED BY <1>0, <1>1, <2>1, <2>2
  <1>5. Store!DeletedStaysDeleted'
    <2> SUFFICES ASSUME NEW u \in storeDeleted \ (storeRaced \cup storeUnread') PROVE storeRows'[u] = storeRows[u]
      BY <1>1 DEF StoreAwayInv, Store!DeletedStaysDeleted, Store!Gone
    <2>1. u \in StoreTasks /\ storeFiles[u] # "good"
      BY <1>0, <1>1, StoreDeletedTyped DEF StoreAwayInv, StoreFilesAreDone
    <2> QED BY <1>0, <2>1 DEF StoreTablesTyped, StoreRows
  <1> QED BY <1>0, <1>4, <1>5 DEF StoreAwayInv

LEMMA StoreArchiveAwayInv ==
  ASSUME Store!StoreAssumption, StoreAwayInv, NEW p \in Store!Procs, Store!Archive(p)
  PROVE  StoreAwayInv'
  <1> USE DEF Store!Archive, Store!CallsStay, Store!told
  <1>0. /\ StoreKeptInv' /\ StoreTInv /\ StoreStartTyped
        /\ \A q \in Store!Procs \ {p} : storeStage'[q] = storeStage[q]
    BY StoreArchiveKeptInv, StoreGroups DEF StoreAwayInv, StoreKeptInv, StoreTInv
  <1>1. \A q \in Store!Procs \ {p} : storeMoving'[q] = storeMoving[q]
    BY <1>0 DEF StoreStartTyped
  <1>2. StoreFilesAreDone'
    <2>1. CASE storeFiles' = [storeFiles EXCEPT ![storeMoving[p]] = "moved"] /\ UNCHANGED storeStage
      <3>1. storeMoving[p] \in StoreTasks
        BY <1>0 DEF StoreStartTyped
      <3>2. \A u \in StoreTasks : storeFiles'[u] = "good" => storeFiles[u] = "good" /\ u # storeMoving[p]
        BY <1>0, <2>1, <3>1 DEF StoreStartTyped
      <3> QED BY <1>1, <2>1, <3>2 DEF StoreAwayInv, StoreFilesAreDone
    <2>2. CASE UNCHANGED storeFiles /\ Store!Becomes(p, "gone")
      <3>1. storeStage'[p] = "gone"
        BY <1>0, <2>2, StoreStageMoves
      <3> QED BY <1>0, <1>1, <2>2, <3>1, StoreFilesStay DEF StoreAwayInv
    <2> QED BY <2>1, <2>2
  <1>3. Store!DeletedStaysDeleted'
    BY DEF StoreAwayInv, Store!DeletedStaysDeleted, Store!Gone
  <1> QED BY <1>0, <1>2, <1>3 DEF StoreAwayInv

LEMMA StoreLoadAwayInv ==
  ASSUME Store!StoreAssumption, StoreAwayInv, NEW p \in Store!Procs, Store!Load(p)
  PROVE  StoreAwayInv'
  <1> USE DEF Store!disk, Store!told, Store!history
  <1>0. StoreKeptInv' /\ StoreTInv
    BY StoreLoadKeptInv DEF StoreAwayInv, StoreKeptInv
  <1>1. /\ UNCHANGED <<storeFiles, storeRows, storeDeleted, storeRaced, storeUnread>>
        /\ storeStage[p] = "migrate" /\ storeMoving[p] = NoValue /\ storeTodo[p] = {}
    BY DEF Store!Load
  <1>2. \A t \in StoreTasks \ storeUnread : storeFiles[t] # "good"
    BY <1>1 DEF StoreAwayInv, StoreFilesAreDone, Store!StoreAssumption
  <1>3. StoreFilesAreDone'
    BY <1>1, <1>2 DEF StoreFilesAreDone
  <1>4. UNCHANGED storeMemory \/ StoreLoads(p)
    BY <1>0, StoreLoadCases
  <1>5. Store!DeletedStaysDeleted'
    <2>1. \A t \in storeDeleted : t \in StoreTasks
      BY <1>0, StoreDeletedTyped
    <2> QED BY <1>1, <1>4, <2>1 DEF StoreLoads, StoreAwayInv, Store!DeletedStaysDeleted, Store!Gone
  <1> QED BY <1>0, <1>3, <1>5 DEF StoreAwayInv

LEMMA StoreCorrectAwayInv ==
  ASSUME Store!StoreAssumption, StoreAwayInv, NEW p \in Store!Procs, NEW t \in StoreTasks, Store!Correct(p, t)
  PROVE  StoreAwayInv'
  <1> USE DEF Store!Correct, Store!CallsStay, Store!told
  <1>0. StoreKeptInv' /\ StoreTInv /\ StoreStartTyped /\ storeMemory[p][t] # NoValue
    BY StoreCorrectKeptInv, StoreGroups DEF StoreAwayInv, StoreKeptInv, StoreTInv
  <1>1. \A q \in Store!Procs \ {p} : storeTodo'[q] = storeTodo[q]
    BY <1>0 DEF StoreStartTyped, Store!Visited
  <1>2. StoreFilesAreDone'
    BY <1>1, StoreFilesStay DEF StoreAwayInv
  <1>3. \A u \in StoreTasks : storeRows'[u] = storeRows[u] \/ (u = t /\ storeRows'[u] = storeMemory[p][u])
    BY StoreCorrectKeptInv DEF StoreAwayInv
  <1>4. Store!DeletedStaysDeleted'
    <2>1. \A u \in storeDeleted : u \in StoreTasks
      BY <1>0, StoreDeletedTyped
    <2> QED BY <1>0, <1>3, <2>1 DEF StoreAwayInv, Store!DeletedStaysDeleted, Store!Gone
  <1> QED BY <1>0, <1>2, <1>4 DEF StoreAwayInv

LEMMA StoreServeAwayInv ==
  ASSUME Store!StoreAssumption, StoreAwayInv, NEW p \in Store!Procs, Store!Serve(p)
  PROVE  StoreAwayInv'
  <1> USE DEF Store!Serve, Store!CallsStay, Store!told, Store!disk
  <1>0. StoreKeptInv' /\ \A q \in Store!Procs \ {p} : storeStage'[q] = storeStage[q]
    BY StoreServeKeptInv DEF StoreAwayInv
  <1>1. StoreFilesAreDone'
    BY <1>0, StoreFilesStay DEF StoreAwayInv
  <1>2. Store!DeletedStaysDeleted'
    BY DEF StoreAwayInv, Store!DeletedStaysDeleted, Store!Gone
  <1> QED BY <1>0, <1>1, <1>2 DEF StoreAwayInv

LEMMA StoreEndAwayInv ==
  ASSUME Store!StoreAssumption, StoreAwayInv, NEW p \in Store!Procs, Store!End(p)
  PROVE  StoreAwayInv'
  <1>0. /\ StoreKeptInv' /\ StoreTInv /\ StoreStartTyped /\ storeStage'[p] = "gone" /\ storeMemory'[p] = Store!NoTasks
        /\ \A q \in Store!Procs \ {p} : storeMemory'[q] = storeMemory[q] /\ storeStage'[q] = storeStage[q]
    BY StoreEndKeptInv, StoreGroups DEF StoreAwayInv, StoreKeptInv, StoreTInv
  <1>1. /\ \A q \in Store!Procs \ {p} : storeTodo'[q] = storeTodo[q] /\ storeMoving'[q] = storeMoving[q]
        /\ UNCHANGED <<storeFiles, storeRows, storeDeleted, storeRaced, storeUnread>>
    BY <1>0 DEF StoreStartTyped, Store!End, Store!disk, Store!told, Store!history
  <1>2. StoreFilesAreDone'
    BY <1>0, <1>1, StoreFilesStay DEF StoreAwayInv
  <1>3. Store!DeletedStaysDeleted'
    <2>1. \A u \in storeDeleted : u \in StoreTasks
      BY <1>0, StoreDeletedTyped
    <2> QED BY <1>0, <1>1, <2>1 DEF StoreAwayInv, Store!DeletedStaysDeleted, Store!Gone, Store!NoTasks
  <1> QED BY <1>0, <1>2, <1>3 DEF StoreAwayInv

LEMMA StoreTakenAwayInv ==
  ASSUME Store!StoreAssumption, StoreAwayInv, StoreKeptInv', NEW w \in StoreWriters, NEW p \in Store!Procs, NEW t \in StoreTasks, NEW op,
         NEW task, Store!Takes(w, p, op, t, task), StoreTaken(w, p, op, t, task),
         task # NoValue => t \notin storeDeleted \ (storeRaced \cup storeUnread)
  PROVE  StoreAwayInv'
  <1> USE DEF Store!Takes, Store!disk, Store!starting, Store!told, Store!history
  <1>1. StoreFilesAreDone'
    BY StoreFilesStay DEF StoreAwayInv
  <1>2. Store!DeletedStaysDeleted'
    <2>1. \A u \in storeDeleted : u \in StoreTasks
      BY StoreDeletedTyped DEF StoreAwayInv, StoreKeptInv
    <2> QED BY <2>1 DEF StoreAwayInv, Store!DeletedStaysDeleted, Store!Gone, StoreTaken
  <1> QED BY <1>1, <1>2 DEF StoreAwayInv

LEMMA StoreCallAwayInv ==
  ASSUME Store!StoreAssumption, StoreAwayInv, NEW w \in StoreWriters, NEW p \in Store!Procs, NEW t \in StoreTasks,
         Store!Create(w, p, t) \/ Store!Update(w, p, t) \/ Store!Delete(w, p, t)
  PROVE  StoreAwayInv'
  <1>0. StoreKeptInv
    BY DEF StoreAwayInv
  <1>1. CASE Store!Create(w, p, t)
    <2>1. StoreKeptInv' /\ StoreTaken(w, p, "insert", t, Store!NewTask)
      BY <1>0, <1>1, StoreCreateKeptInv
    <2>2. t \notin storeDeleted /\ Store!Takes(w, p, "insert", t, Store!NewTask)
      BY <1>1 DEF Store!Create
    <2> QED BY <2>1, <2>2, StoreTakenAwayInv
  <1>2. CASE Store!Update(w, p, t)
    <2>1. StoreKeptInv'
      BY <1>0, <1>2, StoreUpdateKeptInv
    <2>2. PICK new \in Store!Task : StoreUpdates(w, p, t, new) /\ StoreTaken(w, p, "update", t, new)
      BY <1>0, <1>2, StoreUpdateTInv DEF StoreKeptInv
    <2>3. t \notin storeDeleted \ (storeRaced \cup storeUnread) /\ Store!Takes(w, p, "update", t, new)
      BY <1>2, <2>2 DEF Store!Update, StoreUpdates, StoreAwayInv, Store!DeletedStaysDeleted, Store!Gone
    <2> QED BY <2>1, <2>2, <2>3, StoreTakenAwayInv
  <1>3. CASE Store!Delete(w, p, t)
    <2>1. StoreKeptInv' /\ StoreTaken(w, p, "delete", t, NoValue)
      BY <1>0, <1>3, StoreDeleteKeptInv
    <2>2. Store!Takes(w, p, "delete", t, NoValue)
      BY <1>3 DEF Store!Delete
    <2> QED BY <2>1, <2>2, StoreTakenAwayInv
  <1> QED BY <1>1, <1>2, <1>3

LEMMA StorePersistAwayInv ==
  ASSUME Store!StoreAssumption, StoreAwayInv, NEW w \in StoreWriters, Store!Persist(w)
  PROVE  StoreAwayInv'
  <1> DEFINE p == storeCall[w].of
             t == storeCall[w].id
             copy == storeCall[w].copy
  <1>0. StoreKeptInv' /\ StoreTInv
    BY StorePersistKeptInv DEF StoreAwayInv, StoreKeptInv
  <1>1. p \in Store!Procs /\ t \in StoreTasks /\ storeStage[p] = "up" /\ storeMemory[p][t] = copy /\ copy # NoValue
    BY <1>0, StoreUnderWay, StorePersistEffect DEF Store!Persist
  <1>2. UNCHANGED <<storeFiles, storeStage, storeTodo, storeMoving, storeDeleted, storeUnread>>
    BY DEF Store!Persist, Store!starting
  <1>3. /\ \A q \in Store!Procs, u \in StoreTasks : (q # p \/ u # t) => storeMemory'[q][u] = storeMemory[q][u]
        /\ \A u \in StoreTasks \ {t} : storeRows'[u] = storeRows[u]
    BY <1>0, StorePersistEffect DEF StoreWritten
  <1>4. storeRaced \subseteq storeRaced'
    BY <1>0, StorePersistEffect DEF Store!Race
  <1>5. t \notin storeDeleted \ (storeRaced \cup storeUnread) /\ \A u \in storeDeleted : u \in StoreTasks
    BY <1>0, <1>1, StoreDeletedTyped DEF StoreAwayInv, Store!DeletedStaysDeleted, Store!Gone
  <1> HIDE DEF p, t, copy
  <1>6. StoreFilesAreDone'
    BY <1>1, <1>2, StoreFilesStay DEF StoreAwayInv
  <1>7. Store!DeletedStaysDeleted'
    BY <1>2, <1>3, <1>4, <1>5 DEF StoreAwayInv, Store!DeletedStaysDeleted, Store!Gone
  <1> QED BY <1>0, <1>6, <1>7 DEF StoreAwayInv

LEMMA StoreDeleteRowAwayInv ==
  ASSUME Store!StoreAssumption, StoreAwayInv, NEW w \in StoreWriters, Store!DeleteRow(w)
  PROVE  StoreAwayInv'
  <1> DEFINE p == storeCall[w].of
             t == storeCall[w].id
  <1>0. StoreKeptInv' /\ StoreTInv /\ storeCall[w].op # "none"
    BY StoreDeleteRowKeptInv DEF StoreAwayInv, StoreKeptInv, Store!DeleteRow
  <1>1. p \in Store!Procs /\ t \in StoreTasks /\ storeStage[p] = "up" /\ storeMemory[p][t] = NoValue
    BY <1>0, StoreUnderWay, StoreDeleteRowEffect
  <1>2. UNCHANGED <<storeFiles, storeStage, storeTodo, storeMoving, storeMemory, storeUnread>>
    BY DEF Store!DeleteRow, Store!starting
  <1>3. \/ UNCHANGED <<storeRows, storeDeleted, storeRaced>>
        \/ storeRows'[t] = NoValue /\ storeDeleted' = storeDeleted \cup {t} /\ Store!Race(w)
    BY <1>0, StoreDeleteRowEffect
  <1>4. (\A u \in StoreTasks \ {t} : storeRows'[u] = storeRows[u]) /\ (Store!Race(w) => storeRaced \subseteq storeRaced')
    BY <1>0, StoreDeleteRowEffect DEF StoreWritten, Store!Race
  <1>5. Store!Race(w) /\ t \notin storeRaced' => \A q \in Store!Procs : storeMemory[q][t] = NoValue
    BY <1>0, <1>1, StoreUnraced
  <1> HIDE DEF p, t
  <1>6. t \in storeUnread \/ storeFiles[t] # "good"
    BY <1>1 DEF StoreAwayInv, StoreFilesAreDone
  <1>7. StoreFilesAreDone'
    BY <1>2, <1>3, <1>6 DEF StoreAwayInv, StoreFilesAreDone
  <1>8. Store!DeletedStaysDeleted'
    <2>1. \A u \in storeDeleted : u \in StoreTasks
      BY <1>0, StoreDeletedTyped
    <2> QED BY <1>2, <1>3, <1>4, <1>5, <2>1 DEF StoreAwayInv, Store!DeletedStaysDeleted, Store!Gone
  <1> QED BY <1>0, <1>7, <1>8 DEF StoreAwayInv

LEMMA StoreNextAwayInv == Store!StoreAssumption /\ StoreAwayInv /\ [Store!Next]_(Store!storeVars) => StoreAwayInv'
  <1> SUFFICES ASSUME Store!StoreAssumption, StoreAwayInv, [Store!Next]_(Store!storeVars) PROVE StoreAwayInv'
    OBVIOUS
  <1>1. ASSUME NEW p \in Store!Procs, Store!StartStep(p) PROVE StoreAwayInv'
    BY <1>1, StoreStartAwayInv, StoreArchiveAwayInv, StoreLoadAwayInv, StoreServeAwayInv,
       StoreEndAwayInv, StoreImportAwayInv,
       StoreCorrectAwayInv DEF Store!StartStep
  <1>2. ASSUME NEW w \in StoreWriters, Store!CallStep(w) PROVE StoreAwayInv'
    BY <1>2, StorePersistAwayInv, StoreDeleteRowAwayInv, StoreCallAwayInv DEF Store!CallStep
  <1>3. CASE UNCHANGED Store!storeVars
    <2>1. UNCHANGED <<storeFiles, storeRows, storeStage, storeTodo, storeMoving, storeMemory, storeDeleted, storeRaced,
                      storeUnread>>
      BY <1>3 DEF Store!storeVars, Store!disk, Store!starting, Store!told, Store!history
    <2>2. StoreFilesAreDone' /\ Store!DeletedStaysDeleted'
      BY <2>1 DEF StoreAwayInv, StoreFilesAreDone, Store!DeletedStaysDeleted, Store!Gone
    <2> QED BY <2>2, StoreNextKeptInv DEF StoreAwayInv
  <1> QED BY <1>1, <1>2, <1>3 DEF Store!Next

StoreInv == StoreAwayInv

LEMMA StoreBegins ==
    ASSUME Store!StoreAssumption, Store!Init
    PROVE  StoreInv
BY StoreInitAwayInv DEF StoreInv

LEMMA StoreStep ==
    ASSUME Store!StoreAssumption, StoreInv, [Store!Next]_(Store!storeVars)
    PROVE  StoreInv'
BY StoreNextAwayInv DEF StoreInv

LEMMA StoreHolds ==
    ASSUME Store!StoreAssumption, StoreInv
    PROVE  /\ Store!TypeOK /\ Store!PromisesAreKept /\ Store!DeletedStaysDeleted
           /\ Store!EventsAreNumbered /\ Store!StoreIsTrue
<1>1. Store!TypeOK /\ Store!EventsAreNumbered
  BY StoreNumbersRise DEF StoreInv, StoreAwayInv, StoreKeptInv, StoreTInv
<1>2. Store!PromisesAreKept /\ Store!DeletedStaysDeleted
  BY DEF StoreInv, StoreAwayInv, StoreKeptInv
<1> QED  BY <1>1, <1>2 DEF Store!StoreIsTrue

------------------------------------------------------------------------------
(* All of them. A behaviour is of one service, and the others stay.            *)

Inv ==
    /\ focus \in Services
    /\ SiteInv /\ CopyCInv /\ LinkInv /\ DoorInv /\ BotInv /\ StoreInv

LEMMA Assumed ==
    /\ Site!PreviewAssumption /\ Copy!CheckpointsAssumption /\ Link!TunnelAssumption
    /\ Door!AccessAssumption /\ Store!StoreAssumption
BY ServicesAssumption DEF ServicesAssumption

LEMMA Begins == Init => Inv
BY Assumed, SiteBegins, CopyInitCInv, LinkBegins, DoorBegins, BotBegins, StoreBegins
   DEF Init, Inv

LEMMA SiteRests == ASSUME SiteInv, UNCHANGED siteVars PROVE SiteInv'
BY DEF SiteInv, Site!TypeOK, siteVars

LEMMA LinkRests == ASSUME LinkInv, UNCHANGED linkVars PROVE LinkInv'
BY DEF LinkInv, LinkHeld, Link!TypeOK, Link!Spawned, linkVars

LEMMA DoorRests == ASSUME DoorInv, UNCHANGED doorVars PROVE DoorInv'
BY DEF DoorInv, Door!TypeOK, doorVars

LEMMA BotRests == ASSUME BotInv, UNCHANGED botVars PROVE BotInv'
<1>1. UNCHANGED <<botBots, botCreated, botFiles, botMirror, botRunning, botBound>>
      /\ UNCHANGED <<botRoutes, botRebuilder, botScan, botFlows, botApps, botWork>>
  BY DEF botVars
<1>2. Bot!TypeOK'
  BY <1>1 DEF BotInv, Bot!TypeOK, Bot!Admin
<1>3. BotHeld' /\ BotFresh' /\ BotHolder' /\ BotRouted'
  BY <1>1 DEF BotInv, BotHeld, BotFresh, BotHolder, BotRouted
<1>4. BotCurrent'
  BY <1>1 DEF BotInv, BotCurrent, Bot!Specs, Bot!Named, Bot!HasFile
<1> QED  BY <1>2, <1>3, <1>4 DEF BotInv

LEMMA StoreRests == ASSUME StoreInv, UNCHANGED storeVars PROVE StoreInv'
<1>1. UNCHANGED Store!storeVars
  BY DEF storeVars, Store!storeVars, Store!disk, Store!starting, Store!told, Store!history
<1> QED  BY <1>1, Assumed, StoreStep

LEMMA Steps == Inv /\ [Next]_vars => Inv'
<1> SUFFICES ASSUME Inv, [Next]_vars PROVE Inv'
  OBVIOUS
<1> USE Assumed
<1>1. focus' = focus
  BY DEF Next, vars
<1>2. Site!Next \/ UNCHANGED siteVars
  BY DEF Next, vars
<1>3. Copy!Next \/ UNCHANGED copyVars
  BY DEF Next, vars
<1>4. Link!Next \/ UNCHANGED linkVars
  BY DEF Next, vars
<1>5. Door!Next \/ UNCHANGED doorVars
  BY DEF Next, vars
<1>6. Bot!Next \/ UNCHANGED botVars
  BY DEF Next, vars
<1>7. Store!Next \/ UNCHANGED storeVars
  BY DEF Next, vars
<1>8. SiteInv' /\ LinkInv' /\ DoorInv'
  BY <1>2, <1>4, <1>5, SiteStep, SiteRests, LinkStep, LinkRests, DoorStep, DoorRests DEF Inv
<1>9. CopyCInv' /\ BotInv' /\ StoreInv'
  BY <1>3, <1>6, <1>7, CopyNextCInv, BotStep, BotRests, StoreStep, StoreRests DEF Inv
<1> QED  BY <1>1, <1>8, <1>9 DEF Inv

\* The state of each service has its types in every reachable state, for any number of
\* files, visitors, bots, tasks and processes: in particular a guess is never counted
\* beyond the bound, a link is shown exactly while a process is, and a server is
\* watched exactly when it was started (preview.go, checkpoint.go, tunnel.go,
\* ratelimit.go, larkchannel.go, task_store.go).
THEOREM TypeCorrect == Spec => []TypeOK
<1>1. Inv => TypeOK
  BY Assumed, StoreHolds DEF Inv, TypeOK, SiteInv, CopyCInv, CopyTInv, LinkInv, DoorInv, BotInv
<1> QED  BY Begins, Steps, <1>1, PTL DEF Spec

\* The bots that run are those of the records and the credentials whenever no request
\* is about to say otherwise, and the store keeps what it said it keeps and never brings
\* back what it said is deleted (larkchannel.go, bots_store.go, bridge.go,
\* task_store.go, migrate_json.go), through crashes, failing reads and writes and
\* self-restarts: all that can be lost is a task that two processes held when one of
\* them wrote it, and all that can come back is such a task, or one whose old file a
\* start had passed over.
THEOREM RecordsKept == Spec => []RecordsAreKept
<1>1. Inv => RecordsAreKept
  BY Assumed, BotTrue, StoreHolds DEF Inv, RecordsAreKept
<1> QED  BY Begins, Steps, <1>1, PTL DEF Spec

\* The events of a task bear rising numbers, in every row and in every memory, and
\* the next number is above them, whatever the retention, old files without a counter,
\* failed writes, and two processes at once (AppendEvent).
THEOREM EventsNumbered == Spec => []Store!EventsAreNumbered
<1>1. Inv => Store!EventsAreNumbered
  BY Assumed, StoreHolds DEF Inv
<1> QED  BY Begins, Steps, <1>1, PTL DEF Spec

\* The table has what a call said is kept, for any interleaving of calls, failing
\* writes, crashes and starts, and also while a self-restart has two processes on the
\* one table, except for the tasks written then: the lock orders the writes as the
\* changes, a failed write leaves memory ahead of the table, never behind, and what a
\* start loads and corrects is as new as what was promised (Update, persist, load).
THEOREM PromisesKept == Spec => []Store!PromisesAreKept
<1>1. Inv => Store!PromisesAreKept
  BY Assumed, StoreHolds DEF Inv
<1> QED  BY Begins, Steps, <1>1, PTL DEF Spec

\* A task whose deletion was confirmed comes back neither into the table nor into the
\* memory of any process, old or new, unless two processes held it when one of them
\* wrote it or a start passed over its file: no other file of an older version is left
\* to import when a process serves (Delete, MigrateJSONTasks).
THEOREM DeletedStay == Spec => []Store!DeletedStaysDeleted
<1>1. Inv => Store!DeletedStaysDeleted
  BY Assumed, StoreHolds DEF Inv
<1> QED  BY Begins, Steps, <1>1, PTL DEF Spec

\* Only those who guess are shut out, and inside is what does not come by the tunnel
\* (auth.go, ratelimit.go, middleware.go): the half of DoorIsKept that is an invariant.
THEOREM VisitorsJudged == Spec => []Door!VisitorsAreJudged
<1>1. Inv => Door!VisitorsAreJudged
  BY DoorTrue DEF Inv
<1> QED  BY Begins, Steps, <1>1, PTL DEF Spec

\* The first rewind to a turn gives every file that the agent changed since then the
\* content it had when the work on that turn began, and leaves a file for which no tool
\* was called as it is, if every turn had its message to itself and the tool call
\* that changed the file was told before the end of its turn was captured
\* (RewindToTurn, CaptureTurnEnd, DeriveFileChanges, toolCallWire).
THEOREM FirstRewindExact == Spec => RewindIsExact
<1>1. CopyCInv /\ [Copy!Next]_copyVars =>
         [\A n \in Copy!Turns : (Copy!RewindToTurn(n) /\ Copy!Calm /\ copyRewinds = 0) =>
             CopyExact(n)]_copyVars
  BY Assumed, CopyRewinds
<1>2. [Next]_vars => [Copy!Next]_copyVars
  BY DEF Next, vars
<1>3. copyVars = Copy!checkVars
  BY DEF copyVars, Copy!checkVars
<1>4. Inv => CopyCInv
  BY DEF Inv
<1>5. Inv /\ [Next]_vars =>
         [\A n \in Copy!Turns : (Copy!RewindToTurn(n) /\ Copy!Calm /\ copyRewinds = 0) =>
             \A f \in CopyFiles : Copy!Told(f) =>
                 IF Copy!WorkedOn(n, f)
                 THEN (copyEdits = 0 /\ Copy!Copied(f)) => copyTree'[f] = copyBegan[n][f]
                 ELSE ~Copy!Called(n, f) => copyTree'[f] = copyTree[f]]_(Copy!checkVars)
  BY <1>1, <1>2, <1>3, <1>4 DEF CopyExact, copyVars, Copy!checkVars
<1> QED  BY Begins, Steps, <1>5, PTL DEF Spec, RewindIsExact, Copy!RewindIsExact

------------------------------------------------------------------------------
(* What is minded. These invariants stand on the ones above.                   *)

Minded == SiteMarks /\ Link!ShownIsWatched

LEMMA MindedBegins == Init => Minded
BY MarksBegin, WatchBegins DEF Init, Minded

LEMMA MindedSteps == Inv /\ Minded /\ [Next]_vars => Minded'
<1> SUFFICES ASSUME Inv, Minded, [Next]_vars PROVE Minded'
  OBVIOUS
<1> USE Assumed
<1>1. (Site!Next \/ UNCHANGED siteVars) /\ (Link!Next \/ UNCHANGED linkVars)
  BY DEF Next, vars
<1>2. SiteInv /\ LinkInv
  BY DEF Inv
<1>3. SiteMarks /\ Link!ShownIsWatched
  BY DEF Minded
<1>4. SiteMarks'
  BY <1>1, <1>2, <1>3, MarksStep, MarksRest
<1>5. Link!ShownIsWatched'
  BY <1>1, <1>2, <1>3, WatchStep, WatchRests
<1> QED  BY <1>4, <1>5 DEF Minded

\* A server that someone is stopping was started and bears the mark of a stop, so that
\* its end is not taken for a failure, for any number of servers and whatever starts,
\* probes and stops overlap: the part of ProcessesAreMinded that is an invariant of the
\* preview (Stop and the watcher of spawn in core/preview.go).
THEOREM StopsMarked == Spec => []Site!StoppedServersAreMarked
<1>1. Minded => Site!StoppedServersAreMarked
  BY DEF Minded, SiteMarks
<1> QED  BY Begins, Steps, MindedBegins, MindedSteps, <1>1, PTL DEF Spec

\* The process of the tunnel that is shown is waited for, or the start that recorded it
\* is about to see to that, for any number of starts, stops and exits that overlap: the
\* part of ProcessesAreMinded that is an invariant of the tunnel (finalizeTunnel and
\* its watch in tunnel.go).
THEOREM ShownWatched == Spec => []Link!ShownIsWatched
<1>1. Minded => Link!ShownIsWatched
  BY DEF Minded
<1> QED  BY Begins, Steps, MindedBegins, MindedSteps, <1>1, PTL DEF Spec
==============================================================================
