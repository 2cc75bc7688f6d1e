--------------------------- MODULE MCAgentServices ----------------------------
(* One instance of each of what stands between the agents and the tasks:       *)
(* sessions, the bridge, plans, the list of models, runs that print, streams,  *)
(* what judges a call of a tool, and the events. They share no state. A        *)
(* behaviour is of one of them, which focus names; the others stay as they     *)
(* begin. The fairness of a service is the left side of what is claimed of it. *)
EXTENDS Naturals, Sequences

CONSTANTS
    Services,   \* those that a run looks at
    NoValue,    \* a value that is no request, caller or worker
    \* the constants of each service, after the names in its module
    SessionCalls, SessionMaxPrompts,
    BridgeMaxPrompts, BridgeMaxAsks, BridgeMaxFaults, BridgeHistoryMax,
    PlanMaxPlans, PlanMaxSwitches, PlanMaxWrites,
    CatalogCallers, CatalogStaleMax, CatalogMaxDays, CatalogMaxConfigs, CatalogMaxRestarts,
    PrintMaxTurns, PrintMaxCalls,
    StreamMaxChunks,
    ToolMaxOffers,
    ShellMaxSegments,
    BusPublishers, BusMaxVersions, BusMaxLinks, BusBuffer, BusPingTicks

(* Commands: every table that judges them, what the text shows besides, and    *)
(* parts that hide what they do: a substitution between quotes, a script       *)
(* block, code in quotes without an unsafe word, a flag that is not a word.    *)
Text(words, effect) ==
    [words |-> words, output |-> "shown", quoted |-> "no", substitutes |-> "no",
     hides |-> FALSE, effect |-> effect]

ShellSegments ==
    {Text(w, "none") : w \in {
        <<"ls">>, <<"sed", "-n">>, <<"git", "status">>, <<"git", "branch">>,
        <<"git", "-C", "x", "log", "--oneline">>, <<"git", "stash", "list">>,
        <<"git", "--no-pager", "diff">>, <<"npm", "run", "test">>, <<"npx", "vitest">>,
        <<"go", "test">>, <<"go", "mod", "why", "x">>}}
    \cup {Text(w, "local") : w \in {
        <<"git", "add", "x">>, <<"git", "branch", "x">>, <<"git", "stash">>,
        <<"git", "config", "x", "y">>, <<"git", "remote", "add", "x", "y">>,
        <<"npm", "run", "build">>, <<"go", "build">>}}
    \cup {Text(w, "lossy") : w \in {
        <<"sed", "-i", "x">>, <<"find", "x", "-delete">>, <<"rm", "-rf", "x">>,
        <<"remove-item", "x">>, <<"git", "branch", "-D", "x">>, <<"git", "stash", "drop">>,
        <<"git", "checkout", "x">>, <<"npx", "vitest", "--update">>}}
    \cup {Text(w, "outside") : w \in {
        <<"git", "push">>, <<"npm", "install", "x">>, <<"go", "mod", "tidy">>, <<"curl", "x">>}}
    \cup {[Text(<<"ls", "x">>, "none") EXCEPT !.output = "discarded"],
           [Text(<<"echo">>, "lossy") EXCEPT !.output = "file"],
           [Text(<<"echo">>, "lossy") EXCEPT !.substitutes = "bare"],
           [Text(<<"grep">>, "none") EXCEPT !.quoted = "separator"],
           [Text(<<"node", "-e", "x">>, "none") EXCEPT !.quoted = "plain"],
           [Text(<<"node", "-e", "x">>, "lossy") EXCEPT !.quoted = "unsafe"]}
    \cup {[s EXCEPT !.hides = TRUE] : s \in {
        [Text(<<"echo">>, "lossy") EXCEPT !.substitutes = "quoted"],
        Text(<<"foreach-object", "{}">>, "lossy"),
        [Text(<<"node", "-e", "x">>, "lossy") EXCEPT !.quoted = "plain"],
        Text(<<"sed", "--in-place=x">>, "lossy")}}

(* Requests of the agents, and options that come with them.                    *)
Request(agent, tool, reported, fields, changes) ==
    [agent |-> agent, tool |-> tool, reported |-> reported, fields |-> fields,
     changes |-> changes]

QueriesOf(tool) ==
    {Request("dsh", tool, "other", fields, fields # {} /\ fields # {"query"}) :
        fields \in SUBSET {"query", "verb", "unknown", "asksChange", "nested"}}

ToolCalls ==
    QueriesOf("lsp") \cup QueriesOf("job_output")
    \cup {Request("dsh", "lsp_rename", "other", {"query"}, TRUE),
          Request("dsh", "job_kill", "other", {"query"}, TRUE),
          Request("dsh", "read", "other", {"query"}, FALSE),
          Request("dsh", "Read", "other", {"query"}, FALSE),
          Request("dsh", "pwsh", "other", {"unknown"}, TRUE),
          Request("qoder", "rm", "execute", {"unknown"}, TRUE),
          Request("qodercli", "Read", "execute", {"query"}, FALSE),
          Request("qoder", "lsp", "other", {"query"}, FALSE),
          Request("claude-code", "Delete", "delete", {"query"}, TRUE),
          Request("claude", "Write", "", {"query"}, TRUE),
          Request("cursor", "lsp", "other", {"verb"}, TRUE)}

Offer(id, kind, named, means) == [id |-> id, kind |-> kind, named |-> named, means |-> means]

ToolOffers ==
    {Offer("yes", "allow_once", {"allow"}, "allow"),
     Offer("always", "allow_always", {"allow"}, "allow"),
     Offer("no", "reject_once", {"reject"}, "reject"),
     Offer("never", "reject_always", {"reject"}, "reject"),
     Offer("allow", "", {"allow"}, "allow"), Offer("disallow", "", {"allow", "deny"}, "reject"),
     Offer("stop", "", {"cancel"}, "reject"), Offer("plan", "", {}, "neither")}

------------------------------------------------------------------------------

VARIABLES
    focus,  \* the service that is at work in a behaviour
    sessionProcess, sessionDone, sessionOpening, sessionClosing, sessionLayer,
    sessionClosedByUs, sessionExited, sessionTold, sessionUpDone,
    sessionPrompt, sessionPrompts, sessionAsk, sessionPending, sessionChannel,
    sessionCarded,
    bridgeOpening, bridgeKnown, bridgeClosed, bridgeState, bridgeQueue,
    bridgeIdleSdk, bridgeCurrent, bridgeInFlight, bridgePending, bridgeHistory,
    bridgeTurn, bridgeAsks, bridgeCancelling, bridgeStream, bridgeLine,
    bridgeCards, bridgeHeard, bridgeFatal, bridgeGone, bridgeDone, bridgeEnds,
    bridgePrompt, bridgeStop, bridgeCtxDone, bridgeWatch, bridgeFaults,
    planStdout, planHandled, planCard, planFromMode, planPlan, planSetter,
    planWant, planAsks, planGone, planAgentMode, planCurrentID, planSwitches,
    planTodos, planLast, planWrites,
    catalogDay, catalogConfig, catalogRestarts, catalogChanging, catalogMemory,
    catalogUntil, catalogDisk, catalogCaller, catalogLeader, catalogWaitsFor,
    catalogAnswer,
    printStatus, printCard, printSubmitted, printFirst, printAhead, printTurn,
    printResumed, printStopped, printProc, printLive, printSaid, printUsed,
    printAsked, printHandler, printChoice, printEntry, printAnswering,
    printCancelling,
    streamHeard, streamTexts, streamTextTimer, streamTaken, streamTools,
    streamToolTimer, streamEvents, streamOutput, streamPlan, streamUsage,
    streamTurn, streamSeen,
    toolCall, toolKind, toolOptions, toolAnswer,
    shellCommand, shellTrusted,
    busVersion, busPublishing, busSeq, busQueue, busDropped, busLoop, busFrame,
    busIdle, busLine, busLinks, busLast, busRefetch, busShown

Session ==
    INSTANCE AcpSession WITH
        Calls <- SessionCalls, NoAsking <- NoValue,
        MaxPrompts <- SessionMaxPrompts,
        process <- sessionProcess, done <- sessionDone,
        opening <- sessionOpening, closing <- sessionClosing,
        layer <- sessionLayer, closedByUs <- sessionClosedByUs,
        exited <- sessionExited, told <- sessionTold, upDone <- sessionUpDone,
        prompt <- sessionPrompt, prompts <- sessionPrompts, ask <- sessionAsk,
        pending <- sessionPending, channel <- sessionChannel,
        carded <- sessionCarded

Resident ==
    INSTANCE ClaudeBridge WITH
        MaxPrompts <- BridgeMaxPrompts, MaxAsks <- BridgeMaxAsks,
        MaxFaults <- BridgeMaxFaults, HistoryMax <- BridgeHistoryMax,
        opening <- bridgeOpening, known <- bridgeKnown, closed <- bridgeClosed,
        state <- bridgeState, queue <- bridgeQueue, idleSdk <- bridgeIdleSdk,
        current <- bridgeCurrent, inFlight <- bridgeInFlight,
        pending <- bridgePending, history <- bridgeHistory, turn <- bridgeTurn,
        asks <- bridgeAsks, cancelling <- bridgeCancelling,
        stream <- bridgeStream, line <- bridgeLine, cards <- bridgeCards,
        heard <- bridgeHeard, fatal <- bridgeFatal, gone <- bridgeGone,
        done <- bridgeDone, ends <- bridgeEnds, prompt <- bridgePrompt,
        stop <- bridgeStop, ctxDone <- bridgeCtxDone, watch <- bridgeWatch,
        faults <- bridgeFaults

Plan ==
    INSTANCE AcpPlan WITH
        MaxPlans <- PlanMaxPlans, MaxSwitches <- PlanMaxSwitches,
        MaxWrites <- PlanMaxWrites,
        stdout <- planStdout, handled <- planHandled, card <- planCard,
        fromMode <- planFromMode, plan <- planPlan, setter <- planSetter,
        want <- planWant, asks <- planAsks, gone <- planGone, agentMode <- planAgentMode,
        currentID <- planCurrentID, switches <- planSwitches,
        todos <- planTodos, last <- planLast, writes <- planWrites

Catalog ==
    INSTANCE ModelCatalog WITH
        Callers <- CatalogCallers, Nobody <- NoValue,
        StaleMax <- CatalogStaleMax, MaxDays <- CatalogMaxDays,
        MaxConfigs <- CatalogMaxConfigs, MaxRestarts <- CatalogMaxRestarts,
        day <- catalogDay, config <- catalogConfig,
        restarts <- catalogRestarts, changing <- catalogChanging,
        memory <- catalogMemory, until <- catalogUntil, disk <- catalogDisk,
        caller <- catalogCaller, leader <- catalogLeader,
        waitsFor <- catalogWaitsFor, answer <- catalogAnswer

OneShot ==
    INSTANCE PrintRun WITH
        MaxTurns <- PrintMaxTurns, MaxCalls <- PrintMaxCalls, NoCall <- 0,
        status <- printStatus, card <- printCard, submitted <- printSubmitted,
        first <- printFirst, ahead <- printAhead, turn <- printTurn,
        resumed <- printResumed, stopped <- printStopped, proc <- printProc,
        live <- printLive, said <- printSaid, used <- printUsed,
        asked <- printAsked, handler <- printHandler, choice <- printChoice,
        entry <- printEntry, answering <- printAnswering,
        cancelling <- printCancelling

Stream ==
    INSTANCE Streams WITH
        MaxChunks <- StreamMaxChunks,
        heard <- streamHeard, texts <- streamTexts,
        textTimer <- streamTextTimer, taken <- streamTaken,
        tools <- streamTools, toolTimer <- streamToolTimer,
        events <- streamEvents, output <- streamOutput, plan <- streamPlan,
        usage <- streamUsage, turn <- streamTurn, seen <- streamSeen

Tool ==
    INSTANCE ToolKinds WITH
        Calls <- ToolCalls, Offers <- ToolOffers, MaxOffers <- ToolMaxOffers,
        call <- toolCall, kind <- toolKind, options <- toolOptions,
        answer <- toolAnswer

Shell ==
    INSTANCE Commands WITH
        Segments <- ShellSegments, MaxSegments <- ShellMaxSegments,
        command <- shellCommand, trusted <- shellTrusted

Bus ==
    INSTANCE EventBus WITH
        Publishers <- BusPublishers, MaxVersions <- BusMaxVersions,
        MaxLinks <- BusMaxLinks, Buffer <- BusBuffer,
        PingTicks <- BusPingTicks,
        version <- busVersion, publishing <- busPublishing, seq <- busSeq,
        queue <- busQueue, dropped <- busDropped, loop <- busLoop,
        frame <- busFrame, idle <- busIdle, line <- busLine, links <- busLinks,
        last <- busLast, refetch <- busRefetch, shown <- busShown

sessionVars ==
    <<sessionProcess, sessionDone, sessionOpening, sessionClosing,
      sessionLayer, sessionClosedByUs, sessionExited, sessionTold,
      sessionUpDone, sessionPrompt, sessionPrompts, sessionAsk, sessionPending,
      sessionChannel, sessionCarded>>
bridgeVars ==
    <<bridgeOpening, bridgeKnown, bridgeClosed, bridgeState, bridgeQueue,
      bridgeIdleSdk, bridgeCurrent, bridgeInFlight, bridgePending,
      bridgeHistory, bridgeTurn, bridgeAsks, bridgeCancelling, bridgeStream,
      bridgeLine, bridgeCards, bridgeHeard, bridgeFatal, bridgeGone,
      bridgeDone, bridgeEnds, bridgePrompt, bridgeStop, bridgeCtxDone,
      bridgeWatch, bridgeFaults>>
planVars ==
    <<planStdout, planHandled, planCard, planFromMode, planPlan, planSetter,
      planWant, planAsks, planGone, planAgentMode, planCurrentID, planSwitches, planTodos,
      planLast, planWrites>>
catalogVars ==
    <<catalogDay, catalogConfig, catalogRestarts, catalogChanging,
      catalogMemory, catalogUntil, catalogDisk, catalogCaller, catalogLeader,
      catalogWaitsFor, catalogAnswer>>
printVars ==
    <<printStatus, printCard, printSubmitted, printFirst, printAhead,
      printTurn, printResumed, printStopped, printProc, printLive, printSaid,
      printUsed, printAsked, printHandler, printChoice, printEntry,
      printAnswering, printCancelling>>
streamVars ==
    <<streamHeard, streamTexts, streamTextTimer, streamTaken, streamTools,
      streamToolTimer, streamEvents, streamOutput, streamPlan, streamUsage,
      streamTurn, streamSeen>>
toolVars ==
    <<toolCall, toolKind, toolOptions, toolAnswer>>
shellVars ==
    <<shellCommand, shellTrusted>>
busVars ==
    <<busVersion, busPublishing, busSeq, busQueue, busDropped, busLoop,
      busFrame, busIdle, busLine, busLinks, busLast, busRefetch, busShown>>

(* The constants of every instance are as its module demands.                  *)
ASSUME ServicesAssumption ==
    /\ Session!AcpAssumption
    /\ Resident!BridgeAssumption
    /\ Plan!PlanAssumption
    /\ Catalog!CatalogAssumption
    /\ OneShot!PrintAssumption
    /\ Stream!StreamsAssumption
    /\ Tool!ToolKindsAssumption
    /\ Shell!CommandsAssumption
    /\ Bus!EventBusAssumption

(* Each segment that hides nothing is judged right when it stands alone.       *)
ASSUME SegmentsAssumption == \A s \in ShellSegments : Shell!JudgedAlone(s)

------------------------------------------------------------------------------
vars ==
    <<focus, sessionVars, bridgeVars, planVars, catalogVars, printVars, streamVars,
      toolVars, shellVars, busVars>>

(* Where a service may begin in several ways, it does so when it is at work.   *)
Pinned == focus # "print" => printFirst

Init ==
    /\ focus \in Services
    /\ Session!Init
    /\ Resident!Init
    /\ Plan!Init
    /\ Catalog!Init
    /\ OneShot!Init
    /\ Stream!Init
    /\ Tool!Init
    /\ Shell!Init
    /\ Bus!Init
    /\ Pinned

Next ==
    /\ UNCHANGED focus
    /\ IF focus = "session" THEN Session!Next ELSE UNCHANGED sessionVars
    /\ IF focus = "bridge" THEN Resident!Next ELSE UNCHANGED bridgeVars
    /\ IF focus = "plan" THEN Plan!Next ELSE UNCHANGED planVars
    /\ IF focus = "catalog" THEN Catalog!Next ELSE UNCHANGED catalogVars
    /\ IF focus = "print" THEN OneShot!Next ELSE UNCHANGED printVars
    /\ IF focus = "stream" THEN Stream!Next ELSE UNCHANGED streamVars
    /\ IF focus = "tool" THEN Tool!Next ELSE UNCHANGED toolVars
    /\ IF focus = "shell" THEN Shell!Next ELSE UNCHANGED shellVars
    /\ IF focus = "bus" THEN Bus!Next ELSE UNCHANGED busVars

Spec == Init /\ [][Next]_vars

------------------------------------------------------------------------------
TypeOK ==
    /\ focus \in Services
    /\ focus = "session" => Session!TypeOK
    /\ focus = "bridge" => Resident!TypeOK
    /\ focus = "plan" => Plan!TypeOK
    /\ focus = "catalog" => Catalog!TypeOK
    /\ focus = "print" => OneShot!TypeOK
    /\ focus = "stream" => Stream!TypeOK
    /\ focus = "tool" => Tool!TypeOK
    /\ focus = "shell" => Shell!TypeOK
    /\ focus = "bus" => Bus!TypeOK

(* The death of an agent is told to the layers above it, and no request waits  *)
(* for an answer longer than the agent is there (acp.go, session.go,           *)
(* sessionadapter.go). What the bridge runs for Claude ends when the program   *)
(* has left it (claude-sdk-bridge).                                            *)
AgentsEndCleanly ==
    /\ (focus = "session" /\ Session!Fairness) => Session!DeathIsReported /\ Session!RequestsEndWithTheAgent
    /\ [](focus = "session" => Session!SeenDeathsAreTold)
    /\ (focus = "bridge" /\ Resident!Fairness) => Resident!LeftSessionsEnd

(* Whoever waits is answered: the agent for its plan and its mode, a page for  *)
(* the list of models, a call for the decision of the user or for the end of   *)
(* its time, a turn for the bridge (acp_cursor.go, model_catalog.go, hook.go,  *)
(* claude/session.go).                                                         *)
AnswersArrive ==
    /\ (focus = "plan" /\ Plan!Fairness) => Plan!PlanIsCarriedOut
    /\ [](focus = "plan" => Plan!PlansAreInHand)
    /\ (focus = "catalog" /\ Catalog!Fairness) => Catalog!WaitersAreAnswered
    /\ (focus = "print" /\ OneShot!Fairness) => OneShot!PendingClears
    /\ [](focus = "print" => OneShot!PendingHasAHandler)
    /\ (focus = "bridge" /\ Resident!Fairness) => Resident!PromptsReturn
    /\ [](focus = "bridge" => Resident!WakeUpsReach)

(* Nothing that happened stays untold: what an agent says comes to stand in    *)
(* the events of its task, once, and a client that stays connected is told of  *)
(* every change (agent_stream.go, agent_toolcall.go, event_bus.go, ws.go).     *)
NothingIsLost ==
    /\ (focus = "stream" /\ Stream!Fairness) => Stream!EverythingIsWritten
    /\ [](focus = "stream" => Stream!EachInOnePlace)
    /\ (focus = "bus" /\ Bus!Fairness) => Bus!NothingIsMissed
    /\ [](focus = "bus" => Bus!NewestIsOnTheWay)

(* No command and no request of a tool is taken for milder than it is, and an  *)
(* answer picks an option that means it (readonly_kind.go, git_kind.go,        *)
(* shell_recipe.go, toolkind.go, permission_options.go).                       *)
CallsAreJudged ==
    /\ focus = "shell" => Shell!CommandsAreJudged
    /\ focus = "tool" => Tool!RequestsAreUnderstood
===============================================================================
