\* One instance of each of what stands between the agents and the tasks.
\* The constants named after a service are its bounds.
CONSTANTS
    Services = {"session", "bridge", "plan", "catalog", "print", "stream", "tool", "shell", "bus"}
    NoValue = NoValue
    SessionCalls = {"a"}
    SessionMaxPrompts = 1
    BridgeMaxPrompts = 1
    BridgeMaxAsks = 1
    BridgeMaxFaults = 1
    BridgeHistoryMax = 3
    PlanMaxPlans = 2
    PlanMaxSwitches = 1
    PlanMaxWrites = 2
    CatalogCallers = {"a", "b"}
    CatalogStaleMax = 1
    CatalogMaxDays = 1
    CatalogMaxConfigs = 1
    CatalogMaxRestarts = 1
    PrintMaxTurns = 2
    PrintMaxCalls = 1
    StreamMaxChunks = 3
    ToolMaxOffers = 2
    ShellMaxSegments = 2
    BusPublishers = {"p", "q"}
    BusMaxVersions = 3
    BusMaxLinks = 1
    BusBuffer = 1
    BusPingTicks = 2
SPECIFICATION Spec
INVARIANTS TypeOK CallsAreJudged
PROPERTIES AgentsEndCleanly AnswersArrive NothingIsLost
\* Services come to rest: an agent is closed, a task is deleted, a turn ends, and
\* every bound is used up.
CHECK_DEADLOCK FALSE
