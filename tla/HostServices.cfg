\* One instance of each of what the program keeps on its host for the user.
\* The constants named after a service are its bounds.
CONSTANTS
    Services = {"site", "copy", "link", "door", "bot", "store"}
    NoValue = NoValue
    SiteMaxSpawns = 1
    SiteMaxEvents = 1
    SiteMaxTurns = 1
    CopyFiles = {"f"}
    CopyMaxTurns = 2
    CopyMaxMessages = 1
    CopyMaxCancels = 1
    CopyMaxRewinds = 1
    CopyMaxEdits = 1
    LinkStarters = {"handler", "health"}
    LinkHealer = "health"
    LinkMaxProcs = 2
    LinkMaxTokens = 2
    LinkFailures = 2
    DoorVisitors = {"u", "w"}
    DoorGuessers = {"w"}
    DoorMaxKeys = 2
    DoorMaxLinks = 1
    DoorMaxFailures = 1
    BotWorkers = {"v", "w"}
    BotMaxApps = 1
    BotMaxBots = 1
    BotVersions = {1, 2}
    StoreTasks = {"t"}
    StoreWriters = {"v", "w"}
    StoreMaxSeq = 5
    StoreRetention = 2
    StoreMaxStarts = 3
    StoreMaxFaults = 1
SPECIFICATION Spec
INVARIANTS TypeOK RecordsAreKept
PROPERTIES ProcessesAreMinded RewindIsExact DoorIsKept
\* Services come to rest: an agent is closed, a task is deleted, a turn ends, and
\* every bound is used up.
CHECK_DEADLOCK FALSE
