\* Two restarts, also of one process: up to three processes, one failure.
CONSTANTS
    MaxRequests = 2
    MaxEvents = 1
    Tasks = {t1}
    MaxPid = 3
    MaxFaults = 1
    Versions = {v1, v2}
    First = v1
    NoFile = NoFile
    NoTask = NoTask
    NoJournal = NoJournal
SPECIFICATION Spec
INVARIANTS TypeOK ExecutableStays LiveIsOwned PortIsHeld
\* Every request served and every process that was replaced gone: nothing is left.
CHECK_DEADLOCK FALSE
