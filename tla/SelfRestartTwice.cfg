\* Does the port stay held when the process that holds it, having taken it back
\* after a restart that failed, is restarted again?
CONSTANTS
    MaxRequests = 2
    MaxEvents = 1
    Tasks = {}
    MaxPid = 3
    MaxFaults = 1
    Versions = {v1, v2}
    First = v1
    NoFile = NoFile
    NoTask = NoTask
    NoJournal = NoJournal
SPECIFICATION Spec
INVARIANT SomebodyListens
\* Every request served and every process that was replaced gone: nothing is left.
CHECK_DEADLOCK FALSE
