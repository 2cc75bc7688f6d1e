\* Is a restart without a new executable recognised as one while a file of an
\* earlier deployment is staged?
CONSTANTS
    MaxRequests = 2
    MaxEvents = 1
    Tasks = {t1}
    MaxPid = 3
    MaxFaults = 1
    Versions = {v1, v2}
    First = v1
    NoFile = NoFile
    NoTask = NoTask
    NoJournal = NoJournal
SPECIFICATION Spec
INVARIANT RestartOnlyIsRecognised
\* Every request served and every process that was replaced gone: nothing is left.
CHECK_DEADLOCK FALSE
