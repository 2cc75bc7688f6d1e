\* Does the bridge's timer end every session that the program has left?
CONSTANTS
    MaxPrompts = 1
    MaxAsks = 2
    MaxFaults = 1
    HistoryMax = 3
SPECIFICATION Spec
PROPERTY OrphansEnd
\* A session that is closed does nothing more.
CHECK_DEADLOCK FALSE
