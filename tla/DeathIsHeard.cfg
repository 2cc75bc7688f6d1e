\* Does the layer above learn of every session that dies?
CONSTANTS
    MaxPrompts = 1
    MaxAsks = 0
    MaxFaults = 1
    HistoryMax = 3
SPECIFICATION Spec
PROPERTY DeathIsHeard
\* A session that is closed does nothing more.
CHECK_DEADLOCK FALSE
