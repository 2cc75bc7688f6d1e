\* Is what a call said is kept in the table while a restart hands over?
CONSTANTS
    Tasks = {t}
    NoTask = NoTask
    Writers = {v, w}
    MaxSeq = 4
    Retention = 2
    MaxStarts = 2
    MaxFaults = 0
SPECIFICATION Spec
INVARIANT EveryPromiseIsKept
\* Events, processes and identifiers are bounded.
CHECK_DEADLOCK FALSE
