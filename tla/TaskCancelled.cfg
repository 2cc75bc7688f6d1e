\* One turn and one cancel are enough.
CONSTANTS
    Turns = {t1, t2}
    First = t1
    Stoppers = {"cancel"}
    Fallback = FALSE
    Reaper = FALSE
    MaxCrashes = 0
SPECIFICATION Spec
PROPERTY CancelledTurnsAreSilent
\* All turns settled, the task at rest or deleted: nothing is left to do.
CHECK_DEADLOCK FALSE
