\* A cancel whose close is still going on when the next turn opens a session.
CONSTANTS
    Turns = {t1, t2}
    First = t1
    Stoppers = {"cancel"}
    Fallback = FALSE
    Reaper = FALSE
    MaxCrashes = 0
SPECIFICATION Spec
INVARIANT WiresFollowSession
\* All turns settled, the task at rest or deleted: nothing is left to do.
CHECK_DEADLOCK FALSE
