\* One turn and one delete are enough.
CONSTANTS
    Turns = {t1, t2}
    First = t1
    Stoppers = {"delete"}
    Fallback = FALSE
    Reaper = FALSE
    MaxCrashes = 0
SPECIFICATION Spec
INVARIANT NoOrphanSession
\* All turns settled, the task at rest or deleted: nothing is left to do.
CHECK_DEADLOCK FALSE
