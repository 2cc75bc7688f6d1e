\* A start, a resumption, cancels without bound, a delete, the reaper, one crash.
CONSTANTS
    Turns = {t1, t2}
    First = t1
    Stoppers = {"cancel", "delete"}
    Fallback = FALSE
    Reaper = TRUE
    MaxCrashes = 1
SPECIFICATION Spec
INVARIANTS TypeOK LiveStatusIsOwned
PROPERTIES OutcomeIsFinal CompletedIsEarned
\* All turns settled, the task at rest or deleted: nothing is left to do.
CHECK_DEADLOCK FALSE
