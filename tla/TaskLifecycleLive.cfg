\* A start, a resumption, cancels without bound, the print fallback.
CONSTANTS
    Turns = {t1, t2}
    First = t1
    Stoppers = {"cancel"}
    Fallback = TRUE
    Reaper = FALSE
    MaxCrashes = 0
SPECIFICATION FairSpec
PROPERTIES CancelEndsThePrompt AcceptedTurnsSettle
\* All turns settled, the task at rest or deleted: nothing is left to do.
CHECK_DEADLOCK FALSE
