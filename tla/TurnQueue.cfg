\* One task, three submitted turns, any flushes, the task deleted at any time.
CONSTANTS
    Turns = {t1, t2, t3}
    NoTurn = NoTurn
SPECIFICATION FairSpec
INVARIANTS TypeOK BusyIsExact OneTurnAtATime ReceiptNeverShort
PROPERTIES SerialLine EveryTurnSettles
\* All turns settled and the drainer gone: nothing is left to do.
CHECK_DEADLOCK FALSE
