\* Two calls of one task, one of another, two slots.
CONSTANTS
    c1 = c1
    c2 = c2
    c3 = c3
    t1 = t1
    t2 = t2
    NoSession = NoSession
    NoTask = NoTask
    Calls <- MCCalls
    Tasks <- MCTasks
    TaskOf <- MCTaskOf
    Slots = 2
SPECIFICATION FairSpec
INVARIANTS TypeOK SlotsAreOwed NoAdapterIsForgotten OnePromptPerSession
PROPERTY SlotsComeFree
\* All calls returned, all sessions closed: nothing is left to do.
CHECK_DEADLOCK FALSE
