\* One session that begins a prompt between the two looks of the reaper.
CONSTANTS
    c1 = c1
    c2 = c2
    c3 = c3
    t1 = t1
    t2 = t2
    NoSession = NoSession
    NoTask = NoTask
    Calls <- MCCalls
    Tasks <- MCTasks
    TaskOf <- MCTaskOf
    Slots = 1
SPECIFICATION Spec
PROPERTY ReaperSparesPrompts
\* All calls returned, all sessions closed: nothing is left to do.
CHECK_DEADLOCK FALSE
