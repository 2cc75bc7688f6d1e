\* Is a task that is not planned any more left alone by the schedule?
CONSTANTS
    Users = {u}
    Proposals <- MCProposals
    MaxTasks = 4
    MaxIssues = 1
    MaxRequests = 3
    MaxFaults = 0
\* Requests are bounded and agents need not end their turns.
CHECK_DEADLOCK FALSE
SPECIFICATION Spec
PROPERTIES OnlyPlannedIsActivated
