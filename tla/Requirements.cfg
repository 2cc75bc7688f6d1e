\* One user and the runner's goroutines, from the split of a requirement to the
\* re-verification of a fix.
CONSTANTS
    Users = {u}
    Proposals <- MCProposals
    MaxTasks = 4
    MaxIssues = 2
    MaxRequests = 3
    MaxFaults = 1
\* Requests are bounded and agents need not end their turns.
CHECK_DEADLOCK FALSE
SPECIFICATION Spec
INVARIANTS TypeOK DependenciesFirst FeedbackOnce DueIsMinded
