\* Two requests of one kind, every decision, choices that are none, one turn.
CONSTANTS
    r1 = r1
    r2 = r2
    r3 = r3
    same = same
    NoReq = NoReq
    Reqs <- MCTwo
    Kinds <- MCKinds
    KindOf <- MCKindOf
    Offered = {"approve", "approve_session", "approve_same", "approve_turn", "deny"}
    Faults = {"choice"}
    MaxTurns = 1
SPECIFICATION FairSpec
PROPERTY EveryRequestIsAnswered
\* All requests settled, the session closed: nothing is left to do.
CHECK_DEADLOCK FALSE
