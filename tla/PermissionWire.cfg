\* Three requests of one kind, approvals for the turn, a failing adapter, two turns.
CONSTANTS
    r1 = r1
    r2 = r2
    r3 = r3
    same = same
    NoReq = NoReq
    Reqs <- MCThree
    Kinds <- MCKinds
    KindOf <- MCKindOf
    Offered = {"approve_turn"}
    Faults = {"adapter"}
    MaxTurns = 2
SPECIFICATION Spec
SYMMETRY MCSymmetry
INVARIANTS TypeOK ApprovedIsTold CardLeadsOn
PROPERTIES SettledOnce
\* All requests settled, the session closed: nothing is left to do.
CHECK_DEADLOCK FALSE
