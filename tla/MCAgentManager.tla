--------------------------- MODULE MCAgentManager ---------------------------
(* Model values for AgentManager: two calls of one task, one of another.    *)
EXTENDS AgentManager

CONSTANTS c1, c2, c3, t1, t2

MCCalls == {c1, c2, c3}
MCTasks == {t1, t2}
MCTaskOf == [c \in Calls |-> IF c = c3 THEN t2 ELSE t1]

=============================================================================
