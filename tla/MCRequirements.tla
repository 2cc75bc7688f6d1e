--------------------------- MODULE MCRequirements ---------------------------
\* Requirements with its proposals: an implementation and a test of it, and two
\* tasks that wait for each other, which no validation lets through.
EXTENDS Requirements

Node(role, deps) == [role |-> role, deps |-> deps, on |-> {}, agent |-> role = "impl"]

MCProposals == {<<Node("impl", {}), Node("test", {1})>>,
                <<Node("impl", {2}), Node("test", {1})>>}
=============================================================================
